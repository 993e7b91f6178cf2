---------------------------- MODULE UserFSProofs ----------------------------
(***************************************************************************)
(* Proofs about UserFS: the file list and the descriptor table, and the    *)
(* blocks, positions and bytes that ufs_write, ufs_read and ufs_resize     *)
(* move, for every number of files, names and descriptors, every block     *)
(* size and every sequence of calls.                                       *)
(***************************************************************************)
EXTENDS UserFSProps, SeqLemmas, FiniteSetTheorems

-----------------------------------------------------------------------------
(* The inductive invariant, of a file list s, a table t and a count n.     *)

FileFields == {"name", "refs", "delete", "blocks"}
SlotFields == {"file", "pos", "is_free", "flag"}

\* The list has no file twice; every address has a struct.
FilesOK(s) ==
    /\ DOMAIN s = {"list", "at"}
    /\ s.list \in Seq(FileIds) /\ NoRepeat(s.list)
    /\ DOMAIN s.at = FileIds
    /\ \A f \in FileIds : /\ DOMAIN s.at[f] = FileFields
                          /\ s.at[f].refs \in Nat /\ s.at[f].delete \in BOOLEAN

\* Of the files with one name at most one is not deleted.
NamesOK(s) == \A f, g \in Elems(s.list) :
    ~s.at[f].delete /\ ~s.at[g].delete /\ s.at[f].name = s.at[g].name => f = g

\* The table is one array, and a free slot has no file.
TableOK(t) ==
    /\ IsFiniteSet(DOMAIN t) /\ DOMAIN t = 0..(Cardinality(DOMAIN t) - 1)
    /\ \A i \in DOMAIN t : /\ DOMAIN t[i] = SlotFields
                           /\ t[i].file \in FileIds \cup {None} /\ t[i].is_free \in BOOLEAN
                           /\ t[i].is_free => t[i].file = None

FreeIn(t)     == {i \in DOMAIN t : t[i].is_free}
OpenOn(t, f)  == {i \in DOMAIN t : t[i].file = f}
CountOK(t, n) == n \in Int /\ n + Cardinality(FreeIn(t)) = Cardinality(DOMAIN t)

\* A file's refs are the slots that point at it, slots point at listed files,
\* and a deleted file is listed only as long as some slot points at it.
RefsOK(s, t) ==
    /\ \A f \in FileIds : s.at[f].refs = Cardinality(OpenOn(t, f))
    /\ \A f \in Elems(s.list) : ~s.at[f].delete \/ s.at[f].refs > 0
    /\ \A i \in DOMAIN t : t[i].file \in Elems(s.list) \cup {None}

Consistent(s, t, n) ==
    FilesOK(s) /\ NamesOK(s) /\ TableOK(t) /\ CountOK(t, n) /\ RefsOK(s, t)

\* ufs_destroy frees the table; the files stay as they are.
FSInv == \/ Consistent(fs, file_descriptors, file_descriptor_count)
         \/ status # "up" /\ FilesOK(fs) /\ NamesOK(fs) /\ file_descriptors = <<>>

-----------------------------------------------------------------------------
(* The file list.                                                          *)

\* Lines 137-139 take one file out of the list.
LEMMA UnlinkedList ==
    ASSUME NEW list \in Seq(FileIds), NoRepeat(list), NEW f \in Elems(list)
    PROVE  /\ Without(list, f) \in Seq(FileIds) /\ NoRepeat(Without(list, f))
           /\ Elems(Without(list, f)) = Elems(list) \ {f}
  <1>1. NodeOf(list, f) \in 1..Len(list) /\ list[NodeOf(list, f)] = f
    BY DEF NodeOf, Elems
  <1> QED BY <1>1, RemoveAtElems DEF Without

\* The files of the list are files.
LEMMA ElemsAreFiles ==
    ASSUME NEW s, FilesOK(s)
    PROVE  Elems(s.list) \subseteq FileIds
  BY ElementOfSeq DEF FilesOK, Elems

\* A call that changes one struct and the list.
LEMMA StructChanged ==
    ASSUME NEW s, FilesOK(s), NEW r, NEW f \in FileIds,
           DOMAIN r = {"list", "at"}, r.list \in Seq(FileIds), NoRepeat(r.list),
           DOMAIN r.at = FileIds, DOMAIN r.at[f] = FileFields,
           r.at[f].refs \in Nat, r.at[f].delete \in BOOLEAN,
           \A g \in FileIds \ {f} : r.at[g] = s.at[g]
    PROVE  FilesOK(r)
  <1>1. ASSUME NEW g \in FileIds
        PROVE  /\ DOMAIN r.at[g] = FileFields
               /\ r.at[g].refs \in Nat /\ r.at[g].delete \in BOOLEAN
    <2>1. CASE g = f
      BY <2>1
    <2>2. CASE g # f
      <3>1. r.at[g] = s.at[g]
        BY <2>2
      <3> QED BY <3>1 DEF FilesOK
    <2> QED BY <2>1, <2>2
  <1> QED BY <1>1 DEF FilesOK

\* close_file gives back one reference, or frees a deleted file with its last.
LEMMA close_file_Is ==
    ASSUME NEW s, FilesOK(s), NEW f \in Elems(s.list), s.at[f].refs > 0
    PROVE  /\ FilesOK(close_file(s, f))
           /\ \A g \in FileIds \ {f} : close_file(s, f).at[g] = s.at[g]
           /\ Dies(s, f) => /\ Elems(close_file(s, f).list) = Elems(s.list) \ {f}
                            /\ close_file(s, f).at[f] = Freed
           /\ ~Dies(s, f) => /\ close_file(s, f).list = s.list
                             /\ close_file(s, f).at[f].refs = s.at[f].refs - 1
                             /\ close_file(s, f).at[f].name = s.at[f].name
                             /\ close_file(s, f).at[f].delete = s.at[f].delete
  <1>1. f \in FileIds
    BY ElemsAreFiles
  <1>2. CASE Dies(s, f)
    <2>1. /\ close_file(s, f).list = Without(s.list, f)
          /\ close_file(s, f).at = [s.at EXCEPT ![f] = Freed]
          /\ DOMAIN close_file(s, f) = {"list", "at"}
      BY <1>2 DEF close_file
    <2>2. /\ Without(s.list, f) \in Seq(FileIds) /\ NoRepeat(Without(s.list, f))
          /\ Elems(Without(s.list, f)) = Elems(s.list) \ {f}
      BY UnlinkedList DEF FilesOK
    <2>3. DOMAIN Freed = FileFields /\ Freed.refs = 0 /\ Freed.delete = FALSE
      BY DEF Freed, FileFields
    <2> HIDE DEF Freed
    <2>4. /\ close_file(s, f).at[f] = Freed
          /\ \A g \in FileIds \ {f} : close_file(s, f).at[g] = s.at[g]
          /\ DOMAIN close_file(s, f).at = FileIds
      BY <1>1, <2>1 DEF FilesOK
    <2>5. FilesOK(close_file(s, f))
      <3>1. close_file(s, f).at[f].delete \in BOOLEAN
        BY <2>3, <2>4, Zenon
      <3>2. close_file(s, f).at[f].refs \in Nat /\ DOMAIN close_file(s, f).at[f] = FileFields
        BY <2>3, <2>4
      <3>3. close_file(s, f).list \in Seq(FileIds) /\ NoRepeat(close_file(s, f).list)
        BY <2>1, <2>2
      <3> QED BY <1>1, <2>1, <2>4, <3>1, <3>2, <3>3, StructChanged
    <2> QED BY <1>2, <2>1, <2>2, <2>4, <2>5
  <1>3. CASE ~Dies(s, f)
    <2>1. close_file(s, f) = [s EXCEPT !.at[f].refs = @ - 1]
      BY <1>3 DEF close_file
    <2>2. /\ DOMAIN close_file(s, f) = {"list", "at"}
          /\ close_file(s, f).list = s.list
          /\ close_file(s, f).at = [s.at EXCEPT ![f] = [s.at[f] EXCEPT !.refs = @ - 1]]
      BY <2>1 DEF FilesOK
    <2> QED BY <1>1, <1>3, <2>2 DEF FilesOK, FileFields
  <1> QED BY <1>2, <1>3

\* ufs_delete marks a file that is open somewhere, and frees one that is not.
LEMMA Unlink_Is ==
    ASSUME NEW s, FilesOK(s), NEW f \in Elems(s.list)
    PROVE  /\ FilesOK(Unlink(s, f))
           /\ \A g \in FileIds \ {f} : Unlink(s, f).at[g] = s.at[g]
           /\ s.at[f].refs = 0 => /\ Elems(Unlink(s, f).list) = Elems(s.list) \ {f}
                                  /\ Unlink(s, f).at[f] = Freed
           /\ s.at[f].refs > 0 => /\ Unlink(s, f).list = s.list
                                  /\ Unlink(s, f).at[f].refs = s.at[f].refs
                                  /\ Unlink(s, f).at[f].delete
  <1> DEFINE m == [s EXCEPT !.at[f].delete = TRUE, !.at[f].refs = @ + 1]
  <1>1. f \in FileIds
    BY ElemsAreFiles
  <1>2. DOMAIN m = {"list", "at"} /\ m.list = s.list
    BY <1>1 DEF FilesOK, FileFields
  <1>3. Unlink(s, f) = close_file(m, f)
    BY DEF Unlink
  <1> HIDE DEF m
  <1>4. /\ m.at[f].refs = s.at[f].refs + 1 /\ m.at[f].delete = TRUE
        /\ DOMAIN m.at[f] = FileFields /\ DOMAIN m.at = FileIds
        /\ \A g \in FileIds \ {f} : m.at[g] = s.at[g]
    <2>1. m.at = [s.at EXCEPT ![f] = [s.at[f] EXCEPT !.delete = TRUE, !.refs = @ + 1]]
      BY <1>1 DEF FilesOK, FileFields, m
    <2> QED BY <1>1, <2>1 DEF FilesOK, FileFields
  <1>5. s.at[f].refs \in Nat
    BY <1>1 DEF FilesOK
  <1>6. FilesOK(m)
    <2>1. m.at[f].refs \in Nat /\ m.list \in Seq(FileIds) /\ NoRepeat(m.list)
      BY <1>2, <1>4, <1>5 DEF FilesOK
    <2>2. m.at[f].delete \in BOOLEAN
      BY <1>4, Zenon
    <2> QED BY <1>1, <1>2, <1>4, <2>1, <2>2, StructChanged
  <1>7. m.at[f].refs > 0 /\ f \in Elems(m.list)
    BY <1>2, <1>4, <1>5
  <1>8. Dies(m, f) <=> s.at[f].refs = 0
    BY <1>4, <1>5 DEF Dies
  <1>9. s.at[f].refs + 1 - 1 = s.at[f].refs /\ (s.at[f].refs > 0 => s.at[f].refs # 0)
    BY <1>5
  <1>10. /\ FilesOK(close_file(m, f))
         /\ \A g \in FileIds \ {f} : close_file(m, f).at[g] = m.at[g]
         /\ Dies(m, f) => /\ Elems(close_file(m, f).list) = Elems(m.list) \ {f}
                          /\ close_file(m, f).at[f] = Freed
         /\ ~Dies(m, f) => /\ close_file(m, f).list = m.list
                           /\ close_file(m, f).at[f].refs = m.at[f].refs - 1
                           /\ close_file(m, f).at[f].delete = m.at[f].delete
    BY <1>6, <1>7, close_file_Is
  <1>11. CASE s.at[f].refs = 0
    BY <1>2, <1>3, <1>4, <1>8, <1>9, <1>10, <1>11
  <1>12. CASE s.at[f].refs # 0
    <2>1. /\ close_file(m, f).list = m.list
          /\ close_file(m, f).at[f].refs = m.at[f].refs - 1
          /\ close_file(m, f).at[f].delete = m.at[f].delete
      BY <1>8, <1>10, <1>12
    <2>2. Unlink(s, f).list = s.list /\ Unlink(s, f).at[f].refs = s.at[f].refs
      BY <1>2, <1>3, <1>4, <1>5, <2>1
    <2>3. Unlink(s, f).at[f].delete
      BY <1>3, <1>4, <2>1, Zenon
    <2>4. FilesOK(Unlink(s, f)) /\ \A g \in FileIds \ {f} : Unlink(s, f).at[g] = s.at[g]
      BY <1>3, <1>4, <1>10
    <2> QED BY <1>12, <2>2, <2>3, <2>4, Zenon
  <1> QED BY <1>11, <1>12

\* create_file puts a file with one reference at the head of the list.
LEMMA create_file_Is ==
    ASSUME NEW s, FilesOK(s), NEW f \in FileIds \ Elems(s.list), NEW name
    PROVE  /\ FilesOK(create_file(s, f, name))
           /\ Elems(create_file(s, f, name).list) = Elems(s.list) \cup {f}
           /\ \A g \in FileIds \ {f} : create_file(s, f, name).at[g] = s.at[g]
           /\ create_file(s, f, name).at[f].name = name
           /\ create_file(s, f, name).at[f].refs = 1
           /\ ~create_file(s, f, name).at[f].delete
  <1> DEFINE c == create_file(s, f, name)
             new == [name |-> name, refs |-> 1, delete |-> FALSE, blocks |-> <<>>]
  <1>1. DOMAIN c = {"list", "at"} /\ c.list = <<f>> \o s.list
    BY DEF create_file
  <1>6. c.at = [s.at EXCEPT ![f] = new]
    BY DEF create_file
  <1>2. /\ DOMAIN new = FileFields /\ new.name = name /\ new.refs = 1 /\ new.delete = FALSE
    BY DEF FileFields
  <1>3. /\ <<f>> \o s.list \in Seq(FileIds) /\ NoRepeat(<<f>> \o s.list)
        /\ Elems(<<f>> \o s.list) = Elems(s.list) \cup {f}
    BY PrependElems DEF FilesOK
  <1> HIDE DEF c, new
  <1>4. /\ c.at[f] = new /\ DOMAIN c.at = FileIds
        /\ \A g \in FileIds \ {f} : c.at[g] = s.at[g]
    BY <1>6 DEF FilesOK
  <1>5. FilesOK(c)
    <2>1. c.at[f].delete \in BOOLEAN
      BY <1>2, <1>4, Zenon
    <2>2. c.at[f].refs \in Nat /\ DOMAIN c.at[f] = FileFields
      BY <1>2, <1>4
    <2>3. c.list \in Seq(FileIds) /\ NoRepeat(c.list)
      BY <1>1, <1>3
    <2> QED BY <1>1, <1>4, <2>1, <2>2, <2>3, StructChanged
  <1> QED BY <1>1, <1>2, <1>3, <1>4, <1>5 DEF c

\* find_file returns a file of that name that is not deleted, or there is none.
LEMMA find_file_Is ==
    ASSUME FilesOK(fs), NEW filename
    PROVE  \/ /\ find_file(filename) = None
              /\ \A f \in Elems(fs.list) : ~fs.at[f].delete => fs.at[f].name # filename
           \/ /\ find_file(filename) \in Elems(fs.list) /\ find_file(filename) # None
              /\ ~fs.at[find_file(filename)].delete
              /\ fs.at[find_file(filename)].name = filename
  <1> DEFINE hits == {i \in 1..Len(fs.list) : /\ ~fs.at[fs.list[i]].delete
                                              /\ fs.at[fs.list[i]].name = filename}
             first == CHOOSE i \in hits : \A j \in hits : i <= j
  <1>1. find_file(filename) = IF hits = {} THEN None ELSE fs.list[first]
    BY DEF find_file
  <1>2. CASE hits = {}
    BY <1>1, <1>2 DEF Elems
  <1>3. CASE hits # {}
    <2>1. hits \subseteq Nat
      OBVIOUS
    <2>2. first \in hits
      BY <1>3, <2>1, Least
    <2>3. fs.list[first] \in Elems(fs.list)
      BY <2>2 DEF Elems
    <2>4. fs.list[first] # None
      BY <2>3, ElemsAreFiles, FileAssumption
    <2> QED BY <1>1, <1>3, <2>2, <2>3, <2>4
  <1> QED BY <1>2, <1>3

-----------------------------------------------------------------------------
(* The descriptor table.                                                   *)

\* Sets of slots are finite.
LEMMA SlotsFinite ==
    ASSUME NEW t, TableOK(t)
    PROVE  /\ Cardinality(DOMAIN t) \in Nat
           /\ IsFiniteSet(FreeIn(t)) /\ Cardinality(FreeIn(t)) \in Nat
           /\ \A f : IsFiniteSet(OpenOn(t, f)) /\ Cardinality(OpenOn(t, f)) \in Nat
  BY FS_Subset, FS_CardinalityType DEF TableOK, FreeIn, OpenOn

\* The slot k of table T is taken for file f, which makes table t.
TakesSlot(T, t, k, f) ==
    /\ \/ k \in FreeIn(T) /\ DOMAIN t = DOMAIN T
       \/ k = Cardinality(DOMAIN T) /\ DOMAIN t = 0..Cardinality(DOMAIN T)
    /\ \A i \in DOMAIN T \ {k} : t[i] = T[i]
    /\ DOMAIN t[k] = SlotFields /\ t[k].file = f
    /\ t[k].is_free \in BOOLEAN /\ ~t[k].is_free

\* The slot k of table T is given back, which makes table t.
GivesSlot(T, t, k) ==
    /\ k \in DOMAIN T /\ ~T[k].is_free /\ T[k].file \in FileIds
    /\ DOMAIN t = DOMAIN T /\ \A i \in DOMAIN T \ {k} : t[i] = T[i]
    /\ DOMAIN t[k] = SlotFields /\ t[k].file = None
    /\ t[k].is_free \in BOOLEAN /\ t[k].is_free

\* find_free_fd returns a free slot or, when there is none, the slot behind the
\* last one: file_descriptor_count is its index because no slot is free.
LEMMA find_free_fd_Is ==
    ASSUME TableOK(file_descriptors), CountOK(file_descriptors, file_descriptor_count)
    PROVE  TakesSlot(file_descriptors, find_free_fd.table, find_free_fd.fd, None)
  <1> DEFINE n == file_descriptor_count  cap == Cardinality(DOMAIN file_descriptors)
  <1>1. /\ cap \in Nat /\ Cardinality(FreeSlots) \in Nat /\ IsFiniteSet(FreeSlots)
        /\ FreeSlots = FreeIn(file_descriptors)
    BY SlotsFinite DEF FreeSlots, FreeIn
  <1>2. n \in Int /\ n + Cardinality(FreeSlots) = cap
    BY <1>1 DEF CountOK
  <1>3. CASE n < cap /\ FreeSlots # {}
    <2>1. /\ find_free_fd.fd = Min(FreeSlots)
          /\ find_free_fd.table = Taken(Min(FreeSlots))
      BY <1>3 DEF find_free_fd, file_descriptor_capacity
    <2>2. Min(FreeSlots) \in FreeSlots
      <3>1. FreeSlots \subseteq Nat
        BY <1>1 DEF FreeSlots, TableOK
      <3> QED BY <1>3, <3>1, MinLeast
    <2> HIDE DEF n, cap
    <2>3. PICK k \in DOMAIN file_descriptors : k = Min(FreeSlots) /\ k \in FreeSlots
      BY <2>2 DEF FreeSlots
    <2>4. find_free_fd.table = [file_descriptors EXCEPT ![k].is_free = FALSE]
      BY <2>1, <2>3 DEF Taken
    <2>5. DOMAIN file_descriptors[k] = SlotFields /\ file_descriptors[k].file = None
      BY <2>3 DEF TableOK, FreeSlots
    <2>6. /\ DOMAIN find_free_fd.table = DOMAIN file_descriptors
          /\ \A i \in DOMAIN file_descriptors \ {k} : find_free_fd.table[i] = file_descriptors[i]
          /\ find_free_fd.table[k] = [file_descriptors[k] EXCEPT !.is_free = FALSE]
      BY <2>4
    <2>7. /\ DOMAIN find_free_fd.table[k] = SlotFields
          /\ find_free_fd.table[k].is_free = FALSE /\ find_free_fd.table[k].file = None
      BY <2>5, <2>6 DEF SlotFields
    <2> QED BY <1>1, <2>1, <2>3, <2>6, <2>7 DEF TakesSlot
  <1>4. CASE ~(n < cap /\ FreeSlots # {})
    <2>1. Cardinality(FreeSlots) = 0
      BY <1>1, <1>2, <1>4, FS_EmptySet
    <2>2. n = cap
      BY <1>1, <1>2, <2>1
    <2>3. /\ find_free_fd.fd = n
          /\ find_free_fd.table = [i \in 0..cap |-> IF i = n THEN NewSlot ELSE file_descriptors[i]]
      BY <1>4 DEF find_free_fd, file_descriptor_capacity
    <2>4. DOMAIN NewSlot = SlotFields /\ NewSlot.is_free = FALSE /\ NewSlot.file = None
      BY DEF NewSlot, SlotFields
    <2>5. DOMAIN file_descriptors = 0..(cap - 1)
      BY DEF TableOK
    <2> HIDE DEF n, cap, NewSlot
    <2>6. /\ DOMAIN find_free_fd.table = 0..cap
          /\ \A i \in DOMAIN file_descriptors \ {n} : find_free_fd.table[i] = file_descriptors[i]
          /\ find_free_fd.table[n] = NewSlot
      BY <1>1, <2>2, <2>3, <2>5
    <2> QED BY <2>2, <2>3, <2>4, <2>6 DEF cap, TakesSlot
  <1> QED BY <1>3, <1>4

\* A slot is taken for file f, or for no file.
LEMMA SlotTaken ==
    ASSUME NEW T, NEW n, TableOK(T), CountOK(T, n), NEW t, NEW k,
           NEW f \in FileIds \cup {None}, TakesSlot(T, t, k, f)
    PROVE  /\ TableOK(t) /\ CountOK(t, n + 1)
           /\ \A g \in FileIds \ {f} : OpenOn(t, g) = OpenOn(T, g)
           /\ f \in FileIds => Cardinality(OpenOn(t, f)) = Cardinality(OpenOn(T, f)) + 1
           /\ \A i \in DOMAIN t : t[i].file = f \/ (i \in DOMAIN T /\ t[i].file = T[i].file)
  <1> USE DEF TakesSlot
  <1> DEFINE cap == Cardinality(DOMAIN T)
  <1>1. /\ cap \in Nat /\ IsFiniteSet(DOMAIN T) /\ DOMAIN T = 0..(cap - 1)
        /\ IsFiniteSet(FreeIn(T)) /\ Cardinality(FreeIn(T)) \in Nat
    BY SlotsFinite DEF TableOK
  <1>2. k \in DOMAIN t /\ DOMAIN T \subseteq DOMAIN t /\ DOMAIN t = DOMAIN T \cup {k}
    <2>1. CASE k \in FreeIn(T) /\ DOMAIN t = DOMAIN T
      BY <2>1 DEF FreeIn
    <2>2. CASE k = cap /\ DOMAIN t = 0..cap
      <3>1. cap \in 0..cap /\ 0..cap = 0..(cap - 1) \cup {cap}
        BY <1>1
      <3> QED BY <1>1, <2>2, <3>1
    <2> QED BY <2>1, <2>2
  <1>3. \A i \in DOMAIN t : i = k \/ (i \in DOMAIN T \ {k} /\ t[i] = T[i])
    BY <1>2
  <1>4. k \in DOMAIN T => k \in FreeIn(T) /\ T[k].file = None
    BY <1>1 DEF FreeIn, TableOK
  <1>5. ~t[k].is_free
    OBVIOUS
  <1>6. IsFiniteSet(DOMAIN t) /\ DOMAIN t = 0..(Cardinality(DOMAIN t) - 1)
    <2>1. CASE k \in FreeIn(T) /\ DOMAIN t = DOMAIN T
      BY <1>1, <2>1
    <2>2. CASE k = cap /\ DOMAIN t = 0..cap
      <3>1. k \notin DOMAIN T
        BY <1>1, <2>2
      <3>2. Cardinality(DOMAIN t) = cap + 1
        BY <1>1, <1>2, <3>1, FS_AddElement
      <3>3. IsFiniteSet(DOMAIN t)
        BY <1>1, <1>2, FS_AddElement
      <3>4. (cap + 1) - 1 = cap
        BY <1>1
      <3> QED BY <2>2, <3>2, <3>3, <3>4
    <2> QED BY <2>1, <2>2
  <1>7. TableOK(t)
    <2>1. ASSUME NEW i \in DOMAIN t
          PROVE  /\ DOMAIN t[i] = SlotFields
                 /\ t[i].file \in FileIds \cup {None} /\ t[i].is_free \in BOOLEAN
                 /\ t[i].is_free => t[i].file = None
      <3>1. CASE i = k
        BY <1>5, <3>1, Zenon
      <3>2. CASE i # k
        <4>1. i \in DOMAIN T /\ t[i] = T[i]
          BY <1>3, <3>2
        <4> QED BY <4>1 DEF TableOK
      <3> QED BY <3>1, <3>2
    <2> QED BY <1>6, <2>1 DEF TableOK
  <1>8. FreeIn(t) = FreeIn(T) \ {k}
    BY <1>2, <1>3, <1>5 DEF FreeIn
  <1>9. CountOK(t, n + 1)
    <2>1. CASE k \in FreeIn(T) /\ DOMAIN t = DOMAIN T
      <3>1. Cardinality(FreeIn(t)) = Cardinality(FreeIn(T)) - 1
        BY <1>1, <1>8, <2>1, FS_RemoveElement
      <3> QED BY <1>1, <2>1, <3>1 DEF CountOK
    <2>2. CASE k = cap /\ DOMAIN t = 0..cap
      <3>1. k \notin DOMAIN T /\ k \notin FreeIn(T)
        BY <1>1, <2>2 DEF FreeIn
      <3>2. Cardinality(DOMAIN t) = cap + 1
        BY <1>1, <1>2, <3>1, FS_AddElement
      <3>3. FreeIn(t) = FreeIn(T)
        BY <1>8, <3>1
      <3> QED BY <1>1, <3>2, <3>3 DEF CountOK
    <2> QED BY <2>1, <2>2
  <1>10. \A g \in FileIds \ {f} : OpenOn(t, g) = OpenOn(T, g)
    BY <1>2, <1>3, <1>4, FileAssumption DEF OpenOn
  <1>11. ASSUME f \in FileIds
         PROVE  Cardinality(OpenOn(t, f)) = Cardinality(OpenOn(T, f)) + 1
    <2>1. OpenOn(t, f) = OpenOn(T, f) \cup {k} /\ k \notin OpenOn(T, f)
      BY <1>2, <1>3, <1>4, <1>11, FileAssumption DEF OpenOn
    <2>2. IsFiniteSet(OpenOn(T, f))
      BY SlotsFinite
    <2> QED BY <2>1, <2>2, FS_AddElement
  <1> QED BY <1>3, <1>7, <1>9, <1>10, <1>11

\* filedesc_make_free gives a slot back.
LEMMA SlotReleased ==
    ASSUME NEW T, NEW n, TableOK(T), CountOK(T, n), NEW t, NEW k, GivesSlot(T, t, k)
    PROVE  /\ TableOK(t) /\ CountOK(t, n - 1)
           /\ \A g \in FileIds \ {T[k].file} : OpenOn(t, g) = OpenOn(T, g)
           /\ OpenOn(t, T[k].file) = OpenOn(T, T[k].file) \ {k}
           /\ Cardinality(OpenOn(t, T[k].file)) = Cardinality(OpenOn(T, T[k].file)) - 1
           /\ \A i \in DOMAIN t : t[i].file = None \/ (i # k /\ t[i].file = T[i].file)
  <1> USE DEF GivesSlot
  <1>1. t[k].is_free /\ T[k].file # None
    BY FileAssumption
  <1>2. TableOK(t)
    <2>1. ASSUME NEW i \in DOMAIN t
          PROVE  /\ DOMAIN t[i] = SlotFields
                 /\ t[i].file \in FileIds \cup {None} /\ t[i].is_free \in BOOLEAN
                 /\ t[i].is_free => t[i].file = None
      <3>1. CASE i = k
        BY <3>1, Zenon
      <3>2. CASE i # k
        <4>1. i \in DOMAIN T /\ t[i] = T[i]
          BY <3>2
        <4> QED BY <4>1 DEF TableOK
      <3> QED BY <3>1, <3>2
    <2> QED BY <2>1 DEF TableOK
  <1>3. FreeIn(t) = FreeIn(T) \cup {k} /\ k \notin FreeIn(T)
    BY <1>1 DEF FreeIn
  <1>4. IsFiniteSet(FreeIn(T)) /\ IsFiniteSet(OpenOn(T, T[k].file)) /\ Cardinality(FreeIn(T)) \in Nat
    BY SlotsFinite
  <1>5. CountOK(t, n - 1)
    <2>1. Cardinality(FreeIn(t)) = Cardinality(FreeIn(T)) + 1
      BY <1>3, <1>4, FS_AddElement
    <2>2. n \in Int /\ n + Cardinality(FreeIn(T)) = Cardinality(DOMAIN T)
      BY DEF CountOK
    <2> QED BY <1>4, <2>1, <2>2 DEF CountOK
  <1>6. \A g \in FileIds \ {T[k].file} : OpenOn(t, g) = OpenOn(T, g)
    BY FileAssumption DEF OpenOn
  <1>7. OpenOn(t, T[k].file) = OpenOn(T, T[k].file) \ {k} /\ k \in OpenOn(T, T[k].file)
    BY <1>1 DEF OpenOn
  <1>8. Cardinality(OpenOn(t, T[k].file)) = Cardinality(OpenOn(T, T[k].file)) - 1
    <2> DEFINE O == OpenOn(T, T[k].file)
    <2> HIDE DEF O
    <2>1. IsFiniteSet(O) /\ k \in O
      BY <1>4, <1>7 DEF O
    <2>2. Cardinality(O \ {k}) = Cardinality(O) - 1
      BY <2>1, FS_RemoveElement
    <2> QED BY <1>7, <2>2 DEF O
  <1>9. \A i \in DOMAIN t : t[i].file = None \/ (i # k /\ t[i].file = T[i].file)
    OBVIOUS
  <1> QED BY <1>2, <1>5, <1>6, <1>7, <1>8, <1>9

\* Positions do not matter to the books.
LEMMA SlotsMoved ==
    ASSUME NEW T, TableOK(T), NEW t, DOMAIN t = DOMAIN T,
           \A i \in DOMAIN T : /\ DOMAIN t[i] = SlotFields /\ t[i].file = T[i].file
                               /\ t[i].is_free = T[i].is_free
    PROVE  /\ TableOK(t) /\ FreeIn(t) = FreeIn(T)
           /\ \A f : OpenOn(t, f) = OpenOn(T, f)
  <1>1. FreeIn(t) = FreeIn(T) /\ \A f : OpenOn(t, f) = OpenOn(T, f)
    BY DEF FreeIn, OpenOn
  <1>2. TableOK(t)
    <2>1. ASSUME NEW i \in DOMAIN t
          PROVE  /\ DOMAIN t[i] = SlotFields
                 /\ t[i].file \in FileIds \cup {None} /\ t[i].is_free \in BOOLEAN
                 /\ t[i].is_free => t[i].file = None
      BY DEF TableOK
    <2> QED BY <2>1 DEF TableOK
  <1> QED BY <1>1, <1>2

-----------------------------------------------------------------------------
(* Files and descriptors together.                                         *)

\* ufs_delete keeps the books; nothing of that name stays visible.
LEMMA UnlinkKeeps ==
    ASSUME NEW s, NEW T, NEW n, Consistent(s, T, n), NEW f \in Elems(s.list)
    PROVE  /\ Consistent(Unlink(s, f), T, n)
           /\ \A g \in Elems(Unlink(s, f).list) : ~Unlink(s, f).at[g].delete =>
                 g # f /\ g \in Elems(s.list) /\ Unlink(s, f).at[g] = s.at[g]
  <1> DEFINE u == Unlink(s, f)
  <1>1. /\ FilesOK(s) /\ NamesOK(s) /\ TableOK(T) /\ CountOK(T, n) /\ RefsOK(s, T)
        /\ f \in FileIds /\ s.at[f].refs \in Nat /\ Elems(s.list) \subseteq FileIds
    <2>1. FilesOK(s) /\ NamesOK(s) /\ TableOK(T) /\ CountOK(T, n) /\ RefsOK(s, T)
      BY DEF Consistent
    <2>2. Elems(s.list) \subseteq FileIds
      BY <2>1, ElemsAreFiles
    <2> QED BY <2>1, <2>2 DEF FilesOK
  <1>2. /\ FilesOK(u)
        /\ \A g \in FileIds \ {f} : u.at[g] = s.at[g]
        /\ s.at[f].refs = 0 => Elems(u.list) = Elems(s.list) \ {f} /\ u.at[f] = Freed
        /\ s.at[f].refs > 0 => /\ u.list = s.list /\ u.at[f].refs = s.at[f].refs
                               /\ u.at[f].delete
    <2>1. FilesOK(s)
      BY <1>1
    <2> QED BY <2>1, Unlink_Is
  <1> HIDE DEF u
  <1>3. CASE s.at[f].refs = 0
    <2>1. Elems(u.list) = Elems(s.list) \ {f} /\ u.at[f].refs = 0
      BY <1>2, <1>3 DEF Freed
    <2>2. \A g \in Elems(u.list) : g # f /\ g \in Elems(s.list) /\ u.at[g] = s.at[g]
      BY <1>1, <1>2, <2>1
    <2>3. NamesOK(u)
      BY <1>1, <2>2 DEF NamesOK
    <2>4. Cardinality(OpenOn(T, f)) = 0
      BY <1>1, <1>3 DEF RefsOK
    <2>5. OpenOn(T, f) = {}
      BY <1>1, <2>4, SlotsFinite, FS_EmptySet
    <2>6. \A i \in DOMAIN T : T[i].file \in Elems(u.list) \cup {None}
      BY <1>1, <2>1, <2>5 DEF RefsOK, OpenOn
    <2>7. \A g \in FileIds : u.at[g].refs = Cardinality(OpenOn(T, g))
      BY <1>1, <1>2, <2>1, <2>4 DEF RefsOK
    <2>8. \A g \in Elems(u.list) : ~u.at[g].delete \/ u.at[g].refs > 0
      BY <1>1, <2>2 DEF RefsOK
    <2> QED BY <1>1, <1>2, <2>2, <2>3, <2>6, <2>7, <2>8 DEF Consistent, RefsOK, u
  <1>4. CASE s.at[f].refs # 0
    <2>1. u.list = s.list /\ u.at[f].refs = s.at[f].refs /\ u.at[f].delete /\ s.at[f].refs > 0
      BY <1>1, <1>2, <1>4
    <2>2. \A g \in Elems(u.list) : g # f => g \in Elems(s.list) /\ u.at[g] = s.at[g]
      BY <1>1, <1>2, <2>1
    <2>3. NamesOK(u)
      BY <1>1, <2>1, <2>2 DEF NamesOK
    <2>4. \A i \in DOMAIN T : T[i].file \in Elems(u.list) \cup {None}
      BY <1>1, <2>1 DEF RefsOK
    <2>5. \A g \in FileIds : u.at[g].refs = Cardinality(OpenOn(T, g))
      BY <1>1, <1>2, <2>1 DEF RefsOK
    <2>6. \A g \in Elems(u.list) : ~u.at[g].delete \/ u.at[g].refs > 0
      BY <1>1, <2>1, <2>2 DEF RefsOK
    <2> QED BY <1>1, <1>2, <2>1, <2>2, <2>3, <2>4, <2>5, <2>6 DEF Consistent, RefsOK, u
  <1> QED BY <1>3, <1>4

\* What the lemmas below need of consistent books.
LEMMA ConsistentParts ==
    ASSUME NEW s, NEW T, NEW n, Consistent(s, T, n)
    PROVE  /\ FilesOK(s) /\ NamesOK(s) /\ TableOK(T) /\ CountOK(T, n) /\ RefsOK(s, T)
           /\ Elems(s.list) \subseteq FileIds
           /\ \A f \in FileIds : s.at[f].refs \in Nat
  <1>1. FilesOK(s) /\ NamesOK(s) /\ TableOK(T) /\ CountOK(T, n) /\ RefsOK(s, T)
    BY DEF Consistent
  <1> QED BY <1>1, ElemsAreFiles DEF FilesOK

\* ufs_open with UFS_CREATE: a new file, which the new descriptor is open on.
LEMMA CreateKeeps ==
    ASSUME NEW s, NEW T, NEW n, Consistent(s, T, n), NEW f \in FileIds \ Elems(s.list),
           NEW name, \A g \in Elems(s.list) : ~s.at[g].delete => s.at[g].name # name,
           NEW t, NEW k, TakesSlot(T, t, k, f)
    PROVE  Consistent(create_file(s, f, name), t, n + 1)
  <1> DEFINE c == create_file(s, f, name)
  <1>1. /\ FilesOK(s) /\ NamesOK(s) /\ TableOK(T) /\ CountOK(T, n) /\ RefsOK(s, T)
        /\ Elems(s.list) \subseteq FileIds
    BY ConsistentParts
  <1>2. /\ FilesOK(c) /\ Elems(c.list) = Elems(s.list) \cup {f}
        /\ \A g \in FileIds \ {f} : c.at[g] = s.at[g]
        /\ c.at[f].name = name /\ c.at[f].refs = 1 /\ ~c.at[f].delete
    BY <1>1, create_file_Is
  <1> HIDE DEF c
  <1>3. /\ TableOK(t) /\ CountOK(t, n + 1)
        /\ \A g \in FileIds \ {f} : OpenOn(t, g) = OpenOn(T, g)
        /\ Cardinality(OpenOn(t, f)) = Cardinality(OpenOn(T, f)) + 1
        /\ \A i \in DOMAIN t : t[i].file = f \/ (i \in DOMAIN T /\ t[i].file = T[i].file)
    BY <1>1, SlotTaken
  <1>4. OpenOn(T, f) = {}
    BY <1>1, FileAssumption DEF RefsOK, OpenOn
  <1>5. Cardinality(OpenOn(t, f)) = 1
    BY <1>3, <1>4, FS_EmptySet
  <1>6. \A g \in Elems(c.list) : g # f => g \in Elems(s.list) /\ c.at[g] = s.at[g]
    BY <1>1, <1>2
  <1>7. NamesOK(c)
    BY <1>1, <1>2, <1>6 DEF NamesOK
  <1>8. \A g \in FileIds : c.at[g].refs = Cardinality(OpenOn(t, g))
    BY <1>1, <1>2, <1>3, <1>5 DEF RefsOK
  <1>9. \A g \in Elems(c.list) : ~c.at[g].delete \/ c.at[g].refs > 0
    BY <1>1, <1>2, <1>6 DEF RefsOK
  <1>10. \A i \in DOMAIN t : t[i].file \in Elems(c.list) \cup {None}
    BY <1>1, <1>2, <1>3 DEF RefsOK
  <1> QED BY <1>2, <1>3, <1>7, <1>8, <1>9, <1>10 DEF Consistent, RefsOK, c

\* ufs_open of a file there is: one more descriptor, one more reference.
LEMMA OpenKeeps ==
    ASSUME NEW s, NEW T, NEW n, Consistent(s, T, n), NEW f \in Elems(s.list),
           NEW t, NEW k, TakesSlot(T, t, k, f)
    PROVE  Consistent([s EXCEPT !.at[f].refs = @ + 1], t, n + 1)
  <1> DEFINE c == [s EXCEPT !.at[f].refs = @ + 1]
  <1>1. /\ FilesOK(s) /\ NamesOK(s) /\ TableOK(T) /\ CountOK(T, n) /\ RefsOK(s, T)
        /\ Elems(s.list) \subseteq FileIds /\ f \in FileIds /\ s.at[f].refs \in Nat
    BY ConsistentParts
  <1>2. DOMAIN c = {"list", "at"} /\ c.list = s.list
    BY <1>1 DEF FilesOK, FileFields
  <1>3. /\ DOMAIN c.at = FileIds /\ DOMAIN c.at[f] = FileFields
        /\ \A g \in FileIds \ {f} : c.at[g] = s.at[g]
        /\ c.at[f].refs = s.at[f].refs + 1 /\ c.at[f].name = s.at[f].name
        /\ c.at[f].delete = s.at[f].delete
    <2>1. c.at = [s.at EXCEPT ![f] = [s.at[f] EXCEPT !.refs = @ + 1]]
      BY <1>1 DEF FilesOK
    <2> HIDE DEF c
    <2> QED BY <1>1, <2>1 DEF FilesOK, FileFields
  <1> HIDE DEF c
  <1>4. FilesOK(c)
    <2>1. /\ c.at[f].refs \in Nat /\ c.at[f].delete \in BOOLEAN
          /\ c.list \in Seq(FileIds) /\ NoRepeat(c.list)
      BY <1>1, <1>2, <1>3 DEF FilesOK
    <2> QED BY <1>1, <1>2, <1>3, <2>1, StructChanged
  <1>5. /\ TableOK(t) /\ CountOK(t, n + 1)
        /\ \A g \in FileIds \ {f} : OpenOn(t, g) = OpenOn(T, g)
        /\ Cardinality(OpenOn(t, f)) = Cardinality(OpenOn(T, f)) + 1
        /\ \A i \in DOMAIN t : t[i].file = f \/ (i \in DOMAIN T /\ t[i].file = T[i].file)
    BY <1>1, SlotTaken
  <1>6. \A g \in Elems(s.list) : c.at[g].delete = s.at[g].delete /\ c.at[g].name = s.at[g].name
    BY <1>1, <1>3
  <1>7. NamesOK(c)
    BY <1>1, <1>2, <1>6 DEF NamesOK
  <1>8. \A g \in FileIds : c.at[g].refs = Cardinality(OpenOn(t, g))
    BY <1>1, <1>3, <1>5 DEF RefsOK
  <1>9. \A g \in Elems(c.list) : ~c.at[g].delete \/ c.at[g].refs > 0
    <2> SUFFICES ASSUME NEW g \in Elems(s.list)
                 PROVE  ~c.at[g].delete \/ c.at[g].refs > 0
      BY <1>2
    <2>1. CASE g = f
      BY <1>1, <1>3, <2>1
    <2>2. CASE g # f
      BY <1>1, <1>3, <2>2 DEF RefsOK
    <2> QED BY <2>1, <2>2
  <1>10. \A i \in DOMAIN t : t[i].file \in Elems(c.list) \cup {None}
    BY <1>1, <1>2, <1>5 DEF RefsOK
  <1> QED BY <1>4, <1>5, <1>7, <1>8, <1>9, <1>10 DEF Consistent, RefsOK, c

\* ufs_open of a file there is not takes a slot for no file.
LEMMA NoFileKeeps ==
    ASSUME NEW s, NEW T, NEW n, Consistent(s, T, n), NEW t, NEW k, TakesSlot(T, t, k, None)
    PROVE  Consistent(s, t, n + 1)
  <1>1. /\ FilesOK(s) /\ NamesOK(s) /\ TableOK(T) /\ CountOK(T, n) /\ RefsOK(s, T)
    BY ConsistentParts
  <1>2. /\ TableOK(t) /\ CountOK(t, n + 1)
        /\ \A g \in FileIds \ {None} : OpenOn(t, g) = OpenOn(T, g)
        /\ \A i \in DOMAIN t : t[i].file = None \/ (i \in DOMAIN T /\ t[i].file = T[i].file)
    BY <1>1, SlotTaken
  <1>3. \A g \in FileIds : OpenOn(t, g) = OpenOn(T, g)
    BY <1>2, FileAssumption
  <1> QED BY <1>1, <1>2, <1>3 DEF Consistent, RefsOK

\* ufs_close: the slot and the reference are given back together.
LEMMA CloseKeeps ==
    ASSUME NEW s, NEW T, NEW n, Consistent(s, T, n), NEW t, NEW k, GivesSlot(T, t, k)
    PROVE  Consistent(close_file(s, T[k].file), t, n - 1)
  <1>1. /\ FilesOK(s) /\ NamesOK(s) /\ TableOK(T) /\ CountOK(T, n) /\ RefsOK(s, T)
        /\ Elems(s.list) \subseteq FileIds /\ \A f \in FileIds : s.at[f].refs \in Nat
    BY ConsistentParts
  <1>2. PICK f \in Elems(s.list) : f = T[k].file
    BY <1>1, FileAssumption DEF RefsOK, GivesSlot
  <1> DEFINE c == close_file(s, f)
  <1>3. f \in FileIds /\ s.at[f].refs \in Nat /\ s.at[f].refs = Cardinality(OpenOn(T, f))
    BY <1>1 DEF RefsOK
  <1>4. s.at[f].refs > 0
    <2>1. k \in OpenOn(T, f)
      BY <1>2 DEF OpenOn, GivesSlot
    <2>3. IsFiniteSet(OpenOn(T, f))
      BY <1>1, SlotsFinite
    <2>2. Cardinality(OpenOn(T, f)) # 0
      BY <2>1, <2>3, FS_EmptySet
    <2> QED BY <1>3, <2>2
  <1>5. /\ FilesOK(c) /\ \A g \in FileIds \ {f} : c.at[g] = s.at[g]
        /\ Dies(s, f) => Elems(c.list) = Elems(s.list) \ {f} /\ c.at[f] = Freed
        /\ ~Dies(s, f) => /\ c.list = s.list /\ c.at[f].refs = s.at[f].refs - 1
                          /\ c.at[f].name = s.at[f].name /\ c.at[f].delete = s.at[f].delete
    BY <1>1, <1>4, close_file_Is
  <1>6. /\ TableOK(t) /\ CountOK(t, n - 1)
        /\ \A g \in FileIds \ {f} : OpenOn(t, g) = OpenOn(T, g)
        /\ OpenOn(t, f) = OpenOn(T, f) \ {k}
        /\ Cardinality(OpenOn(t, f)) = Cardinality(OpenOn(T, f)) - 1
        /\ \A i \in DOMAIN t : t[i].file = None \/ (i # k /\ t[i].file = T[i].file)
    BY <1>1, <1>2, SlotReleased
  <1> HIDE DEF c
  <1>7. CASE Dies(s, f)
    <2>1. s.at[f].refs = 1 /\ Elems(c.list) = Elems(s.list) \ {f} /\ c.at[f].refs = 0
      BY <1>5, <1>7 DEF Dies, Freed
    <2>2. Cardinality(OpenOn(t, f)) = 0
      BY <1>3, <1>6, <2>1
    <2>3. IsFiniteSet(OpenOn(t, f))
      BY <1>6, SlotsFinite
    <2>4. OpenOn(t, f) = {}
      BY <2>2, <2>3, FS_EmptySet
    <2>5. \A g \in Elems(c.list) : g # f /\ g \in Elems(s.list) /\ c.at[g] = s.at[g]
      BY <1>1, <1>5, <2>1
    <2>6. NamesOK(c)
      BY <1>1, <2>5 DEF NamesOK
    <2>7. \A g \in FileIds : c.at[g].refs = Cardinality(OpenOn(t, g))
      <3>1. \A g \in FileIds \ {f} : c.at[g].refs = Cardinality(OpenOn(t, g))
        BY <1>1, <1>5, <1>6 DEF RefsOK
      <3> QED BY <2>1, <2>2, <3>1
    <2>8. \A g \in Elems(c.list) : ~c.at[g].delete \/ c.at[g].refs > 0
      BY <1>1, <2>5 DEF RefsOK
    <2>9. \A i \in DOMAIN t : t[i].file \in Elems(c.list) \cup {None}
      BY <1>1, <1>6, <2>1, <2>4 DEF RefsOK, OpenOn, GivesSlot
    <2> QED BY <1>2, <1>5, <1>6, <2>6, <2>7, <2>8, <2>9 DEF Consistent, RefsOK, c
  <1>8. CASE ~Dies(s, f)
    <2>1. /\ c.list = s.list /\ c.at[f].refs = s.at[f].refs - 1
          /\ c.at[f].name = s.at[f].name /\ c.at[f].delete = s.at[f].delete
      BY <1>5, <1>8
    <2>2. \A g \in Elems(s.list) : c.at[g].delete = s.at[g].delete /\ c.at[g].name = s.at[g].name
      BY <1>1, <1>5, <2>1
    <2>3. NamesOK(c)
      BY <1>1, <2>1, <2>2 DEF NamesOK
    <2>4. \A g \in FileIds : c.at[g].refs = Cardinality(OpenOn(t, g))
      <3>1. \A g \in FileIds \ {f} : c.at[g].refs = Cardinality(OpenOn(t, g))
        BY <1>1, <1>5, <1>6 DEF RefsOK
      <3> QED BY <1>3, <1>6, <2>1, <3>1
    <2>5. \A g \in Elems(c.list) : ~c.at[g].delete \/ c.at[g].refs > 0
      <3> SUFFICES ASSUME NEW g \in Elems(s.list)
                   PROVE  ~c.at[g].delete \/ c.at[g].refs > 0
        BY <2>1
      <3>1. CASE g = f
        BY <1>3, <1>4, <1>8, <2>1, <3>1 DEF Dies
      <3>2. CASE g # f
        BY <1>1, <1>5, <3>2 DEF RefsOK
      <3> QED BY <3>1, <3>2
    <2>6. \A i \in DOMAIN t : t[i].file \in Elems(c.list) \cup {None}
      BY <1>1, <1>6, <2>1 DEF RefsOK, GivesSlot
    <2> QED BY <1>2, <1>5, <1>6, <2>3, <2>4, <2>5, <2>6 DEF Consistent, RefsOK, c
  <1> QED BY <1>7, <1>8

\* Calls that change the bytes of a file and positions of descriptors.
LEMMA BlocksKeep ==
    ASSUME NEW s, NEW T, NEW n, Consistent(s, T, n), NEW f \in FileIds, NEW b, NEW t,
           DOMAIN t = DOMAIN T,
           \A i \in DOMAIN T : /\ DOMAIN t[i] = SlotFields /\ t[i].file = T[i].file
                               /\ t[i].is_free = T[i].is_free
    PROVE  Consistent([s EXCEPT !.at[f].blocks = b], t, n)
  <1> DEFINE c == [s EXCEPT !.at[f].blocks = b]
  <1>1. /\ FilesOK(s) /\ NamesOK(s) /\ TableOK(T) /\ CountOK(T, n) /\ RefsOK(s, T)
        /\ Elems(s.list) \subseteq FileIds
    BY ConsistentParts
  <1>2. DOMAIN c = {"list", "at"} /\ c.list = s.list
    BY <1>1 DEF FilesOK, FileFields
  <1>3. /\ DOMAIN c.at = FileIds /\ DOMAIN c.at[f] = FileFields
        /\ \A g \in FileIds \ {f} : c.at[g] = s.at[g]
        /\ c.at[f].refs = s.at[f].refs /\ c.at[f].name = s.at[f].name
        /\ c.at[f].delete = s.at[f].delete
    <2>1. c.at = [s.at EXCEPT ![f] = [s.at[f] EXCEPT !.blocks = b]]
      BY <1>1 DEF FilesOK
    <2> HIDE DEF c
    <2> QED BY <1>1, <2>1 DEF FilesOK, FileFields
  <1> HIDE DEF c
  <1>4. FilesOK(c)
    <2>1. /\ c.at[f].refs \in Nat /\ c.at[f].delete \in BOOLEAN
          /\ c.list \in Seq(FileIds) /\ NoRepeat(c.list)
      BY <1>1, <1>2, <1>3 DEF FilesOK
    <2> QED BY <1>1, <1>2, <1>3, <2>1, StructChanged
  <1>5. TableOK(t) /\ FreeIn(t) = FreeIn(T) /\ \A g : OpenOn(t, g) = OpenOn(T, g)
    BY <1>1, SlotsMoved
  <1>6. \A g \in FileIds : /\ c.at[g].delete = s.at[g].delete /\ c.at[g].name = s.at[g].name
                           /\ c.at[g].refs = s.at[g].refs
    BY <1>3
  <1>7. NamesOK(c)
    BY <1>1, <1>2, <1>6 DEF NamesOK
  <1>8. RefsOK(c, t)
    BY <1>1, <1>2, <1>5, <1>6 DEF RefsOK
  <1> QED BY <1>1, <1>4, <1>5, <1>7, <1>8 DEF Consistent, CountOK, c

-----------------------------------------------------------------------------
(* One lemma per call.                                                     *)

Books == Consistent(fs, file_descriptors, file_descriptor_count)

\* The descriptor that ufs_open returns is set up in the slot it took.
LEMMA SlotSetUp ==
    ASSUME NEW T, TableOK(T), NEW t, NEW k, TakesSlot(T, t, k, None), NEW u, NEW f, NEW flags,
           \/ u = [t EXCEPT ![k].flag = flags, ![k].file = f, ![k].pos = 0]
           \/ u = [t EXCEPT ![k].flag = flags, ![k].file = f]
    PROVE  TakesSlot(T, u, k, f)
  <1>1. k \in DOMAIN t /\ DOMAIN T \subseteq DOMAIN t
    <2>1. Cardinality(DOMAIN T) \in Nat /\ DOMAIN T = 0..(Cardinality(DOMAIN T) - 1)
      BY SlotsFinite DEF TableOK
    <2>2. CASE k \in FreeIn(T) /\ DOMAIN t = DOMAIN T
      BY <2>2 DEF FreeIn
    <2>3. CASE k = Cardinality(DOMAIN T) /\ DOMAIN t = 0..Cardinality(DOMAIN T)
      BY <2>1, <2>3
    <2> QED BY <2>2, <2>3 DEF TakesSlot
  <1>2. k \in DOMAIN u /\ DOMAIN u = DOMAIN t /\ \A i \in DOMAIN t \ {k} : u[i] = t[i]
    BY <1>1
  <1>3. DOMAIN u[k] = SlotFields /\ u[k].file = f /\ u[k].is_free = t[k].is_free
    <2>1. DOMAIN t[k] = SlotFields
      BY DEF TakesSlot
    <2>2. CASE u = [t EXCEPT ![k].flag = flags, ![k].file = f, ![k].pos = 0]
      BY <1>1, <2>1, <2>2 DEF SlotFields
    <2>3. CASE u = [t EXCEPT ![k].flag = flags, ![k].file = f]
      BY <1>1, <2>1, <2>3 DEF SlotFields
    <2> QED BY <2>2, <2>3
  <1>4. \A i \in DOMAIN T \ {k} : u[i] = T[i]
    BY <1>1, <1>2 DEF TakesSlot
  <1> QED BY <1>2, <1>3, <1>4 DEF TakesSlot

\* ufs_open keeps the books.
LEMMA OpenStep ==
    ASSUME Books, NEW filename, NEW flags, ufs_open(filename, flags)
    PROVE  Books'
  <1> DEFINE k == find_free_fd.fd
             T == file_descriptors
             n == file_descriptor_count
  <1>1. /\ FilesOK(fs) /\ NamesOK(fs) /\ TableOK(T) /\ CountOK(T, n) /\ RefsOK(fs, T)
        /\ Elems(fs.list) \subseteq FileIds
    BY ConsistentParts DEF Books
  <1>2. TakesSlot(T, find_free_fd.table, k, None) /\ n' = n + 1
    BY <1>1, find_free_fd_Is DEF ufs_open
  <1>3. \/ /\ find_file(filename) = None
           /\ \A f \in Elems(fs.list) : ~fs.at[f].delete => fs.at[f].name # filename
        \/ /\ find_file(filename) \in Elems(fs.list) /\ find_file(filename) # None
           /\ ~fs.at[find_file(filename)].delete
           /\ fs.at[find_file(filename)].name = filename
    BY <1>1, find_file_Is
  <1>4. CASE OpenCreate(k, find_free_fd.table, filename, flags)
    <2> DEFINE s == IF find_file(filename) = None THEN fs ELSE Unlink(fs, find_file(filename))
    <2>1. PICK f \in FileIds :
            /\ ~\E i \in 1..Len(s.list) : s.list[i] = f
            /\ fs' = create_file(s, f, filename)
            /\ T' = [find_free_fd.table EXCEPT ![k].flag = flags, ![k].file = f, ![k].pos = 0]
      BY <1>4 DEF OpenCreate
    <2>2. f \notin Elems(s.list)
      BY <2>1 DEF Elems
    <2>3. TakesSlot(T, T', k, f)
      BY <1>2, <2>1, <1>1, SlotSetUp
    <2>4. /\ Consistent(s, T, n)
          /\ \A g \in Elems(s.list) : ~s.at[g].delete => s.at[g].name # filename
      <3>1. CASE find_file(filename) = None
        BY <1>1, <1>3, <3>1, FileAssumption DEF Books
      <3>2. CASE find_file(filename) # None
        <4>1. PICK f0 \in Elems(fs.list) : /\ f0 = find_file(filename)
                                           /\ ~fs.at[f0].delete /\ fs.at[f0].name = filename
          BY <1>3, <3>2
        <4>2. s = Unlink(fs, f0)
          BY <3>2, <4>1
        <4>3. /\ Consistent(Unlink(fs, f0), T, n)
              /\ \A g \in Elems(Unlink(fs, f0).list) : ~Unlink(fs, f0).at[g].delete =>
                   g # f0 /\ g \in Elems(fs.list) /\ Unlink(fs, f0).at[g] = fs.at[g]
          BY UnlinkKeeps DEF Books
        <4> HIDE DEF s
        <4>4. ASSUME NEW g \in Elems(s.list), ~s.at[g].delete PROVE s.at[g].name # filename
          <5>1. g # f0 /\ g \in Elems(fs.list) /\ s.at[g] = fs.at[g] /\ ~fs.at[g].delete
            BY <4>2, <4>3, <4>4
          <5> QED BY <1>1, <4>1, <5>1 DEF NamesOK
        <4> QED BY <4>2, <4>3, <4>4
      <3> QED BY <3>1, <3>2
    <2> HIDE DEF s, k
    <2> QED BY <1>2, <2>1, <2>2, <2>3, <2>4, CreateKeeps DEF Books
  <1>5. CASE OpenExisting(k, find_free_fd.table, filename, flags) /\ find_file(filename) # None
    <2>1. PICK f \in Elems(fs.list) : f = find_file(filename)
      BY <1>3, <1>5
    <2>2. /\ fs' = [fs EXCEPT !.at[f].refs = @ + 1]
          /\ T' = [find_free_fd.table EXCEPT ![k].flag = flags, ![k].file = f, ![k].pos = 0]
      BY <1>5, <2>1 DEF OpenExisting
    <2>3. TakesSlot(T, T', k, f)
      BY <1>2, <2>2, <1>1, SlotSetUp
    <2> HIDE DEF k
    <2> QED BY <1>2, <2>2, <2>3, OpenKeeps DEF Books
  <1>6. CASE OpenExisting(k, find_free_fd.table, filename, flags) /\ find_file(filename) = None
    <2>1. /\ fs' = fs
          /\ T' = [find_free_fd.table EXCEPT ![k].flag = flags, ![k].file = None]
      BY <1>6 DEF OpenExisting
    <2>2. TakesSlot(T, T', k, None)
      BY <1>2, <2>1, <1>1, SlotSetUp
    <2> HIDE DEF k
    <2> QED BY <1>2, <2>1, <2>2, NoFileKeeps DEF Books
  <1> QED BY <1>4, <1>5, <1>6 DEF ufs_open

\* A call that fails, or dies, keeps the books.
LEMMA BooksStutter ==
    ASSUME Books, UNCHANGED <<fs, file_descriptors, file_descriptor_count>>
    PROVE  Books'
  BY DEF Books

\* The descriptor of a call that passes the checks is a slot in use, with a file.
LEMMA OpenDescriptor ==
    ASSUME Books, NEW fd \in Int, ~is_valid_file(fd)
    PROVE  /\ fd \in DOMAIN file_descriptors /\ ~file_descriptors[fd].is_free
           /\ file_descriptors[fd].file \in FileIds
           /\ DOMAIN file_descriptors[fd] = SlotFields
           /\ \A i \in DOMAIN file_descriptors : DOMAIN file_descriptors[i] = SlotFields
  <1>1. TableOK(file_descriptors)
    BY ConsistentParts DEF Books
  <1> QED BY <1>1 DEF is_valid_file, TableOK

\* ufs_write keeps the books.
LEMMA WriteStep ==
    ASSUME Books, NEW fd \in Int, NEW buf, ufs_write(fd, buf)
    PROVE  Books'
  <1>1. CASE Fail("write", "NO_FILE") \/ Fail("write", "NO_PERMISSION")
             \/ Fail("write", "NO_MEM") \/ Crash("write")
    BY <1>1, BooksStutter DEF Fail, Crash
  <1> DEFINE f == file_descriptors[fd].file
             b == Written(fs.at[f].blocks, file_descriptors[fd].pos, buf)
  <1>2. CASE /\ ~is_valid_file(fd)
             /\ fs' = [fs EXCEPT !.at[f].blocks = b]
             /\ file_descriptors' = [file_descriptors EXCEPT ![fd].pos = @ + Len(buf)]
             /\ file_descriptor_count' = file_descriptor_count
    <2>1. /\ fd \in DOMAIN file_descriptors /\ f \in FileIds
          /\ \A i \in DOMAIN file_descriptors : DOMAIN file_descriptors[i] = SlotFields
      BY <1>2, OpenDescriptor
    <2>2. /\ DOMAIN file_descriptors' = DOMAIN file_descriptors
          /\ \A i \in DOMAIN file_descriptors :
                /\ DOMAIN file_descriptors'[i] = SlotFields
                /\ file_descriptors'[i].file = file_descriptors[i].file
                /\ file_descriptors'[i].is_free = file_descriptors[i].is_free
      BY <1>2, <2>1 DEF SlotFields
    <2> HIDE DEF b, f
    <2> QED BY <1>2, <2>1, <2>2, BlocksKeep DEF Books
  <1>3. \/ Fail("write", "NO_FILE") \/ Fail("write", "NO_PERMISSION")
        \/ Fail("write", "NO_MEM") \/ Crash("write")
        \/ /\ ~is_valid_file(fd)
           /\ fs' = [fs EXCEPT !.at[f].blocks = b]
           /\ file_descriptors' = [file_descriptors EXCEPT ![fd].pos = @ + Len(buf)]
           /\ file_descriptor_count' = file_descriptor_count
    BY DEF ufs_write, Checked, DoWrite
  <1> QED BY <1>1, <1>2, <1>3

\* ufs_read keeps the books.
LEMMA ReadStep ==
    ASSUME Books, NEW fd \in Int, NEW size, ufs_read(fd, size)
    PROVE  Books'
  <1> DEFINE r == ReadFrom(fs.at[file_descriptors[fd].file].blocks, file_descriptors[fd].pos, size)
  <1>1. CASE Fail("read", "NO_FILE") \/ Fail("read", "NO_PERMISSION") \/ Crash("read")
    BY <1>1, BooksStutter DEF Fail, Crash
  <1>2. CASE /\ ~is_valid_file(fd) /\ fs' = fs
             /\ file_descriptors' = [file_descriptors EXCEPT ![fd].pos = r.pos]
             /\ file_descriptor_count' = file_descriptor_count
    <2> HIDE DEF r
    <2>1. /\ fd \in DOMAIN file_descriptors
          /\ \A i \in DOMAIN file_descriptors : DOMAIN file_descriptors[i] = SlotFields
      BY <1>2, OpenDescriptor
    <2>2. /\ DOMAIN file_descriptors' = DOMAIN file_descriptors
          /\ \A i \in DOMAIN file_descriptors :
                /\ DOMAIN file_descriptors'[i] = SlotFields
                /\ file_descriptors'[i].file = file_descriptors[i].file
                /\ file_descriptors'[i].is_free = file_descriptors[i].is_free
      BY <1>2, <2>1 DEF SlotFields
    <2>3. /\ FilesOK(fs) /\ NamesOK(fs) /\ RefsOK(fs, file_descriptors)
          /\ TableOK(file_descriptors) /\ CountOK(file_descriptors, file_descriptor_count)
      BY ConsistentParts DEF Books
    <2>4. /\ TableOK(file_descriptors') /\ FreeIn(file_descriptors') = FreeIn(file_descriptors)
          /\ \A g : OpenOn(file_descriptors', g) = OpenOn(file_descriptors, g)
      BY <2>2, <2>3, SlotsMoved
    <2>5. CountOK(file_descriptors', file_descriptor_count') /\ RefsOK(fs', file_descriptors')
      BY <1>2, <2>2, <2>3, <2>4 DEF CountOK, RefsOK
    <2> QED BY <1>2, <2>3, <2>4, <2>5 DEF Books, Consistent
  <1>3. \/ Fail("read", "NO_FILE") \/ Fail("read", "NO_PERMISSION") \/ Crash("read")
        \/ /\ ~is_valid_file(fd) /\ fs' = fs
           /\ file_descriptors' = [file_descriptors EXCEPT ![fd].pos = r.pos]
           /\ file_descriptor_count' = file_descriptor_count
    BY DEF ufs_read, Checked, DoRead
  <1> QED BY <1>1, <1>2, <1>3

\* ufs_resize keeps the books.
LEMMA ResizeStep ==
    ASSUME Books, NEW fd \in Int, NEW size, ufs_resize(fd, size)
    PROVE  Books'
  <1>1. CASE Fail("resize", "NO_FILE") \/ Fail("resize", "NO_PERMISSION")
             \/ Fail("resize", "NO_MEM") \/ Crash("resize")
    BY <1>1, BooksStutter DEF Fail, Crash
  <1> DEFINE d == file_descriptors[fd]
             b == Resized(fs.at[d.file].blocks, size)
  <1>2. CASE /\ ~is_valid_file(fd)
             /\ fs' = [fs EXCEPT !.at[d.file].blocks = b]
             /\ file_descriptors' = Clamped(d, size)
             /\ file_descriptor_count' = file_descriptor_count
    <2>1. /\ fd \in DOMAIN file_descriptors /\ d.file \in FileIds
          /\ \A i \in DOMAIN file_descriptors : DOMAIN file_descriptors[i] = SlotFields
      BY <1>2, OpenDescriptor
    <2> HIDE DEF b, d
    <2>2. DOMAIN file_descriptors' = DOMAIN file_descriptors
      BY <1>2 DEF Clamped
    <2>3. ASSUME NEW i \in DOMAIN file_descriptors
          PROVE  /\ DOMAIN file_descriptors'[i] = SlotFields
                 /\ file_descriptors'[i].file = file_descriptors[i].file
                 /\ file_descriptors'[i].is_free = file_descriptors[i].is_free
      <3>1. \/ file_descriptors'[i] = file_descriptors[i]
            \/ file_descriptors'[i] = [file_descriptors[i] EXCEPT !.pos = Min({@, size})]
        BY <1>2 DEF Clamped
      <3> QED BY <2>1, <3>1 DEF SlotFields
    <2>4. PICK f \in FileIds : f = d.file
      BY <2>1
    <2>5. fs' = [fs EXCEPT !.at[f].blocks = b]
      BY <1>2, <2>4
    <2> QED BY <1>2, <2>2, <2>3, <2>5, BlocksKeep DEF Books
  <1>3. \/ Fail("resize", "NO_FILE") \/ Fail("resize", "NO_PERMISSION")
        \/ Fail("resize", "NO_MEM") \/ Crash("resize")
        \/ /\ ~is_valid_file(fd)
           /\ fs' = [fs EXCEPT !.at[d.file].blocks = b]
           /\ file_descriptors' = Clamped(d, size)
           /\ file_descriptor_count' = file_descriptor_count
    BY DEF ufs_resize, Checked, DoResize
  <1> QED BY <1>1, <1>2, <1>3

\* ufs_close keeps the books.
LEMMA CloseStep ==
    ASSUME Books, NEW fd \in Int, ufs_close(fd)
    PROVE  Books'
  <1>1. CASE Fail("close", "NO_FILE") \/ Fail("close", "NO_PERMISSION")
    BY <1>1, BooksStutter DEF Fail
  <1>2. CASE ~is_valid_file(fd) /\ filedesc_make_free(fd)
    <2>1. /\ fd \in DOMAIN file_descriptors /\ ~file_descriptors[fd].is_free
          /\ file_descriptors[fd].file \in FileIds
          /\ DOMAIN file_descriptors[fd] = SlotFields
      BY <1>2, OpenDescriptor
    <2>2. /\ fs' = close_file(fs, file_descriptors[fd].file)
          /\ file_descriptors' = [file_descriptors EXCEPT ![fd].file = None,
                                       ![fd].is_free = TRUE, ![fd].flag = {}]
          /\ file_descriptor_count' = file_descriptor_count - 1
      BY <1>2 DEF filedesc_make_free
    <2>3. /\ DOMAIN file_descriptors' = DOMAIN file_descriptors
          /\ \A i \in DOMAIN file_descriptors \ {fd} : file_descriptors'[i] = file_descriptors[i]
          /\ DOMAIN file_descriptors'[fd] = SlotFields
          /\ file_descriptors'[fd].file = None /\ file_descriptors'[fd].is_free = TRUE
      BY <2>1, <2>2 DEF SlotFields
    <2>4. file_descriptors'[fd].is_free \in BOOLEAN /\ file_descriptors'[fd].is_free
      BY <2>3, Zenon
    <2>5. GivesSlot(file_descriptors, file_descriptors', fd)
      BY <2>1, <2>3, <2>4 DEF GivesSlot
    <2> QED BY <2>2, <2>5, CloseKeeps DEF Books
  <1> QED BY <1>1, <1>2 DEF ufs_close, Checked

\* ufs_delete keeps the books.
LEMMA DeleteStep ==
    ASSUME Books, NEW filename, ufs_delete(filename)
    PROVE  Books'
  <1>1. FilesOK(fs)
    BY ConsistentParts DEF Books
  <1>2. CASE Fail("delete", "NO_FILE")
    BY <1>2, BooksStutter DEF Fail
  <1>3. CASE /\ find_file(filename) # None /\ fs' = Unlink(fs, find_file(filename))
             /\ UNCHANGED <<file_descriptors, file_descriptor_count>>
    <2>1. PICK f \in Elems(fs.list) : f = find_file(filename)
      BY <1>1, <1>3, find_file_Is
    <2> QED BY <1>3, <2>1, UnlinkKeeps DEF Books
  <1> QED BY <1>2, <1>3 DEF ufs_delete

-----------------------------------------------------------------------------
(* The theorems.                                                           *)

\* Every step keeps the inductive invariant.
LEMMA NextFSInv ==
    ASSUME FSInv, [Next]_fsVars
    PROVE  FSInv'
  <1>1. CASE UNCHANGED fsVars
    BY <1>1 DEF FSInv, fsVars, FilesOK, NamesOK
  <1>2. CASE Next
    <2>1. status = "up" /\ Books
      BY <1>2 DEF Next, FSInv, Books, ufs_delete, ufs_open, ufs_close, ufs_write, ufs_read,
                  ufs_resize, ufs_destroy, Checked
    <2>2. CASE ufs_destroy
      BY <2>1, <2>2, ConsistentParts DEF Books, FSInv, ufs_destroy
    <2>3. \A fd \in FdArgs : fd \in Int
      BY FdAssumption DEF FdArgs
    <2>4. ASSUME ~ufs_destroy
          PROVE  Books'
      BY <1>2, <2>1, <2>3, <2>4, OpenStep, DeleteStep, CloseStep, WriteStep, ReadStep, ResizeStep
         DEF Next
    <2> QED BY <2>2, <2>4 DEF FSInv, Books
  <1> QED BY <1>1, <1>2

\* At first there is neither a file nor a descriptor.
LEMMA InitFSInv ==
    ASSUME Init
    PROVE  FSInv
  <1>1. fs.list = <<>> /\ DOMAIN fs = {"list", "at"} /\ fs.at = [f \in FileIds |-> Freed]
    BY DEF Init
  <1>2. Elems(fs.list) = {} /\ NoRepeat(fs.list) /\ fs.list \in Seq(FileIds)
    BY <1>1, EmptyList
  <1>3. DOMAIN file_descriptors = {} /\ file_descriptor_count = 0
    BY DEF Init
  <1>4. IsFiniteSet(DOMAIN file_descriptors) /\ Cardinality(DOMAIN file_descriptors) = 0
    BY <1>3, FS_EmptySet
  <1>5. FreeIn(file_descriptors) = {} /\ \A f : OpenOn(file_descriptors, f) = {}
    BY <1>3 DEF FreeIn, OpenOn
  <1>6. DOMAIN Freed = FileFields /\ Freed.refs = 0 /\ Freed.delete = FALSE
    BY DEF Freed, FileFields
  <1> HIDE DEF Freed
  <1>7. FilesOK(fs)
    <2>1. Freed.delete \in BOOLEAN
      BY <1>6, Zenon
    <2> QED BY <1>1, <1>2, <1>6, <2>1 DEF FilesOK
  <1>8. NamesOK(fs)
    BY <1>2 DEF NamesOK
  <1>9. TableOK(file_descriptors) /\ CountOK(file_descriptors, file_descriptor_count)
    BY <1>3, <1>4, <1>5, FS_EmptySet DEF TableOK, CountOK
  <1>10. RefsOK(fs, file_descriptors)
    BY <1>1, <1>2, <1>3, <1>5, <1>6, FS_EmptySet DEF RefsOK
  <1> QED BY <1>7, <1>8, <1>9, <1>10 DEF FSInv, Consistent

\* The books of the file system hold in every state: through every order of
\* open, close, delete, re-creation, read, write and resize (userfs.c).
THEOREM BooksHold == Spec => []FSInv
  <1>1. Init => FSInv
    BY InitFSInv
  <1>2. FSInv /\ [Next]_fsVars => FSInv'
    BY NextFSInv
  <1> QED BY <1>1, <1>2, PTL DEF Spec

\* refs is the number of descriptors open on a file, no descriptor points at a
\* freed file and no slot is lost or overwritten (find_free_fd, close_file,
\* filedesc_make_free): for any number of files, names and descriptors.
THEOREM DescriptorsAndFilesAgree == Spec => []CountsExact
  <1>1. ASSUME FSInv PROVE CountsExact
    <2>1. Listed = Elems(fs.list) /\ FreeSlots = FreeIn(file_descriptors)
      BY DEF Listed, Elems, FreeSlots, FreeIn
    <2>2. \A f : Holders(f) = OpenOn(file_descriptors, f)
      BY DEF Holders, OpenOn
    <2>3. CASE Books
      <3>1. CountOK(file_descriptors, file_descriptor_count) /\ RefsOK(fs, file_descriptors)
        BY <2>3, ConsistentParts DEF Books
      <3>2. RefsExact
        BY <2>1, <2>2, <3>1 DEF RefsOK, RefsExact
      <3>3. NoDanglingDescriptor
        BY <2>1, <3>1 DEF RefsOK, NoDanglingDescriptor
      <3>4. CountExact
        BY <2>1, <3>1 DEF CountOK, CountExact, file_descriptor_capacity
      <3> QED BY <3>2, <3>3, <3>4 DEF CountsExact
    <2>4. CASE status # "up" /\ file_descriptors = <<>>
      BY <2>4 DEF CountsExact, RefsExact, CountExact, NoDanglingDescriptor
    <2> QED BY <1>1, <2>3, <2>4 DEF FSInv, Books
  <1> QED BY <1>1, BooksHold, PTL

\* "A file has an unique file name" (userfs.h:8): of the files with one name at
\* most one is not deleted, and no file is linked twice.
THEOREM NamesUnique == Spec => []UniqueLiveName
  <1>1. ASSUME FSInv PROVE UniqueLiveName
    <2>1. FilesOK(fs) /\ NamesOK(fs)
      BY <1>1, ConsistentParts DEF FSInv
    <2> SUFFICES ASSUME NEW i \in 1..Len(fs.list), NEW j \in 1..Len(fs.list), i # j
                 PROVE  /\ fs.list[i] # fs.list[j]
                        /\ Live(fs.list[i]) /\ Live(fs.list[j])
                             => fs.at[fs.list[i]].name # fs.at[fs.list[j]].name
      BY DEF UniqueLiveName
    <2>2. fs.list[i] # fs.list[j]
      BY <2>1 DEF FilesOK, NoRepeat
    <2>3. fs.list[i] \in Elems(fs.list) /\ fs.list[j] \in Elems(fs.list)
      BY DEF Elems
    <2> QED BY <2>1, <2>2, <2>3 DEF NamesOK, Live
  <1> QED BY <1>1, BooksHold, PTL

-----------------------------------------------------------------------------
(* The contents of the files: blocks, positions and bytes.                 *)

\* A fold that adds up, element by element.
Occ(s) == FoldLeft(LAMBDA n, b : n + b.occupied, 0, s)

\* The sum of the bytes in use is a running total over the blocks.
LEMMA OccIs ==
    ASSUME NEW s, NEW n \in Nat, DOMAIN s = 1..n, \A i \in 1..n : s[i].occupied \in Int
    PROVE  \E a \in [0..n -> Int] :
              a[0] = 0 /\ a[n] = Occ(s) /\ \A k \in 1..n : a[k] = a[k - 1] + s[k].occupied
  <1> DEFINE step == [p \in (1..n) \X Int |-> p[2] + s[p[1]].occupied]
             F(g) == [t \in SUBSET (1..n) |-> IF t = {} THEN 0
                                               ELSE g[t \ {Max(t)}] + s[Max(t)].occupied]
             G == CHOOSE g : g = F(g)
             a == [k \in 0..n |-> G[1..k]]
  <1>1. step \in [(1..n) \X Int -> Int] /\ 0 \in Int
    OBVIOUS
  <1>2. \A i \in 1..n, v \in Int : step[<<i, v>>] = v + s[i].occupied
    OBVIOUS
  <1>3. Occ(s) = G[1..n]
    BY DEF Occ, FoldLeft, MapThenFoldSet
  <1> HIDE DEF step, G
  <1>4. PICK g \in [SUBSET (1..n) -> Int] : Folds(g, n, 0, step)
    BY <1>1, FoldExists
  <1>5. g = F(g)
    <2>1. ASSUME NEW t \in SUBSET (1..n), t # {}
          PROVE  g[t] = g[t \ {Max(t)}] + s[Max(t)].occupied
      <3>1. Max(t) \in 1..n /\ t \ {Max(t)} \in SUBSET (1..n)
        BY <2>1, MaxIn
      <3>2. g[t \ {Max(t)}] \in Int
        BY <3>1
      <3> QED BY <1>2, <1>4, <2>1, <3>1, <3>2 DEF Folds
    <2>2. \A t \in SUBSET (1..n) : t = {} => g[t] = 0
      BY <1>4 DEF Folds
    <2>3. \A t \in SUBSET (1..n) : g[t] = F(g)[t]
      BY <2>1, <2>2
    <2> QED BY <2>3
  <1>6. G = F(G)
    <2> HIDE DEF F
    <2> QED BY <1>5 DEF G
  <1>7. ASSUME NEW t \in SUBSET (1..n)
        PROVE  G[t] = IF t = {} THEN 0 ELSE G[t \ {Max(t)}] + s[Max(t)].occupied
    BY <1>6
  <1> HIDE DEF F
  <1>8. a[0] = 0 /\ a[n] = Occ(s)
    <2>1. 1..0 = {} /\ 0 \in 0..n /\ n \in 0..n
      OBVIOUS
    <2> QED BY <1>3, <1>7, <2>1
  <1>9. \A k \in 1..n : a[k] = a[k - 1] + s[k].occupied
    <2> TAKE k \in 1..n
    <2>1. k \in 0..n /\ k - 1 \in 0..n
      OBVIOUS
    <2>2. G[1..k] = G[1..(k - 1)] + s[k].occupied
      <3>1. /\ 1..k \in SUBSET (1..n) /\ 1..k # {} /\ Max(1..k) = k
            /\ (1..k) \ {k} = 1..(k - 1)
        BY Fewer
      <3> QED BY <1>7, <3>1
    <2> QED BY <2>1, <2>2
  <1> HIDE DEF a
  <1>10. \A k \in 0..n : a[k] \in Int
    <2> DEFINE S == {k \in 0..n : a[k] \in Int}
    <2>1. 0 \in S
      BY <1>8
    <2>2. \A k \in 1..n : k - 1 \in S => k \in S
      BY <1>9
    <2>3. \A k \in 0..n : k \in S
      <3> HIDE DEF S
      <3> QED BY <2>1, <2>2, Induct
    <2> QED BY <2>3
  <1>11. a \in [0..n -> Int]
    BY <1>10 DEF a
  <1> QED BY <1>8, <1>9, <1>11

\* Division with a remainder.
LEMMA Remainder ==
    ASSUME NEW a \in Nat, NEW b \in Nat \ {0}, NEW q \in Nat, NEW r \in 0..(b - 1), a = q * b + r
    PROVE  a \div b = q /\ a % b = r
  OBVIOUS

\* Quotient and remainder of a position.
LEMMA Division ==
    ASSUME NEW a \in Nat, NEW b \in Nat \ {0}
    PROVE  /\ a \div b \in Nat /\ a % b \in 0..(b - 1)
           /\ (a \div b) * b + (a % b) = a
  OBVIOUS

\* Division that rounds up.
LEMMA CeilIs ==
    ASSUME NEW a \in Nat, NEW b \in Nat \ {0}
    PROVE  CeilDiv(a, b) \in Nat /\ a <= CeilDiv(a, b) * b /\ CeilDiv(a, b) * b < a + b
  BY DEF CeilDiv

\* Of two numbers.
Less(a, b) == IF a <= b THEN a ELSE b
More(a, b) == IF a <= b THEN b ELSE a

\* The smaller and the bigger of two numbers.
LEMMA MinMaxIs ==
    ASSUME NEW a \in Int, NEW b \in Int
    PROVE  Min({a, b}) = Less(a, b) /\ Max({a, b}) = More(a, b)
  <1>1. Less(a, b) \in {a, b} /\ \A y \in {a, b} : Less(a, b) <= y
    BY DEF Less
  <1>2. \A x \in {a, b} : (\A y \in {a, b} : x <= y) => x = Less(a, b)
    BY DEF Less
  <1>3. More(a, b) \in {a, b} /\ \A y \in {a, b} : More(a, b) >= y
    BY DEF More
  <1>4. \A x \in {a, b} : (\A y \in {a, b} : x >= y) => x = More(a, b)
    BY DEF More
  <1> QED BY <1>1, <1>2, <1>3, <1>4 DEF Min, Max

-----------------------------------------------------------------------------
(* Blocks.                                                                 *)

\* The first byte of block i, and the bytes of it that belong to a file of E bytes.
First(i) == (i - 1) * BLOCK_SIZE
Share(i, E) == Less(E - First(i), BLOCK_SIZE)

\* The blocks of a file of E bytes: all but the last are full, none is empty.
Shape(bl, E) ==
    /\ E \in Nat /\ E <= First(Len(bl) + 1)
    /\ \A i \in 1..Len(bl) : First(i) < E /\ bl[i].occupied = Share(i, E)

\* Where a block begins.
LEMMA FirstIs ==
    ASSUME NEW i \in Int
    PROVE  /\ First(i) \in Int /\ First(i + 1) = First(i) + BLOCK_SIZE /\ First(1) = 0
           /\ \A j \in Int : i < j => First(i) + BLOCK_SIZE <= First(j)
           /\ i >= 1 => First(i) \in Nat
  <1>1. First(i) \in Int /\ First(i + 1) = First(i) + BLOCK_SIZE /\ First(1) = 0
    BY BlockAssumption DEF First
  <1>2. ASSUME NEW j \in Int, i < j PROVE First(i) + BLOCK_SIZE <= First(j)
    BY <1>2, BlockAssumption DEF First
  <1>3. i >= 1 => First(i) \in Nat
    BY BlockAssumption DEF First
  <1> QED BY <1>1, <1>2, <1>3

\* The size that adds up is the size of the shape.
LEMMA ShapeAddsUp ==
    ASSUME NEW bl \in Seq(Block), NEW E, Shape(bl, E)
    PROVE  Occ(bl) = E
  <1> DEFINE n == Len(bl)
  <1>1. n \in Nat /\ DOMAIN bl = 1..n /\ \A i \in 1..n : bl[i].occupied \in Int
    <2>1. n \in Nat /\ DOMAIN bl = 1..n /\ \A i \in 1..n : bl[i] \in Block
      BY LenProperties, ElementOfSeq
    <2> QED BY <2>1, BlockAssumption DEF Block
  <1>2. E \in Nat /\ E <= First(n + 1) /\ BLOCK_SIZE \in Nat
    BY BlockAssumption DEF Shape
  <1>3. ASSUME NEW i \in 1..n
        PROVE  /\ First(i) < E /\ bl[i].occupied = Less(E - First(i), BLOCK_SIZE)
               /\ First(i) \in Int /\ First(i + 1) = First(i) + BLOCK_SIZE
    <2>1. i \in Int
      BY <1>1
    <2> QED BY <2>1, FirstIs DEF Shape, Share
  <1>4. First(1) = 0
    BY FirstIs
  <1> HIDE DEF n
  <1>5. PICK a \in [0..n -> Int] :
            a[0] = 0 /\ a[n] = Occ(bl) /\ \A k \in 1..n : a[k] = a[k - 1] + bl[k].occupied
    BY <1>1, OccIs
  <1> DEFINE S == {k \in 0..n : a[k] = Less(E, First(k + 1))}
  <1>6. 0 \in S
    BY <1>1, <1>2, <1>4, <1>5 DEF Less
  <1>7. \A k \in 1..n : k - 1 \in S => k \in S
    <2> SUFFICES ASSUME NEW k \in 1..n, k - 1 \in S PROVE k \in S
      OBVIOUS
    <2>1. (k - 1) + 1 = k /\ k \in 0..n
      BY <1>1
    <2>2. a[k - 1] = Less(E, First(k)) /\ a[k] = a[k - 1] + bl[k].occupied
      BY <1>5, <2>1
    <2>3. a[k] = Less(E, First(k + 1))
      BY <1>2, <1>3, <2>2 DEF Less
    <2> QED BY <2>1, <2>3
  <1>8. \A k \in 0..n : k \in S
    <2> HIDE DEF S
    <2> QED BY <1>1, <1>6, <1>7, Induct
  <1>9. n \in 0..n
    BY <1>1
  <1>10. a[n] = Less(E, First(n + 1))
    BY <1>8, <1>9
  <1>11. First(n + 1) \in Int
    BY <1>1, FirstIs
  <1> QED BY <1>2, <1>5, <1>10, <1>11 DEF Less

\* What the walks through the blocks rely on.
LEMMA ShapeIsFull ==
    ASSUME NEW bl \in Seq(Block), NEW E, Shape(bl, E), NEW i \in 1..Len(bl)
    PROVE  bl[i].occupied > 0 /\ (i < Len(bl) => bl[i].occupied = BLOCK_SIZE)
  <1>1. Len(bl) \in Nat /\ BLOCK_SIZE \in Nat \ {0} /\ i \in Int /\ Len(bl) \in Int /\ E \in Nat
    BY LenProperties, BlockAssumption DEF Shape
  <1>2. First(i) < E /\ bl[i].occupied = Less(E - First(i), BLOCK_SIZE) /\ First(i) \in Int
    BY <1>1, FirstIs DEF Shape, Share
  <1>3. ASSUME i < Len(bl) PROVE First(i) + BLOCK_SIZE <= E
    <2>1. i + 1 \in 1..Len(bl) /\ First(i + 1) = First(i) + BLOCK_SIZE
      BY <1>1, <1>3, FirstIs
    <2>2. First(i + 1) < E
      BY <2>1 DEF Shape
    <2> QED BY <1>1, <1>2, <2>1, <2>2
  <1> QED BY <1>1, <1>2, <1>3 DEF Less

\* Blocks, and a new one, are blocks.
LEMMA BlockIs ==
    ASSUME NEW b \in Block
    PROVE  /\ DOMAIN b = {"memory", "occupied"} /\ b.memory \in [0..(BLOCK_SIZE - 1) -> Bytes]
           /\ b.occupied \in Nat /\ b.occupied <= BLOCK_SIZE /\ b.occupied \in 0..BLOCK_SIZE
  BY BlockAssumption DEF Block

\* A block that is there, or the new one that is appended.
LEMMA BlockAtIs ==
    ASSUME NEW bl \in Seq(Block), NEW i \in Nat \ {0}
    PROVE  /\ BlockAt(bl, i) \in Block
           /\ i <= Len(bl) => i \in 1..Len(bl) /\ BlockAt(bl, i) = bl[i]
           /\ i > Len(bl) => BlockAt(bl, i).occupied = 0 /\ BlockAt(bl, i) = new_block
  <1>1. Len(bl) \in Nat /\ \A j \in 1..Len(bl) : bl[j] \in Block
    BY LenProperties, ElementOfSeq
  <1>2. new_block \in Block /\ new_block.occupied = 0
    BY BlockAssumption, ByteAssumption DEF new_block, Block
  <1> HIDE DEF new_block
  <1> QED BY <1>1, <1>2 DEF BlockAt

\* Later blocks begin later.
LEMMA FirstGrows ==
    ASSUME NEW i \in Int, NEW j \in Int, i <= j
    PROVE  First(i) <= First(j) /\ First(i) \in Int /\ First(j) \in Int
  BY BlockAssumption DEF First

\* ufs_write copies buf to position p on, which is not behind the end.
LEMMA WrittenIs ==
    ASSUME NEW bl \in Seq(Block), NEW E, Shape(bl, E), NEW p \in Nat, p <= E, NEW buf \in Seq(Bytes)
    PROVE  Shape(Written(bl, p, buf), More(E, p + Len(buf)))
  <1> DEFINE w == Written(bl, p, buf)  end == p + Len(buf)  L == Len(bl)  F == More(E, end)
             c == CeilDiv(end, BLOCK_SIZE)
             n == IF buf = <<>> THEN L ELSE More(L, c)
             occ(i) == IF First(i) < end /\ p < First(i) + BLOCK_SIZE /\ buf # <<>>
                       THEN More(BlockAt(bl, i).occupied, Less(end - First(i), BLOCK_SIZE))
                       ELSE BlockAt(bl, i).occupied
  <1>1. /\ L \in Nat /\ Len(buf) \in Nat /\ end \in Nat /\ BLOCK_SIZE \in Nat \ {0} /\ E \in Nat
        /\ (buf = <<>> => Len(buf) = 0) /\ F \in Nat
    BY LenProperties, BlockAssumption DEF Shape, More
  <1>2. c \in Nat /\ end <= c * BLOCK_SIZE /\ c * BLOCK_SIZE < end + BLOCK_SIZE
    BY <1>1, CeilIs
  <1>3. n \in Nat /\ L <= n
    BY <1>1, <1>2 DEF More
  <1>4. Max({L, c}) = More(L, c)
    <2>1. L \in Int /\ c \in Int
      BY <1>1, <1>2
    <2> HIDE DEF L, c
    <2> QED BY <2>1, MinMaxIs
  <1>5. ASSUME NEW i \in 1..n
        PROVE  /\ First(i) \in Nat /\ BlockAt(bl, i).occupied \in Nat /\ i \in Nat \ {0}
               /\ Filled(BlockAt(bl, i).occupied, Min({end - First(i), BLOCK_SIZE}))
                    = More(BlockAt(bl, i).occupied, Less(end - First(i), BLOCK_SIZE))
    <2>1. i \in Nat \ {0} /\ i \in Int
      BY <1>3
    <2>2. First(i) \in Nat /\ BlockAt(bl, i).occupied \in Nat
      <3>1. i >= 1
        BY <2>1
      <3>2. First(i) \in Nat
        BY ONLY <2>1, <3>1, FirstIs
      <3>3. BlockAt(bl, i) \in Block
        BY <2>1, BlockAtIs
      <3>4. BlockAt(bl, i).occupied \in Nat
        BY <3>3, BlockIs
      <3> QED BY <3>2, <3>4
    <2>3. Min({end - First(i), BLOCK_SIZE}) = Less(end - First(i), BLOCK_SIZE)
      BY <1>1, <2>2, MinMaxIs
    <2>4. Less(end - First(i), BLOCK_SIZE) \in Int
      BY <1>1, <2>2 DEF Less
    <2> DEFINE x == BlockAt(bl, i).occupied  y == Less(end - First(i), BLOCK_SIZE)
    <2>5. x \in Int /\ y \in Int
      BY <2>2, <2>4
    <2>6. Max({x, y}) = More(x, y)
      <3> HIDE DEF x, y
      <3> QED BY <2>5, MinMaxIs
    <2> QED BY <2>1, <2>2, <2>3, <2>6 DEF Filled
  <1>6. Len(w) = n /\ \A i \in 1..n : w[i].occupied = occ(i)
    <2>1. Len(w) = n
      BY <1>3, <1>4 DEF Written
    <2>2. ASSUME NEW i \in 1..n PROVE w[i].occupied = occ(i)
      BY <1>4, <1>5 DEF Written, First
    <2> QED BY <2>1, <2>2
  <1> HIDE DEF w
  <1>7. F <= First(n + 1)
    <2>1. First(L + 1) <= First(n + 1) /\ First(L + 1) \in Int /\ First(n + 1) \in Int
      <3>1. L + 1 \in Int /\ n + 1 \in Int /\ L + 1 <= n + 1
        BY <1>1, <1>3
      <3> HIDE DEF L, n
      <3> QED BY <3>1, FirstGrows
    <2>2. E <= First(L + 1)
      BY DEF Shape
    <2>3. buf # <<>> => First(c + 1) <= First(n + 1) /\ end <= First(c + 1) /\ First(c + 1) \in Int
      <3>1. c + 1 \in Int /\ n + 1 \in Int
        BY <1>2, <1>3
      <3>2. buf # <<>> => c + 1 <= n + 1
        BY <1>1, <1>2 DEF More
      <3>3. First(c + 1) = c * BLOCK_SIZE
        BY <1>2 DEF First
      <3>4. buf # <<>> => First(c + 1) <= First(n + 1) /\ First(c + 1) \in Int
        <4> HIDE DEF n, c
        <4> QED BY <3>1, <3>2, FirstGrows
      <3> QED BY <1>2, <3>3, <3>4
    <2> QED BY <1>1, <2>1, <2>2, <2>3 DEF More
  <1>8. ASSUME NEW i \in 1..n
        PROVE  First(i) < F /\ occ(i) = Share(i, F)
    <2>1. First(i) \in Nat /\ BlockAt(bl, i).occupied \in Nat /\ i \in Nat \ {0}
      BY <1>5
    <2>2. CASE i <= L
      <3>1. First(i) < E /\ BlockAt(bl, i).occupied = Less(E - First(i), BLOCK_SIZE)
        BY <2>1, <2>2, BlockAtIs DEF Shape, Share
      <3> HIDE DEF L, c, n
      <3> QED BY SMTT(40), <1>1, <2>1, <3>1 DEF More, Less, Share
    <2>3. CASE i > L
      <3>1. BlockAt(bl, i).occupied = 0
        BY <2>1, <2>3, BlockAtIs
      <3>2. E <= First(i)
        <4>1. L + 1 \in Int /\ i \in Int /\ L + 1 <= i
          BY <1>1, <2>1, <2>3
        <4>2. First(L + 1) <= First(i) /\ First(L + 1) \in Int
          <5> HIDE DEF L, n
          <5> QED BY <4>1, FirstGrows
        <4>3. E <= First(L + 1)
          BY DEF Shape
        <4> QED BY <1>1, <2>1, <4>2, <4>3
      <3>3. buf # <<>> /\ i <= c
        BY <1>1, <1>2, <1>3, <2>1, <2>3 DEF More
      <3>4. First(i) < end
        <4>1. First(c) < end /\ First(c) \in Int
          <5>1. First(c) = c * BLOCK_SIZE - BLOCK_SIZE
            BY <1>1, <1>2 DEF First
          <5> QED BY <1>1, <1>2, <5>1
        <4>3. i \in Int /\ c \in Int /\ i <= c
          BY <1>2, <2>1, <3>3
        <4>4. First(i) <= First(c)
          <5> HIDE DEF c, n
          <5> QED BY <4>3, FirstGrows
        <4> QED BY <1>1, <2>1, <4>1, <4>4
      <3> QED BY <1>1, <2>1, <3>1, <3>2, <3>3, <3>4 DEF More, Less, Share
    <2> QED BY <1>1, <2>1, <2>2, <2>3
  <1> HIDE DEF n, occ, F
  <1> QED BY <1>1, <1>6, <1>7, <1>8 DEF Shape, w, F

\* What ufs_write leaves are blocks, wherever it writes.
LEMMA WrittenBlocks ==
    ASSUME NEW bl \in Seq(Block), NEW p \in Nat, NEW buf \in Seq(Bytes)
    PROVE  Written(bl, p, buf) \in Seq(Block)
  <1> DEFINE w == Written(bl, p, buf)  end == p + Len(buf)  L == Len(bl)  c == CeilDiv(end, BLOCK_SIZE)
             n == IF buf = <<>> THEN L ELSE Max({L, c})
             Put(i, o) == IF First(i) + o \in p..(end - 1) THEN buf[First(i) + o - p + 1]
                          ELSE BlockAt(bl, i).memory[o]
             Mem(i) == [o \in 0..(BLOCK_SIZE - 1) |-> Put(i, o)]
             Occupied(i) == IF First(i) < end /\ p < First(i) + BLOCK_SIZE /\ buf # <<>>
                            THEN Filled(BlockAt(bl, i).occupied, Min({end - First(i), BLOCK_SIZE}))
                            ELSE BlockAt(bl, i).occupied
  <1>1. /\ L \in Nat /\ Len(buf) \in Nat /\ end \in Nat /\ BLOCK_SIZE \in Nat \ {0}
        /\ \A j \in 1..Len(buf) : buf[j] \in Bytes
    BY LenProperties, ElementOfSeq, BlockAssumption
  <1>2. n \in Nat
    <2>1. c \in Nat
      BY <1>1, CeilIs
    <2>2. Max({L, c}) = More(L, c)
      <3>1. L \in Int /\ c \in Int
        BY <1>1, <2>1
      <3> HIDE DEF L, c
      <3> QED BY <3>1, MinMaxIs
    <2> QED BY <1>1, <2>1, <2>2 DEF More
  <1>3. w = [i \in 1..n |-> [memory |-> Mem(i), occupied |-> Occupied(i)]]
    BY DEF Written, First
  <1> HIDE DEF w, n, end, c, L
  <1>4. ASSUME NEW i \in 1..n
        PROVE  Mem(i) \in [0..(BLOCK_SIZE - 1) -> Bytes] /\ Occupied(i) \in 0..BLOCK_SIZE
    <2>1. i \in Nat \ {0} /\ i \in Int
      BY <1>2
    <2>2. First(i) \in Nat /\ BlockAt(bl, i) \in Block
      BY <2>1, FirstIs, BlockAtIs
    <2>3. /\ BlockAt(bl, i).memory \in [0..(BLOCK_SIZE - 1) -> Bytes]
          /\ BlockAt(bl, i).occupied \in Nat /\ BlockAt(bl, i).occupied \in 0..BLOCK_SIZE
      BY <2>2, BlockIs
    <2>4. ASSUME NEW o \in 0..(BLOCK_SIZE - 1) PROVE Put(i, o) \in Bytes
      <3>1. BlockAt(bl, i).memory[o] \in Bytes
        BY <2>3
      <3>2. ASSUME First(i) + o \in p..(end - 1) PROVE First(i) + o - p + 1 \in 1..Len(buf)
        BY <1>1, <2>2, <3>2 DEF end
      <3> QED BY <1>1, <3>1, <3>2
    <2>5. Occupied(i) \in 0..BLOCK_SIZE
      <3> DEFINE x == BlockAt(bl, i).occupied  y == Less(end - First(i), BLOCK_SIZE)
      <3>1. end - First(i) \in Int /\ BLOCK_SIZE \in Int
        BY <1>1, <2>2
      <3>2. Min({end - First(i), BLOCK_SIZE}) = y
        BY <3>1, MinMaxIs
      <3>3. y \in Int /\ x \in Int /\ y <= BLOCK_SIZE /\ (First(i) < end => y >= 0)
        BY <1>1, <2>2, <2>3, <3>1 DEF Less
      <3>4. Max({x, y}) = More(x, y)
        <4> HIDE DEF x, y
        <4> QED BY <3>3, MinMaxIs
      <3>5. First(i) < end => More(x, y) \in 0..BLOCK_SIZE
        <4> HIDE DEF y
        <4> QED BY <1>1, <2>3, <3>3 DEF More
      <3> QED BY <2>3, <3>2, <3>4, <3>5 DEF Filled
    <2> HIDE DEF Put
    <2> QED BY <2>4, <2>5
  <1> HIDE DEF Mem, Occupied
  <1>5. ASSUME NEW i \in 1..n PROVE w[i] \in Block
    BY <1>3, <1>4 DEF Block
  <1>6. w = [i \in 1..n |-> w[i]]
    BY <1>3
  <1> QED BY <1>2, <1>5, <1>6, IsASeq DEF w

\* ufs_resize to a size makes a file of that size.
LEMMA ResizedIs ==
    ASSUME NEW bl \in Seq(Block), NEW size \in Nat \ {0}
    PROVE  /\ Resized(bl, size) \in Seq(Block) /\ Shape(Resized(bl, size), size)
           /\ Len(Resized(bl, size)) \in Nat
           /\ \A i \in 1..Len(Resized(bl, size)) : Resized(bl, size)[i].memory = BlockAt(bl, i).memory
  <1> DEFINE w == Resized(bl, size)  n == CeilDiv(size, BLOCK_SIZE)
  <1>1. n \in Nat /\ size <= n * BLOCK_SIZE /\ n * BLOCK_SIZE < size + BLOCK_SIZE
        /\ BLOCK_SIZE \in Nat \ {0} /\ size \in Nat
    BY CeilIs, BlockAssumption
  <1>2. w = [i \in 1..n |-> [BlockAt(bl, i) EXCEPT
                                !.occupied = Min({BLOCK_SIZE, size - First(i)})]]
    BY DEF Resized, First
  <1> HIDE DEF w, n
  <1>3. Len(w) = n
    BY <1>1, <1>2
  <1>4. ASSUME NEW i \in 1..n
        PROVE  /\ w[i].occupied = Share(i, size) /\ w[i] \in Block /\ First(i) < size
               /\ w[i].memory = BlockAt(bl, i).memory
    <2>1. i \in Nat \ {0} /\ i \in Int /\ i >= 1 /\ n \in Int /\ i <= n
      BY <1>1
    <2>2. First(i) \in Nat /\ BlockAt(bl, i) \in Block
      <3>1. First(i) \in Nat
        BY <2>1, FirstIs
      <3>2. BlockAt(bl, i) \in Block
        BY <2>1, BlockAtIs
      <3> QED BY <3>1, <3>2
    <2>3. First(i) < size
      <3>1. First(i) <= First(n)
        BY <2>1, FirstGrows
      <3>2. First(n) = n * BLOCK_SIZE - BLOCK_SIZE
        BY <1>1 DEF First
      <3> QED BY <1>1, <2>2, <3>1, <3>2
    <2>4. Min({BLOCK_SIZE, size - First(i)}) = Less(BLOCK_SIZE, size - First(i))
      <3>1. size - First(i) \in Int /\ BLOCK_SIZE \in Int
        BY <1>1, <2>2
      <3> QED BY <3>1, MinMaxIs
    <2>5. /\ Less(BLOCK_SIZE, size - First(i)) = Share(i, size)
          /\ Share(i, size) \in 0..BLOCK_SIZE
      BY <1>1, <2>2, <2>3 DEF Less, Share
    <2>6. /\ DOMAIN BlockAt(bl, i) = {"memory", "occupied"}
          /\ BlockAt(bl, i).memory \in [0..(BLOCK_SIZE - 1) -> Bytes]
      BY <2>2, BlockIs
    <2>7. w[i] = [BlockAt(bl, i) EXCEPT !.occupied = Share(i, size)]
      BY <1>2, <2>4, <2>5
    <2> QED BY <2>2, <2>3, <2>5, <2>7 DEF Block
  <1>5. w \in Seq(Block)
    <2>1. w = [i \in 1..n |-> w[i]]
      BY <1>2
    <2> QED BY <1>1, <1>4, <2>1, IsASeq
  <1>6. size <= First(n + 1)
    BY <1>1 DEF First
  <1> QED BY <1>1, <1>3, <1>4, <1>5, <1>6 DEF Shape, w

\* How far ufs_read has come, and one round of its loop.
Progress(size) ==
    {acc \in [pos : Nat, out : Seq(Bytes), stop : BOOLEAN, overrun : BOOLEAN] : Len(acc.out) <= size}
Copied(acc, b, size) == Available(b.occupied, acc.pos, size - Len(acc.out))
OneBlock(acc, b, size) ==
    IF acc.stop \/ Copied(acc, b, size) = 0 THEN [acc EXCEPT !.stop = TRUE]
    ELSE IF Offset(acc.pos) + Copied(acc, b, size) > BLOCK_SIZE
         THEN [acc EXCEPT !.stop = TRUE, !.overrun = TRUE]
    ELSE [acc EXCEPT !.pos = @ + Copied(acc, b, size),
                     !.out = @ \o [k \in 1..Copied(acc, b, size) |-> b.memory[Offset(acc.pos) + k - 1]]]

\* What a round does when it copies.
LEMMA CopiedIs ==
    ASSUME NEW size \in Nat, NEW acc \in Progress(size), NEW b \in Block
    PROVE  /\ Copied(acc, b, size) \in Nat /\ Copied(acc, b, size) <= size - Len(acc.out)
           /\ Offset(acc.pos) \in Nat
           /\ Offset(acc.pos) <= b.occupied =>
                 Copied(acc, b, size) = Less(b.occupied - Offset(acc.pos), size - Len(acc.out))
  <1> DEFINE o == Offset(acc.pos)  l == size - Len(acc.out)  q == b.occupied
  <1>1. o \in Nat /\ l \in Nat /\ q \in Nat
    <2>1. acc.pos \in Nat /\ Len(acc.out) \in Nat /\ Len(acc.out) <= size
      BY LenProperties DEF Progress
    <2>2. o \in Nat
      BY <2>1, Division, BlockAssumption DEF Offset
    <2> QED BY <2>1, <2>2, BlockIs
  <1>2. Copied(acc, b, size) = IF q < o THEN l ELSE Min({q - o, l})
    BY DEF Copied, Available
  <1> HIDE DEF o, l, q
  <1>3. q - o \in Int /\ l \in Int
    BY <1>1
  <1>4. Min({q - o, l}) = Less(q - o, l)
    BY <1>3, MinMaxIs
  <1>5. IF q < o THEN l \in Nat /\ l <= l ELSE Less(q - o, l) \in Nat /\ Less(q - o, l) <= l
    BY <1>1 DEF Less
  <1> QED BY <1>1, <1>2, <1>4, <1>5 DEF o, l, q

\* One round of the loop of ufs_read keeps its variables in their types.
LEMMA OneBlockIs ==
    ASSUME NEW size \in Nat, NEW acc \in Progress(size), NEW b \in Block
    PROVE  OneBlock(acc, b, size) \in Progress(size)
  <1> DEFINE n == Copied(acc, b, size)  o == Offset(acc.pos)
             s == [k \in 1..n |-> b.memory[o + k - 1]]
  <1>1. n \in Nat /\ n <= size - Len(acc.out) /\ o \in Nat
    BY CopiedIs
  <1>2. /\ DOMAIN acc = {"pos", "out", "stop", "overrun"} /\ acc.pos \in Nat /\ acc.out \in Seq(Bytes)
        /\ acc \in [pos : Nat, out : Seq(Bytes), stop : BOOLEAN, overrun : BOOLEAN]
        /\ Len(acc.out) \in Nat /\ Len(acc.out) <= size
    BY LenProperties DEF Progress
  <1> HIDE DEF n, o
  <1>3. CASE acc.stop \/ n = 0
    BY <1>2, <1>3 DEF OneBlock, Progress, n
  <1>4. CASE ~(acc.stop \/ n = 0) /\ o + n > BLOCK_SIZE
    BY <1>2, <1>4 DEF OneBlock, Progress, n, o
  <1>5. CASE ~(acc.stop \/ n = 0) /\ ~(o + n > BLOCK_SIZE)
    <2>1. s \in Seq(Bytes) /\ Len(s) = n
      <3>1. \A k \in 1..n : s[k] \in Bytes
        <4> TAKE k \in 1..n
        <4>1. o + k - 1 \in 0..(BLOCK_SIZE - 1)
          BY <1>1, <1>5, BlockAssumption
        <4> QED BY <4>1, BlockIs
      <3> QED BY <1>1, <3>1, IsASeq
    <2> HIDE DEF s
    <2>2. acc.out \o s \in Seq(Bytes) /\ Len(acc.out \o s) = Len(acc.out) + n
      BY <1>2, <2>1, ConcatProperties
    <2>3. OneBlock(acc, b, size) = [acc EXCEPT !.pos = @ + n, !.out = @ \o s]
      BY <1>5 DEF OneBlock, n, o, s
    <2> DEFINE r == OneBlock(acc, b, size)
    <2>4. /\ DOMAIN r = {"pos", "out", "stop", "overrun"} /\ r.stop = acc.stop /\ r.overrun = acc.overrun
          /\ r.pos = acc.pos + n /\ r.out = acc.out \o s
          /\ r = [pos |-> r.pos, out |-> r.out, stop |-> r.stop, overrun |-> r.overrun]
      BY <1>2, <2>3
    <2> HIDE DEF r
    <2>5. r.pos \in Nat /\ r.out \in Seq(Bytes) /\ Len(r.out) <= size
      BY <1>1, <1>2, <2>2, <2>4
    <2>6. r.stop \in BOOLEAN /\ r.overrun \in BOOLEAN
      BY <1>2, <2>4
    <2>7. r \in Progress(size)
      BY <2>4, <2>5, <2>6 DEF Progress
    <2> QED BY <2>7 DEF r
  <1> QED BY <1>3, <1>4, <1>5

\* The blocks ufs_read walks, and where it stands after each of them.
Ahead(bl, p) == SubSeq(bl, p \div BLOCK_SIZE + 1, Len(bl))
Start(p) == [pos |-> p, out |-> <<>>, stop |-> FALSE, overrun |-> FALSE]

\* The blocks ufs_read still has in front of it.
LEMMA AheadIs ==
    ASSUME NEW bl \in Seq(Block), NEW p \in Nat
    PROVE  /\ Ahead(bl, p) \in Seq(Block) /\ Len(Ahead(bl, p)) \in Nat /\ p \div BLOCK_SIZE \in Nat
           /\ DOMAIN Ahead(bl, p) = 1..Len(Ahead(bl, p))
           /\ Len(Ahead(bl, p)) = IF p \div BLOCK_SIZE <= Len(bl) THEN Len(bl) - p \div BLOCK_SIZE ELSE 0
           /\ \A k \in 1..Len(Ahead(bl, p)) : /\ Ahead(bl, p)[k] = bl[p \div BLOCK_SIZE + k]
                                              /\ Ahead(bl, p)[k] \in Block
                                              /\ p \div BLOCK_SIZE + k \in 1..Len(bl)
  <1> DEFINE q == p \div BLOCK_SIZE  s == Ahead(bl, p)  L == Len(bl)
  <1>1. q \in Nat /\ L \in Nat /\ \A i \in 1..L : bl[i] \in Block
    BY Division, BlockAssumption, LenProperties, ElementOfSeq
  <1>2. q + 1 \in Int /\ L \in Int /\ \A i \in (q + 1)..L : bl[i] \in Block
    BY <1>1
  <1>3. /\ s \in Seq(Block) /\ Len(s) = (IF q + 1 <= L THEN L - (q + 1) + 1 ELSE 0)
        /\ \A k \in 1..(L - (q + 1) + 1) : s[k] = bl[(q + 1) + k - 1]
    <2> HIDE DEF q, L
    <2>1. SubSeq(bl, q + 1, L) \in Seq(Block)
      BY <1>2, SubSeqProperties
    <2>2. /\ Len(SubSeq(bl, q + 1, L)) = (IF q + 1 <= L THEN L - (q + 1) + 1 ELSE 0)
          /\ \A k \in 1..(L - (q + 1) + 1) : SubSeq(bl, q + 1, L)[k] = bl[(q + 1) + k - 1]
      BY <1>2, SubSeqProperties
    <2> QED BY <2>1, <2>2 DEF Ahead, q, L
  <1> HIDE DEF q, L
  <1>4. Len(s) = (IF q <= L THEN L - q ELSE 0) /\ Len(s) \in Nat /\ DOMAIN s = 1..Len(s)
    BY <1>1, <1>3, LenProperties
  <1>5. \A k \in 1..Len(s) : s[k] = bl[q + k] /\ s[k] \in Block /\ q + k \in 1..L
    <2> TAKE k \in 1..Len(s)
    <2>1. k \in 1..(L - (q + 1) + 1) /\ (q + 1) + k - 1 = q + k /\ q + k \in 1..L
      BY <1>1, <1>4
    <2> QED BY <1>1, <1>3, <2>1
  <1> QED BY <1>1, <1>3, <1>4, <1>5 DEF q, L

\* ufs_read is one round per block in front of it.
LEMMA ReadIs ==
    ASSUME NEW bl \in Seq(Block), NEW p \in Nat, NEW size \in Nat
    PROVE  \E a \in [0..Len(Ahead(bl, p)) -> Progress(size)] :
              /\ a[0] = Start(p) /\ a[Len(Ahead(bl, p))] = ReadFrom(bl, p, size)
              /\ \A k \in 1..Len(Ahead(bl, p)) : a[k] = OneBlock(a[k - 1], Ahead(bl, p)[k], size)
  <1> DEFINE s == Ahead(bl, p)  n == Len(s)  V == Progress(size)
             step == [x \in (1..n) \X V |-> OneBlock(x[2], s[x[1]], size)]
             F(g) == [t \in SUBSET (DOMAIN s) |->
                         IF t = {} THEN Start(p) ELSE OneBlock(g[t \ {Max(t)}], s[Max(t)], size)]
             G == CHOOSE g : g = F(g)
             a == [k \in 0..n |-> G[1..k]]
  <1>1. n \in Nat /\ DOMAIN s = 1..n /\ \A k \in 1..n : s[k] \in Block
    BY AheadIs
  <1>2. ReadFrom(bl, p, size) = G[1..n]
    <2>1. ReadFrom(bl, p, size) = G[DOMAIN s]
      BY DEF ReadFrom, FoldLeft, MapThenFoldSet, OneBlock, Copied, Start, Ahead
    <2> QED BY <1>1, <2>1
  <1>3. /\ step \in [(1..n) \X V -> V] /\ Start(p) \in V
        /\ \A k \in 1..n, v \in V : step[<<k, v>>] = OneBlock(v, s[k], size)
    <2>1. \A k \in 1..n, v \in V : OneBlock(v, s[k], size) \in V
      BY <1>1, OneBlockIs
    <2>2. Start(p) \in V
      <3>1. <<>> \in Seq(Bytes) /\ Len(<<>>) = 0
        OBVIOUS
      <3> QED BY <3>1 DEF Start, Progress
    <2> HIDE DEF V, s, n
    <2> QED BY <2>1, <2>2
  <1> HIDE DEF step, G, V, n, s
  <1>4. PICK g \in [SUBSET (1..n) -> V] : Folds(g, n, Start(p), step)
    BY <1>1, <1>3, FoldExists
  <1>5. g = F(g)
    <2>1. ASSUME NEW t \in SUBSET (1..n), t # {}
          PROVE  g[t] = OneBlock(g[t \ {Max(t)}], s[Max(t)], size)
      <3>1. Max(t) \in 1..n /\ t \ {Max(t)} \in SUBSET (1..n)
        BY <1>1, <2>1, MaxIn
      <3>2. g[t \ {Max(t)}] \in V
        BY <3>1
      <3> QED BY <1>3, <1>4, <2>1, <3>1, <3>2 DEF Folds
    <2>2. \A t \in SUBSET (1..n) : t = {} => g[t] = Start(p)
      BY <1>4 DEF Folds
    <2>3. \A t \in SUBSET (1..n) : g[t] = F(g)[t]
      BY <1>1, <2>1, <2>2
    <2> QED BY <1>1, <2>3
  <1>6. G = F(G)
    <2> HIDE DEF F
    <2> QED BY <1>5 DEF G
  <1>7. ASSUME NEW t \in SUBSET (1..n)
        PROVE  G[t] = IF t = {} THEN Start(p) ELSE OneBlock(G[t \ {Max(t)}], s[Max(t)], size)
    BY <1>1, <1>6
  <1> HIDE DEF F
  <1>8. a[0] = Start(p) /\ a[n] = ReadFrom(bl, p, size)
    <2>1. 1..0 = {} /\ 0 \in 0..n /\ n \in 0..n
      BY <1>1
    <2> QED BY <1>2, <1>7, <2>1
  <1>9. \A k \in 1..n : a[k] = OneBlock(a[k - 1], s[k], size)
    <2> TAKE k \in 1..n
    <2>1. k \in 0..n /\ k - 1 \in 0..n
      BY <1>1
    <2>2. G[1..k] = OneBlock(G[1..(k - 1)], s[k], size)
      <3>1. /\ 1..k \in SUBSET (1..n) /\ 1..k # {} /\ Max(1..k) = k
            /\ (1..k) \ {k} = 1..(k - 1)
        BY <1>1, Fewer
      <3> QED BY <1>7, <3>1
    <2> QED BY <2>1, <2>2
  <1> HIDE DEF a
  <1>10. \A k \in 0..n : a[k] \in V
    <2> DEFINE S == {k \in 0..n : a[k] \in V}
    <2>1. 0 \in S
      BY <1>1, <1>3, <1>8
    <2>2. \A k \in 1..n : k - 1 \in S => k \in S
      <3> SUFFICES ASSUME NEW k \in 1..n, k - 1 \in S PROVE k \in S
        OBVIOUS
      <3>1. OneBlock(a[k - 1], s[k], size) \in V /\ k \in 0..n
        BY <1>1, OneBlockIs DEF V
      <3> QED BY <1>9, <3>1
    <2>3. \A k \in 0..n : k \in S
      <3> HIDE DEF S
      <3> QED BY <1>1, <2>1, <2>2, Induct
    <2> QED BY <2>3
  <1>11. a \in [0..n -> V]
    BY <1>10 DEF a
  <1> QED BY <1>8, <1>9, <1>11 DEF V, n, s

\* The byte of a file at position q, counted from 0.
ByteAt(bl, q) == bl[q \div BLOCK_SIZE + 1].memory[Offset(q)]

\* The block and the offset of a byte.
LEMMA InBlock ==
    ASSUME NEW i \in Nat \ {0}, NEW q \in Nat, First(i) <= q, q < First(i + 1)
    PROVE  /\ q \div BLOCK_SIZE + 1 = i /\ Offset(q) = q - First(i)
           /\ \A bl : ByteAt(bl, q) = bl[i].memory[q - First(i)]
  <1> DEFINE d == i - 1  f == First(i)  r == q - f
  <1>1. f \in Nat /\ First(i + 1) = f + BLOCK_SIZE /\ BLOCK_SIZE \in Nat \ {0}
    <2>1. i \in Int /\ i >= 1
      OBVIOUS
    <2> QED BY <2>1, FirstIs, BlockAssumption
  <1>2. d \in Nat /\ f = d * BLOCK_SIZE /\ d + 1 = i
    BY DEF First
  <1> HIDE DEF d, f
  <1>3. r \in 0..(BLOCK_SIZE - 1) /\ q = f + r
    BY <1>1 DEF f
  <1> HIDE DEF r
  <1>4. q \div BLOCK_SIZE = d /\ q % BLOCK_SIZE = r
    BY <1>1, <1>2, <1>3, Remainder
  <1>5. q \div BLOCK_SIZE + 1 = i /\ Offset(q) = q - First(i)
    BY <1>1, <1>2, <1>3, <1>4 DEF Offset, r, f
  <1> QED BY <1>5 DEF ByteAt

\* ufs_read behind k blocks: it has all bytes up to their end, or up to where it is to stop.
Goal(E, p, size)     == Less(E, p + size)
Where(k, E, p, size) == Less(Goal(E, p, size), More(p, First(p \div BLOCK_SIZE + k + 1)))
HasRead(acc, k, bl, E, p, size) ==
    /\ ~acc.overrun /\ acc.pos = Where(k, E, p, size) /\ Len(acc.out) = acc.pos - p
    /\ acc.stop => acc.pos = Goal(E, p, size)
    /\ \A j \in 1..Len(acc.out) : acc.out[j] = ByteAt(bl, p + j - 1)

\* One round reads exactly the bytes of its block that the call wants (263-272).
LEMMA ReadRound ==
    ASSUME NEW bl \in Seq(Block), NEW E, Shape(bl, E), NEW p \in Nat, p <= E, NEW size \in Nat,
           NEW k \in Nat, p \div BLOCK_SIZE + k + 1 \in 1..Len(bl),
           NEW acc \in Progress(size), HasRead(acc, k, bl, E, p, size)
    PROVE  HasRead(OneBlock(acc, bl[p \div BLOCK_SIZE + k + 1], size), k + 1, bl, E, p, size)
  <1> DEFINE B == p \div BLOCK_SIZE  i == B + k + 1  c == First(i)  T == Goal(E, p, size)
             b == bl[i]  n == Copied(acc, b, size)  o == Offset(acc.pos)  l == size - Len(acc.out)
             r == OneBlock(acc, b, size)
             s == [j \in 1..n |-> b.memory[o + j - 1]]
  <1>1. /\ B \in Nat /\ i \in Nat \ {0} /\ i \in 1..Len(bl) /\ BLOCK_SIZE \in Nat \ {0} /\ E \in Nat
        /\ Len(bl) \in Nat /\ b \in Block
    <2>1. B \in Nat
      BY Division, BlockAssumption
    <2> QED BY <2>1, BlockAssumption, LenProperties, ElementOfSeq DEF Shape
  <1>2. c \in Nat /\ First(i + 1) = c + BLOCK_SIZE /\ First(B + 1) <= p /\ p < First(B + 1) + BLOCK_SIZE
    <2>1. c \in Nat /\ First(i + 1) = c + BLOCK_SIZE
      <3>1. i \in Int /\ i >= 1
        BY <1>1
      <3> HIDE DEF i
      <3> QED BY <3>1, FirstIs
    <2>2. First(B + 1) = B * BLOCK_SIZE
      BY <1>1 DEF First
    <2>3. p % BLOCK_SIZE \in 0..(BLOCK_SIZE - 1) /\ B * BLOCK_SIZE + (p % BLOCK_SIZE) = p
      BY <1>1, Division
    <2> QED BY SMTT(40), <1>1, <2>1, <2>2, <2>3
  <1>3. First(B + 1) <= c /\ First(B + 1) \in Int
    <2>1. B + 1 \in Int /\ i \in Int /\ B + 1 <= i
      BY <1>1
    <2> HIDE DEF B, i
    <2> QED BY <2>1, FirstGrows
  <1>4. c < E /\ b.occupied = Less(E - c, BLOCK_SIZE)
    BY <1>1 DEF Shape, Share
  <1>5. /\ acc.pos \in Nat /\ acc.out \in Seq(Bytes) /\ Len(acc.out) \in Nat /\ Len(acc.out) <= size
        /\ DOMAIN acc = {"pos", "out", "stop", "overrun"}
    BY LenProperties DEF Progress
  <1>6. /\ ~acc.overrun /\ acc.pos = Less(T, More(p, c)) /\ Len(acc.out) = acc.pos - p
        /\ acc.stop => acc.pos = T
        /\ \A j \in 1..Len(acc.out) : acc.out[j] = ByteAt(bl, p + j - 1)
    BY DEF HasRead, Where
  <1>7. /\ n \in Nat /\ n <= l /\ o \in Nat
        /\ o <= b.occupied => n = Less(b.occupied - o, l)
    BY <1>1, CopiedIs
  <1>8. l = p + size - acc.pos /\ l \in Nat /\ T = Less(E, p + size) /\ T \in Nat
    <2>1. T = Less(E, p + size)
      BY DEF Goal
    <2>2. T \in Nat
      BY <1>1, <2>1 DEF Less
    <2>3. Len(acc.out) = acc.pos - p
      BY <1>6
    <2> QED BY <1>5, <2>1, <2>2, <2>3
  <1>9. Where(k + 1, E, p, size) = Less(T, First(i + 1))
    <2>1. Where(k + 1, E, p, size) = Less(T, More(p, First(i + 1)))
      <3>1. B + (k + 1) + 1 = i + 1
        BY SMTT(40), <1>1
      <3> HIDE DEF i, B
      <3> QED BY <3>1 DEF Where, B
    <2> HIDE DEF i, B, T, c
    <2> QED BY SMTT(40), <1>1, <1>2, <1>3, <2>1 DEF More
  <1> HIDE DEF B, i, c, b, n, o, l, T
  <1> DEFINE x == acc.pos  t == p + size  q == b.occupied
  <1>a. /\ x \in Int /\ c \in Int /\ E \in Int /\ T \in Int
        /\ t \in Int /\ q \in Int /\ o \in Int /\ n \in Int
    <2>1. q \in Int
      <3>1. b.occupied \in Nat
        BY <1>1, BlockIs
      <3> QED BY <3>1
    <2>2. x \in Int /\ t \in Int
      BY <1>5
    <2> HIDE DEF x, t, q
    <2> QED BY <1>1, <1>2, <1>7, <1>8, <2>1, <2>2
  <1>b. /\ c < E /\ p < c + BLOCK_SIZE /\ p <= t /\ T = Less(E, t) /\ x = Less(T, More(p, c))
        /\ l = t - x /\ q = Less(E - c, BLOCK_SIZE)
    <2>1. x = Less(T, More(p, c))
      BY <1>6
    <2>2. p <= t
      OBVIOUS
    <2>3. p < c + BLOCK_SIZE
      BY SMTT(40), <1>1, <1>2, <1>3
    <2>4. T = Less(E, t) /\ l = t - x
      <3>1. T = Less(E, p + size)
        BY <1>8
      <3>2. l = (p + size) - acc.pos
        BY <1>5, <1>8
      <3> QED BY <3>1, <3>2
    <2>5. c < E /\ q = Less(E - c, BLOCK_SIZE)
      BY <1>4
    <2> HIDE DEF x, t, q
    <2> QED BY <2>1, <2>2, <2>3, <2>4, <2>5
  <1> HIDE DEF x, t, q
  <1>c. /\ x < c + BLOCK_SIZE /\ x <= E /\ x <= T /\ T <= t
        /\ x < t => c <= x
        /\ x = t => x = T
        /\ x = T => T = Less(T, c + BLOCK_SIZE)
    <2>1. p \in Int /\ p <= E /\ BLOCK_SIZE \in Nat \ {0}
      BY <1>1
    <2> QED BY ONLY <1>a, <1>b, <2>1 DEF Less, More
  <1>10. ASSUME l > 0
         PROVE  /\ c <= x /\ x < c + BLOCK_SIZE /\ o = x - c
                /\ n = Less(T, c + BLOCK_SIZE) - x /\ o + n <= BLOCK_SIZE
    <2>1. c <= x /\ x < c + BLOCK_SIZE /\ x <= E
      BY <1>a, <1>b, <1>c, <1>10
    <2>2. o = x - c
      BY <1>1, <1>2, <1>5, <2>1, InBlock DEF o, c, x
    <2>3. o <= q
      <3>1. x <= E /\ x < c + BLOCK_SIZE /\ o = x - c /\ q = Less(E - c, BLOCK_SIZE)
        BY <1>b, <2>1, <2>2
      <3>2. BLOCK_SIZE \in Int
        BY <1>1
      <3> QED BY ONLY <1>a, <3>1, <3>2 DEF Less
    <2>4. n = Less(q - o, t - x)
      BY <1>7, <1>b, <2>3 DEF q
    <2>5. T = Less(E, t) /\ q = Less(E - c, BLOCK_SIZE) /\ BLOCK_SIZE \in Nat \ {0}
      BY <1>1, <1>b
    <2>6. n = Less(T, c + BLOCK_SIZE) - x /\ o + n <= BLOCK_SIZE
      BY ONLY <1>a, <2>1, <2>2, <2>4, <2>5 DEF Less
    <2> QED BY <2>1, <2>2, <2>6
  <1>11. CASE acc.stop \/ n = 0
    <2>1. r = [acc EXCEPT !.stop = TRUE]
      BY <1>11 DEF OneBlock, n, b, i, B
    <2>2. acc.pos = T
      <3>1. CASE acc.stop
        BY <1>6, <3>1
      <3>2. CASE l > 0 /\ n = 0
        <4>1. x = Less(T, c + BLOCK_SIZE) /\ x < c + BLOCK_SIZE
          BY <1>a, <1>10, <3>2, <1>1 DEF Less
        <4> QED BY <1>1, <1>a, <4>1 DEF Less, x
      <3>3. CASE ~(l > 0)
        <4>1. x = t
          <5>1. l = t - x /\ l <= 0 /\ x <= T /\ T <= t
            BY <1>a, <1>b, <1>c, <3>3
          <5> QED BY ONLY <1>a, <5>1
        <4> QED BY <1>c, <4>1 DEF x
      <3> QED BY <1>11, <3>1, <3>2, <3>3
    <2>3. T = Less(T, First(i + 1))
      BY <1>2, <1>c, <2>2 DEF x
    <2>4. ~r.overrun /\ r.pos = acc.pos /\ r.out = acc.out
      BY <1>5, <1>6, <2>1
    <2> HIDE DEF r
    <2> QED BY <1>6, <1>9, <2>2, <2>3, <2>4 DEF HasRead, r, b, i, B, T
  <1>12. CASE ~(acc.stop \/ n = 0)
    <2>1. l > 0
      BY <1>5, <1>7, <1>12 DEF l
    <2>2. /\ c <= x /\ x < c + BLOCK_SIZE /\ o = x - c
          /\ n = Less(T, c + BLOCK_SIZE) - x /\ o + n <= BLOCK_SIZE
      BY <1>10, <2>1
    <2> DEFINE u == Len(acc.out)
    <2>a. u \in Nat /\ u = x - p /\ n \in Nat /\ o \in Nat
      BY <1>5, <1>6, <1>7 DEF x
    <2>3. r = [acc EXCEPT !.pos = @ + n, !.out = @ \o s]
      <3>1. ~(o + n > BLOCK_SIZE)
        BY <1>1, <1>7, <2>2
      <3> QED BY <1>12, <3>1 DEF OneBlock, n, b, i, B, o
    <2>4. /\ ~r.overrun /\ r.stop = acc.stop /\ r.pos = acc.pos + n /\ r.out = acc.out \o s
      BY <1>5, <1>6, <2>3
    <2>5. s \in Seq(Bytes) /\ Len(s) = n /\ \A j \in 1..n : s[j] = b.memory[o + j - 1]
      <3>1. \A j \in 1..n : s[j] \in Bytes
        <4> TAKE j \in 1..n
        <4>1. o + j - 1 \in 0..(BLOCK_SIZE - 1)
          BY SMTT(40), <1>1, <1>a, <2>2, <2>a
        <4> QED BY <1>1, <4>1, BlockIs
      <3> QED BY <1>7, <3>1, IsASeq
    <2> HIDE DEF r, s
    <2>6. /\ Len(r.out) = Len(acc.out) + n
          /\ \A j \in 1..(Len(acc.out) + n) :
                r.out[j] = IF j <= Len(acc.out) THEN acc.out[j] ELSE s[j - Len(acc.out)]
      BY <1>5, <2>4, <2>5, ConcatProperties
    <2>7. ASSUME NEW j \in 1..(Len(acc.out) + n) PROVE r.out[j] = ByteAt(bl, p + j - 1)
      <3>1. CASE j <= Len(acc.out)
        <4>1. j \in 1..Len(acc.out)
          BY <1>5, <3>1
        <4> QED BY <1>6, <2>6, <3>1, <4>1
      <3>2. CASE ~(j <= Len(acc.out))
        <4> DEFINE m == j - u
        <4>0. j \in Nat \ {0} /\ j <= u + n
          BY <2>a
        <4>1. m \in 1..n /\ p + j - 1 = x + m - 1 /\ p + j - 1 \in Nat
          <5> HIDE DEF u
          <5> QED BY <1>a, <2>a, <3>2, <4>0 DEF u
        <4>2. r.out[j] = b.memory[o + m - 1]
          BY <2>5, <2>6, <3>2, <4>1
        <4>3. c <= p + j - 1 /\ p + j - 1 < c + BLOCK_SIZE /\ (p + j - 1) - c = o + m - 1
          <5>1. c \in Int /\ x \in Int /\ p \in Int /\ j \in Int /\ m \in Int /\ 1 <= m /\ m <= n
            BY <1>a, <2>a, <4>0, <4>1
          <5>2. o + n <= BLOCK_SIZE /\ BLOCK_SIZE \in Nat
            BY <1>1, <2>2
          <5> HIDE DEF m, u
          <5> QED BY ONLY <1>a, <2>2, <2>a, <4>1, <5>1, <5>2
        <4> HIDE DEF m
        <4>4. ByteAt(bl, p + j - 1) = bl[i].memory[(p + j - 1) - c]
          BY ZenonT(40), <1>1, <1>2, <4>1, <4>3, InBlock DEF c
        <4> QED BY <4>2, <4>3, <4>4 DEF b
      <3> QED BY <3>1, <3>2
    <2>8. r.pos = Less(T, First(i + 1)) /\ Len(r.out) = r.pos - p
      <3>1. r.pos = x + n /\ Len(r.out) = u + n
        BY <2>4, <2>6 DEF x
      <3> HIDE DEF u
      <3>2. Less(T, c + BLOCK_SIZE) \in Int
        BY <1>1, <1>a DEF Less
      <3>3. r.pos = Less(T, c + BLOCK_SIZE) /\ Len(r.out) = r.pos - p /\ p \in Int
        <4>1. /\ n = Less(T, c + BLOCK_SIZE) - x /\ x \in Int /\ n \in Int /\ p \in Int
              /\ Less(T, c + BLOCK_SIZE) \in Int /\ u = x - p /\ u \in Int
          BY <1>a, <2>2, <2>a, <3>2
        <4> QED BY ONLY <3>1, <4>1
      <3> QED BY <1>2, <3>3
    <2>9. ~r.stop
      BY <1>12, <2>4
    <2>10. \A j \in 1..Len(r.out) : r.out[j] = ByteAt(bl, p + j - 1)
      BY <2>6, <2>7
    <2> QED BY <1>9, <2>4, <2>8, <2>9, <2>10 DEF HasRead, r, b, i, B, T
  <1> QED BY <1>11, <1>12

\* ufs_read of a file of E bytes from position p on: up to size bytes, the next ones.
LEMMA ReadShape ==
    ASSUME NEW bl \in Seq(Block), NEW E, Shape(bl, E), NEW p \in Nat, p <= E, NEW size \in Nat
    PROVE  LET r == ReadFrom(bl, p, size)
           IN  /\ p \div BLOCK_SIZE <= Len(bl) /\ r \in Progress(size)
               /\ ~r.overrun /\ r.pos = Less(E, p + size) /\ Len(r.out) = r.pos - p
               /\ \A j \in 1..Len(r.out) : r.out[j] = ByteAt(bl, p + j - 1)
  <1> DEFINE B == p \div BLOCK_SIZE  L == Len(bl)  T == Goal(E, p, size)  r == ReadFrom(bl, p, size)
             n == Len(Ahead(bl, p))
  <1>1. B \in Nat /\ L \in Nat /\ E \in Nat /\ E <= First(L + 1) /\ BLOCK_SIZE \in Nat \ {0}
    BY Division, BlockAssumption, LenProperties DEF Shape
  <1>2. First(B + 1) <= p /\ First(B + 1) \in Int /\ First(L + 1) \in Int
    <2>1. First(B + 1) = B * BLOCK_SIZE /\ First(L + 1) = L * BLOCK_SIZE
      BY <1>1 DEF First
    <2>2. p % BLOCK_SIZE \in 0..(BLOCK_SIZE - 1) /\ B * BLOCK_SIZE + (p % BLOCK_SIZE) = p
      BY <1>1, Division
    <2> QED BY <1>1, <2>1, <2>2
  <1>3. B <= L
    <2>1. ASSUME L < B PROVE FALSE
      <3>1. L + 1 \in Int /\ B + 1 \in Int /\ L + 1 < B + 1
        BY <1>1, <2>1
      <3>2. First(L + 1) + BLOCK_SIZE <= First(B + 1)
        <4> HIDE DEF L, B
        <4> QED BY <3>1, FirstIs
      <3> QED BY <1>1, <1>2, <3>2
    <2> QED BY <1>1, <2>1
  <1>4. /\ n \in Nat /\ B + n = L
        /\ \A k \in 1..n : Ahead(bl, p)[k] = bl[B + k] /\ B + k \in 1..L
    <2>1. /\ n \in Nat /\ n = IF B <= L THEN L - B ELSE 0
          /\ \A k \in 1..n : Ahead(bl, p)[k] = bl[B + k] /\ B + k \in 1..L
      BY AheadIs
    <2> HIDE DEF n, B, L
    <2> QED BY <1>1, <1>3, <2>1
  <1>5. PICK a \in [0..n -> Progress(size)] :
              /\ a[0] = Start(p) /\ a[n] = r
              /\ \A k \in 1..n : a[k] = OneBlock(a[k - 1], Ahead(bl, p)[k], size)
    BY ReadIs
  <1> DEFINE S == {k \in 0..n : HasRead(a[k], k, bl, E, p, size)}
  <1>6. T = Less(E, p + size) /\ T \in Nat /\ p <= T
    BY <1>1 DEF Goal, Less
  <1>7. 0 \in S
    <2>1. Where(0, E, p, size) = Less(T, More(p, First(B + 1)))
      <3>1. B + 0 + 1 = B + 1
        BY <1>1
      <3> HIDE DEF B
      <3> QED BY <3>1 DEF Where, B
    <2> HIDE DEF T, B
    <2>2. Where(0, E, p, size) = p
      BY <1>1, <1>2, <1>6, <2>1 DEF Less, More
    <2>3. HasRead(Start(p), 0, bl, E, p, size)
      BY <2>2 DEF HasRead, Start
    <2> QED BY <1>4, <1>5, <2>3
  <1>8. ASSUME NEW k \in 1..n, k - 1 \in S PROVE k \in S
    <2> DEFINE m == k - 1
    <2>1. m \in Nat /\ m + 1 = k /\ B + m + 1 = B + k /\ B + m + 1 \in 1..L /\ k \in 0..n /\ m \in 0..n
      <3>1. k \in Nat \ {0} /\ k \in 0..n /\ k - 1 \in 0..n
        BY <1>4
      <3>2. B + k \in 1..L
        BY <1>4
      <3> HIDE DEF B, L, n
      <3> QED BY <1>1, <3>1, <3>2
    <2>2. HasRead(a[m], m, bl, E, p, size) /\ a[m] \in Progress(size)
      BY <1>5, <1>8, <2>1
    <2>3. a[k] = OneBlock(a[m], bl[B + m + 1], size)
      <3>1. a[k] = OneBlock(a[m], Ahead(bl, p)[k], size)
        BY <1>5
      <3> QED BY <1>4, <2>1, <3>1
    <2> HIDE DEF m
    <2>4. HasRead(a[k], m + 1, bl, E, p, size)
      BY <2>1, <2>2, <2>3, ReadRound
    <2> QED BY <2>1, <2>4
  <1>9. \A k \in 0..n : k \in S
    <2> HIDE DEF S, n
    <2> QED BY <1>4, <1>7, <1>8, Induct
  <1>10. HasRead(r, n, bl, E, p, size)
    BY <1>4, <1>5, <1>9
  <1>11. r \in Progress(size)
    BY <1>4, <1>5
  <1>12. Where(n, E, p, size) = T
    <2>1. Where(n, E, p, size) = Less(T, More(p, First(L + 1)))
      <3> HIDE DEF L, n, B
      <3> QED BY <1>4 DEF Where, B
    <2> HIDE DEF T, L
    <2> QED BY <1>1, <1>2, <1>6, <2>1 DEF Less, More
  <1> HIDE DEF T, n
  <1> QED BY <1>3, <1>6, <1>10, <1>11, <1>12 DEF HasRead

-----------------------------------------------------------------------------
(* What structs and slots hold.                                            *)

StructOK(r) == r.name \in Names \cup {None} /\ r.blocks \in Seq(Block)
SlotOK(d)   == d.pos \in Nat /\ d.flag \in OpenFlags \cup {{}}
FilesData(s) == \A f \in FileIds : StructOK(s.at[f])
SlotsData(t) == \A i \in DOMAIN t : SlotOK(t[i])

\* A listed file has the shape of its size; no position is behind its file's end.
Sound(s) == \A f \in Elems(s.list) :
    Shape(s.at[f].blocks, Occ(s.at[f].blocks)) /\ Occ(s.at[f].blocks) <= MAX_FILE_SIZE
SlotIn(s, d) ==
    d.pos <= MAX_FILE_SIZE /\ (d.file # None => d.pos <= Occ(s.at[d.file].blocks))
Within(s, t) == \A i \in DOMAIN t : SlotIn(s, t[i])

\* A call that frees files and changes no other's name or bytes.
Alike(r, q) == r.name = q.name /\ r.blocks = q.blocks
Carried(s, r) ==
    /\ \A g \in FileIds : r.at[g] = Freed \/ Alike(r.at[g], s.at[g])
    /\ \A g \in Elems(r.list) : g \in Elems(s.list) /\ Alike(r.at[g], s.at[g])

\* A file without blocks is empty.
LEMMA NoBlocks == StructOK(Freed) /\ <<>> \in Seq(Block) /\ Shape(<<>>, 0) /\ Occ(<<>>) = 0
  <1>1. <<>> \in Seq(Block) /\ Len(<<>>) = 0 /\ First(0 + 1) = 0
    BY FirstIs DEF First
  <1>2. Shape(<<>>, 0)
    BY <1>1 DEF Shape
  <1> QED BY <1>1, <1>2, ShapeAddsUp DEF StructOK, Freed

\* A call that frees files keeps the types and shapes of those that stay.
LEMMA CarriedKeeps ==
    ASSUME NEW s, NEW r, Carried(s, r), FilesData(s)
    PROVE  /\ FilesData(r) /\ (Sound(s) => Sound(r))
           /\ \A d : d.file \in Elems(r.list) \cup {None} /\ SlotIn(s, d) => SlotIn(r, d)
  <1>1. FilesData(r)
    BY NoBlocks DEF FilesData, StructOK, Carried, Alike
  <1>2. Sound(s) => Sound(r)
    BY DEF Sound, Carried, Alike
  <1>3. \A d : d.file \in Elems(r.list) \cup {None} /\ SlotIn(s, d) => SlotIn(r, d)
    BY DEF SlotIn, Carried, Alike
  <1> QED BY <1>1, <1>2, <1>3

\* close_file and ufs_delete do.
LEMMA close_file_Carries ==
    ASSUME NEW s, FilesOK(s), NEW f \in Elems(s.list), s.at[f].refs > 0
    PROVE  Carried(s, close_file(s, f))
  <1> DEFINE c == close_file(s, f)
  <1>1. /\ f \in FileIds /\ Elems(s.list) \subseteq FileIds
        /\ \A g \in FileIds \ {f} : c.at[g] = s.at[g]
        /\ Dies(s, f) => Elems(c.list) = Elems(s.list) \ {f} /\ c.at[f] = Freed
        /\ ~Dies(s, f) => c.list = s.list
    BY SMTT(40), ElemsAreFiles, close_file_Is
  <1>2. ASSUME ~Dies(s, f) PROVE Alike(c.at[f], s.at[f])
    <2>1. c = [s EXCEPT !.at[f].refs = @ - 1]
      BY <1>2 DEF close_file
    <2> HIDE DEF c
    <2>2. c.at[f] = [s.at[f] EXCEPT !.refs = @ - 1]
      BY <1>1, <2>1 DEF FilesOK
    <2> QED BY <1>1, <2>2 DEF Alike, FilesOK, FileFields
  <1> HIDE DEF c
  <1> QED BY <1>1, <1>2 DEF Carried, Alike, c

\* ufs_delete frees files and changes no other's name or bytes.
LEMMA Unlink_Carries ==
    ASSUME NEW s, FilesOK(s), NEW f \in Elems(s.list)
    PROVE  Carried(s, Unlink(s, f))
  <1> DEFINE m == [s EXCEPT !.at[f].delete = TRUE, !.at[f].refs = @ + 1]
             u == Unlink(s, f)
  <1>1. /\ f \in FileIds /\ Elems(s.list) \subseteq FileIds /\ s.at[f].refs \in Nat
        /\ \A g \in FileIds \ {f} : u.at[g] = s.at[g]
        /\ s.at[f].refs = 0 => Elems(u.list) = Elems(s.list) \ {f} /\ u.at[f] = Freed
        /\ s.at[f].refs > 0 => u.list = s.list
    <2>1. f \in FileIds /\ Elems(s.list) \subseteq FileIds
      BY ElemsAreFiles
    <2>2. s.at[f].refs \in Nat
      BY <2>1 DEF FilesOK
    <2>3. /\ \A g \in FileIds \ {f} : u.at[g] = s.at[g]
          /\ s.at[f].refs = 0 => Elems(u.list) = Elems(s.list) \ {f} /\ u.at[f] = Freed
          /\ s.at[f].refs > 0 => u.list = s.list
      BY Unlink_Is
    <2> QED BY <2>1, <2>2, <2>3
  <1>2. ASSUME s.at[f].refs > 0 PROVE Alike(u.at[f], s.at[f])
    <2>1. m.at[f] = [s.at[f] EXCEPT !.delete = TRUE, !.refs = @ + 1] /\ DOMAIN m.at = FileIds
      BY <1>1 DEF FilesOK
    <2>2. Alike(m.at[f], s.at[f]) /\ m.at[f].refs = s.at[f].refs + 1 /\ DOMAIN m.at[f] = FileFields
      BY <1>1, <2>1 DEF Alike, FilesOK, FileFields
    <2>3. DOMAIN m = {"list", "at"}
      BY DEF FilesOK
    <2>4. u = close_file(m, f)
      BY DEF Unlink
    <2> HIDE DEF m, u
    <2>5. u = [m EXCEPT !.at[f].refs = @ - 1]
      BY <1>1, <1>2, <2>2, <2>4 DEF close_file, Dies
    <2>6. u.at[f] = [m.at[f] EXCEPT !.refs = @ - 1]
      BY <1>1, <2>1, <2>3, <2>5
    <2> QED BY <2>2, <2>6 DEF Alike, FileFields
  <1> HIDE DEF u
  <1> QED BY <1>1, <1>2 DEF Carried, Alike, u

-----------------------------------------------------------------------------
(* One lemma per call.                                                     *)

DataOK   == FilesData(fs) /\ SlotsData(file_descriptors)
Shapes == Sound(fs) /\ Within(fs, file_descriptors)

\* ufs_delete.
LEMMA DeleteData ==
    ASSUME Books, Books', DataOK, NEW filename, ufs_delete(filename)
    PROVE  DataOK' /\ (Shapes => Shapes')
  <1>1. FilesOK(fs) /\ RefsOK(fs', file_descriptors')
    BY ConsistentParts DEF Books
  <1>2. CASE Fail("delete", "NO_FILE")
    BY <1>2 DEF Fail, DataOK, Shapes
  <1>3. CASE /\ find_file(filename) # None /\ fs' = Unlink(fs, find_file(filename))
             /\ file_descriptors' = file_descriptors
    <2>1. PICK f \in Elems(fs.list) : f = find_file(filename)
      BY <1>1, <1>3, find_file_Is
    <2>2. Carried(fs, fs')
      BY <1>1, <1>3, <2>1, Unlink_Carries
    <2>3. \A i \in DOMAIN file_descriptors' : file_descriptors'[i].file \in Elems(fs'.list) \cup {None}
      BY <1>1 DEF RefsOK
    <2> QED BY <1>3, <2>2, <2>3, CarriedKeeps DEF DataOK, Shapes, Within
  <1> QED BY <1>2, <1>3 DEF ufs_delete

\* ufs_close: the slot keeps its position.
LEMMA CloseData ==
    ASSUME Books, Books', DataOK, NEW fd \in Int, ufs_close(fd)
    PROVE  DataOK' /\ (Shapes => Shapes')
  <1> DEFINE T == file_descriptors
  <1>1. FilesOK(fs) /\ RefsOK(fs, T) /\ RefsOK(fs', T') /\ TableOK(T)
    BY ConsistentParts DEF Books
  <1>2. CASE Fail("close", "NO_FILE") \/ Fail("close", "NO_PERMISSION")
    BY <1>2 DEF Fail, DataOK, Shapes
  <1>3. CASE ~is_valid_file(fd) /\ filedesc_make_free(fd)
    <2>1. /\ fd \in DOMAIN T /\ ~T[fd].is_free /\ T[fd].file \in FileIds /\ DOMAIN T[fd] = SlotFields
      BY <1>3, OpenDescriptor
    <2>2. PICK f \in Elems(fs.list) : f = T[fd].file
      BY <1>1, <2>1, FileAssumption DEF RefsOK
    <2>3. /\ fs' = close_file(fs, f)
          /\ T' = [T EXCEPT ![fd].file = None, ![fd].is_free = TRUE, ![fd].flag = {}]
      BY <1>3, <2>2 DEF filedesc_make_free
    <2>4. fs.at[f].refs > 0
      <3>1. fd \in OpenOn(T, f)
        BY <2>1, <2>2 DEF OpenOn
      <3>2. IsFiniteSet(OpenOn(T, f)) /\ Cardinality(OpenOn(T, f)) \in Nat
        BY <1>1, SlotsFinite
      <3>3. Cardinality(OpenOn(T, f)) # 0
        BY <3>1, <3>2, FS_EmptySet
      <3>4. fs.at[f].refs = Cardinality(OpenOn(T, f))
        BY <1>1, <2>1, <2>2 DEF RefsOK
      <3> QED BY <3>2, <3>3, <3>4
    <2>5. Carried(fs, fs')
      BY <1>1, <2>3, <2>4, close_file_Carries
    <2>6. /\ DOMAIN T' = DOMAIN T /\ \A i \in DOMAIN T \ {fd} : T'[i] = T[i]
          /\ T'[fd].file = None /\ T'[fd].flag = {} /\ T'[fd].pos = T[fd].pos
      BY <2>1, <2>3 DEF SlotFields
    <2>7. \A i \in DOMAIN T' : T'[i].file \in Elems(fs'.list) \cup {None}
      BY <1>1 DEF RefsOK
    <2> HIDE DEF T
    <2>8. FilesData(fs') /\ (Sound(fs) => Sound(fs'))
      BY <2>5, CarriedKeeps DEF DataOK
    <2>9. SlotsData(T')
      BY <2>1, <2>6 DEF DataOK, SlotsData, SlotOK, T
    <2>10. ASSUME Within(fs, T) PROVE Within(fs', T')
      <3> SUFFICES ASSUME NEW i \in DOMAIN T' PROVE SlotIn(fs', T'[i])
        BY DEF Within
      <3>1. SlotIn(fs, T[i])
        BY <2>6, <2>10 DEF Within
      <3>2. CASE i = fd
        BY <2>6, <3>1, <3>2 DEF SlotIn
      <3>3. CASE i # fd
        BY <2>5, <2>6, <2>7, <3>1, <3>3, CarriedKeeps DEF DataOK
      <3> QED BY <3>2, <3>3
    <2> QED BY <2>8, <2>9, <2>10 DEF DataOK, Shapes, T
  <1> QED BY <1>2, <1>3 DEF ufs_close, Checked

\* What ufs_read has read is bytes, at whatever position it begins.
LEMMA ReadTyped ==
    ASSUME NEW bl \in Seq(Block), NEW p \in Nat, NEW size \in Nat
    PROVE  ReadFrom(bl, p, size) \in Progress(size)
  <1>1. Len(Ahead(bl, p)) \in Nat
    BY AheadIs
  <1>2. PICK a \in [0..Len(Ahead(bl, p)) -> Progress(size)] :
                a[Len(Ahead(bl, p))] = ReadFrom(bl, p, size)
    BY ReadIs
  <1> QED BY <1>1, <1>2

\* ufs_read: the position stays inside the file.
LEMMA ReadData ==
    ASSUME Books, DataOK, NEW fd \in Int, NEW size \in Nat, ufs_read(fd, size)
    PROVE  DataOK' /\ (Shapes => Shapes')
  <1> DEFINE T == file_descriptors  d == T[fd]  bl == fs.at[d.file].blocks
             r == ReadFrom(bl, d.pos, size)
  <1>1. CASE Fail("read", "NO_FILE") \/ Fail("read", "NO_PERMISSION") \/ Crash("read")
    BY <1>1 DEF Fail, Crash, DataOK, Shapes
  <1>2. CASE ~is_valid_file(fd) /\ fs' = fs /\ T' = [T EXCEPT ![fd].pos = r.pos]
    <2>1. /\ fd \in DOMAIN T /\ d.file \in FileIds /\ DOMAIN d = SlotFields
      BY <1>2, OpenDescriptor
    <2>2. bl \in Seq(Block) /\ d.pos \in Nat /\ d.flag \in OpenFlags \cup {{}}
      BY <2>1 DEF DataOK, FilesData, SlotsData, StructOK, SlotOK
    <2>3. r.pos \in Nat
      <3>1. r \in Progress(size)
        <4> HIDE DEF bl, d
        <4> QED BY <2>2, ReadTyped
      <3> QED BY <3>1 DEF Progress
    <2>4. ASSUME Shapes PROVE r.pos <= Occ(bl) /\ Occ(bl) <= MAX_FILE_SIZE /\ Occ(bl) \in Nat
      <3>1. d.file \in Elems(fs.list) /\ d.file # None
        <4>1. RefsOK(fs, T)
          BY ConsistentParts DEF Books
        <4> QED BY <2>1, <4>1, FileAssumption DEF RefsOK
      <3>2. Shape(bl, Occ(bl)) /\ Occ(bl) <= MAX_FILE_SIZE /\ d.pos <= Occ(bl)
        BY <2>1, <2>4, <3>1 DEF Shapes, Sound, Within, SlotIn
      <3>3. Occ(bl) \in Nat
        BY <3>2 DEF Shape
      <3> HIDE DEF bl, d
      <3>4. r.pos = Less(Occ(bl), d.pos + size)
        BY <2>2, <3>2, ReadShape
      <3> QED BY <2>2, <3>2, <3>3, <3>4 DEF Less
    <2> HIDE DEF r
    <2>5. /\ DOMAIN T' = DOMAIN T /\ \A i \in DOMAIN T \ {fd} : T'[i] = T[i]
          /\ T'[fd].file = d.file /\ T'[fd].flag = d.flag /\ T'[fd].pos = r.pos
      BY <1>2, <2>1 DEF SlotFields
    <2> HIDE DEF T, bl
    <2>6. SlotsData(T')
      BY <2>2, <2>3, <2>5 DEF DataOK, SlotsData, SlotOK, T
    <2>7. ASSUME Shapes PROVE Within(fs, T')
      <3> SUFFICES ASSUME NEW i \in DOMAIN T' PROVE SlotIn(fs, T'[i])
        BY DEF Within
      <3>1. CASE i = fd
        <4>1. r.pos <= MAX_FILE_SIZE
          BY <2>3, <2>4, <2>7, BlockAssumption
        <4> QED BY <2>4, <2>5, <2>7, <3>1, <4>1 DEF SlotIn, bl
      <3>2. CASE i # fd
        BY <2>5, <2>7, <3>2 DEF Within, Shapes, T
      <3> QED BY <3>1, <3>2
    <2> QED BY <1>2, <2>6, <2>7 DEF DataOK, Shapes, T
  <1>3. \/ Fail("read", "NO_FILE") \/ Fail("read", "NO_PERMISSION") \/ Crash("read")
        \/ ~is_valid_file(fd) /\ fs' = fs /\ T' = [T EXCEPT ![fd].pos = r.pos]
    BY DEF ufs_read, Checked, DoRead
  <1> QED BY <1>1, <1>2, <1>3

\* Calls that change the blocks of a file and positions of descriptors.
LEMMA BlocksData ==
    ASSUME Books, DataOK, NEW f \in FileIds, NEW b \in Seq(Block),
           fs' = [fs EXCEPT !.at[f].blocks = b]
    PROVE  /\ FilesData(fs') /\ fs'.at[f].blocks = b /\ fs'.list = fs.list
           /\ \A g \in FileIds : g # f => fs'.at[g] = fs.at[g]
  <1>1. FilesOK(fs) /\ Elems(fs.list) \subseteq FileIds /\ FilesData(fs)
    BY ConsistentParts DEF Books, DataOK
  <1>2. /\ fs'.list = fs.list /\ fs'.at[f] = [fs.at[f] EXCEPT !.blocks = b]
        /\ \A g \in FileIds : g # f => fs'.at[g] = fs.at[g]
    BY <1>1 DEF FilesOK
  <1>3. fs'.at[f].blocks = b /\ fs'.at[f].name = fs.at[f].name
    BY <1>1, <1>2 DEF FilesOK, FileFields
  <1>4. FilesData(fs')
    <2> SUFFICES ASSUME NEW g \in FileIds PROVE StructOK(fs'.at[g])
      BY DEF FilesData
    <2>1. CASE g = f
      BY <1>1, <1>3, <2>1 DEF FilesData, StructOK
    <2>2. CASE g # f
      BY <1>1, <1>2, <2>2 DEF FilesData
    <2> QED BY <2>1, <2>2
  <1> QED BY <1>2, <1>3, <1>4

\* A file that got bigger keeps its shape, and no position falls behind its end.
LEMMA BlocksShape ==
    ASSUME Books, DataOK, NEW f \in FileIds, NEW b \in Seq(Block),
           fs' = [fs EXCEPT !.at[f].blocks = b],
           NEW E, Shape(b, E), E <= MAX_FILE_SIZE, Sound(fs), Occ(fs.at[f].blocks) <= E
    PROVE  /\ Sound(fs') /\ Occ(fs'.at[f].blocks) = E
           /\ \A d : d.file \in Elems(fs.list) \cup {None} /\ SlotIn(fs, d) /\ d.pos \in Nat
                     => SlotIn(fs', d)
  <1>1. Elems(fs.list) \subseteq FileIds
    BY ConsistentParts DEF Books
  <1>2. /\ fs'.at[f].blocks = b /\ fs'.list = fs.list
        /\ \A g \in FileIds : g # f => fs'.at[g] = fs.at[g]
    BY BlocksData
  <1>3. Occ(b) = E
    BY ShapeAddsUp
  <1>4. Sound(fs')
    <2> SUFFICES ASSUME NEW g \in Elems(fs'.list)
                 PROVE  /\ Shape(fs'.at[g].blocks, Occ(fs'.at[g].blocks))
                        /\ Occ(fs'.at[g].blocks) <= MAX_FILE_SIZE
      BY DEF Sound
    <2>0. g \in Elems(fs.list) /\ g \in FileIds
      BY <1>1, <1>2
    <2>1. CASE g = f
      BY <1>2, <1>3, <2>1
    <2>2. CASE g # f
      BY <1>2, <2>0, <2>2 DEF Sound
    <2> QED BY <2>1, <2>2
  <1>5. ASSUME NEW d, d.file \in Elems(fs.list) \cup {None}, SlotIn(fs, d), d.pos \in Nat
        PROVE  SlotIn(fs', d)
    <2>1. CASE d.file = f /\ f # None
      <3>1. f \in Elems(fs.list)
        BY <1>5, <2>1
      <3>2. Occ(fs.at[f].blocks) \in Nat /\ E \in Nat
        BY <3>1 DEF Sound, Shape
      <3>3. d.pos <= Occ(fs.at[f].blocks)
        BY <1>5, <2>1 DEF SlotIn
      <3>4. d.pos <= E
        BY <1>5, <3>2, <3>3
      <3> QED BY <1>2, <1>3, <1>5, <2>1, <3>4 DEF SlotIn
    <2>2. CASE d.file # f \/ f = None
      BY <1>1, <1>2, <1>5, <2>2, FileAssumption DEF SlotIn
    <2> QED BY <2>1, <2>2
  <1> QED BY <1>2, <1>3, <1>4, <1>5

\* ufs_write.
LEMMA WriteData ==
    ASSUME Books, DataOK, NEW fd \in Int, NEW buf \in Seq(Bytes), ufs_write(fd, buf)
    PROVE  DataOK' /\ (Shapes => Shapes')
  <1> DEFINE T == file_descriptors  d == T[fd]  f == d.file  bl == fs.at[f].blocks
             b == Written(bl, d.pos, buf)
  <1>1. CASE Fail("write", "NO_FILE") \/ Fail("write", "NO_PERMISSION")
             \/ Fail("write", "NO_MEM") \/ Crash("write")
    BY <1>1 DEF Fail, Crash, DataOK, Shapes
  <1>2. CASE /\ ~is_valid_file(fd) /\ d.pos + Len(buf) <= MAX_FILE_SIZE
             /\ fs' = [fs EXCEPT !.at[f].blocks = b]
             /\ T' = [T EXCEPT ![fd].pos = @ + Len(buf)]
    <2>1. fd \in DOMAIN T /\ f \in FileIds /\ DOMAIN d = SlotFields
      BY <1>2, OpenDescriptor
    <2>2. /\ bl \in Seq(Block) /\ d.pos \in Nat /\ d.flag \in OpenFlags \cup {{}} /\ Len(buf) \in Nat
      BY <2>1, LenProperties DEF DataOK, FilesData, SlotsData, StructOK, SlotOK
    <2>3. b \in Seq(Block)
      <3> HIDE DEF bl, d
      <3> QED BY <2>2, WrittenBlocks
    <2>4. /\ DOMAIN T' = DOMAIN T /\ \A i \in DOMAIN T \ {fd} : T'[i] = T[i]
          /\ T'[fd].file = f /\ T'[fd].flag = d.flag /\ T'[fd].pos = d.pos + Len(buf)
      BY <1>2, <2>1 DEF SlotFields
    <2>5. FilesData(fs') /\ fs'.list = fs.list
      <3> HIDE DEF b, f
      <3> QED BY <1>2, <2>1, <2>3, BlocksData
    <2>6. SlotsData(T')
      <3> HIDE DEF T, d
      <3> SUFFICES ASSUME NEW i \in DOMAIN T' PROVE SlotOK(T'[i])
        BY DEF SlotsData
      <3>1. CASE i = fd
        BY <2>2, <2>4, <3>1 DEF SlotOK
      <3>2. CASE i # fd
        BY <2>4, <3>2 DEF DataOK, SlotsData, T
      <3> QED BY <3>1, <3>2
    <2>7. ASSUME Shapes PROVE Sound(fs') /\ Within(fs', T')
      <3> DEFINE E == Occ(bl)  F == More(E, d.pos + Len(buf))
      <3>1. RefsOK(fs, T) /\ f \in Elems(fs.list) /\ f # None
        <4>1. RefsOK(fs, T)
          BY ConsistentParts DEF Books
        <4> QED BY <2>1, <4>1, FileAssumption DEF RefsOK
      <3>2. Shape(bl, E) /\ E <= MAX_FILE_SIZE /\ d.pos <= E
        BY <2>1, <2>7, <3>1 DEF Shapes, Sound, Within, SlotIn
      <3>3. E \in Nat
        BY <3>2 DEF Shape
      <3>4. F <= MAX_FILE_SIZE /\ E <= F /\ d.pos + Len(buf) <= F /\ F \in Nat
        <4> HIDE DEF E
        <4> QED BY <1>2, <2>2, <3>2, <3>3 DEF More
      <3>5. Shape(b, F)
        <4> HIDE DEF E, bl, d
        <4> QED BY <2>2, <3>2, WrittenIs
      <3>6. /\ Sound(fs') /\ Occ(fs'.at[f].blocks) = F
            /\ \A e : e.file \in Elems(fs.list) \cup {None} /\ SlotIn(fs, e) /\ e.pos \in Nat
                      => SlotIn(fs', e)
        <4>1. Sound(fs) /\ Occ(fs.at[f].blocks) <= F
          BY <2>7, <3>4 DEF Shapes
        <4> HIDE DEF F, b, f
        <4> QED BY <1>2, <2>1, <2>3, <3>4, <3>5, <4>1, BlocksShape
      <3>7. Within(fs', T')
        <4> SUFFICES ASSUME NEW i \in DOMAIN T' PROVE SlotIn(fs', T'[i])
          BY DEF Within
        <4>1. CASE i = fd
          <5> HIDE DEF F
          <5> QED BY <1>2, <2>4, <3>4, <3>6, <4>1 DEF SlotIn
        <4>2. CASE i # fd
          <5>1. T'[i] = T[i] /\ i \in DOMAIN T
            BY <2>4, <4>2
          <5>2. T[i].file \in Elems(fs.list) \cup {None} /\ SlotIn(fs, T[i]) /\ T[i].pos \in Nat
            BY <2>7, <3>1, <5>1 DEF RefsOK, Shapes, Within, DataOK, SlotsData, SlotOK
          <5> HIDE DEF T, F, b, f
          <5> QED BY <3>6, <5>1, <5>2
        <4> QED BY <4>1, <4>2
      <3> QED BY <3>6, <3>7
    <2> QED BY <2>5, <2>6, <2>7 DEF DataOK, Shapes
  <1>3. \/ Fail("write", "NO_FILE") \/ Fail("write", "NO_PERMISSION")
        \/ Fail("write", "NO_MEM") \/ Crash("write")
        \/ /\ ~is_valid_file(fd) /\ ~TooLong(d.pos, Len(buf))
           /\ fs' = [fs EXCEPT !.at[f].blocks = b]
           /\ T' = [T EXCEPT ![fd].pos = @ + Len(buf)]
    BY DEF ufs_write, Checked, DoWrite
  <1>4. ~is_valid_file(fd) /\ ~TooLong(d.pos, Len(buf)) => d.pos + Len(buf) <= MAX_FILE_SIZE
    <2>1. ~is_valid_file(fd) => d.pos \in Nat /\ Len(buf) \in Nat
      BY OpenDescriptor, LenProperties DEF DataOK, SlotsData, SlotOK
    <2> HIDE DEF d
    <2> QED BY <2>1, BlockAssumption DEF TooLong
  <1> QED BY <1>1, <1>2, <1>3, <1>4

\* What a successful ufs_resize does: to the blocks of the file, and to the
\* positions of the descriptors it reaches.
ResizesTo(fd, size) ==
    /\ ~is_valid_file(fd) /\ size > 0 /\ size <= MAX_FILE_SIZE
    /\ fs' = [fs EXCEPT !.at[file_descriptors[fd].file].blocks = Resized(@, size)]
    /\ file_descriptors' = Clamped(file_descriptors[fd], size)

\* ufs_resize changes nothing and returns -1, or sets the size.
LEMMA ResizeCases ==
    ASSUME NEW fd \in Int, NEW size \in Nat, ufs_resize(fd, size)
    PROVE  \/ UNCHANGED <<fs, file_descriptors, file_descriptor_count>> /\ last'.ret = -1
           \/ ResizesTo(fd, size) /\ UNCHANGED file_descriptor_count
  <1>1. \/ Fail("resize", "NO_FILE") \/ Fail("resize", "NO_PERMISSION")
        \/ Fail("resize", "NO_MEM") \/ Crash("resize")
        \/ /\ ~is_valid_file(fd) /\ ~TooLong(0, size) /\ size > 0
           /\ fs' = [fs EXCEPT !.at[file_descriptors[fd].file].blocks = Resized(@, size)]
           /\ file_descriptors' = Clamped(file_descriptors[fd], size)
           /\ UNCHANGED file_descriptor_count
    BY DEF ufs_resize, Checked, DoResize
  <1>2. ~TooLong(0, size) => size <= MAX_FILE_SIZE
    BY BlockAssumption DEF TooLong
  <1> QED BY <1>1, <1>2 DEF Fail, Crash, ResizesTo, Return

\* No position gets bigger; those the loop reaches on the file end within it.
LEMMA ClampedIs ==
    ASSUME Books, DataOK, NEW fd \in Int, NEW size \in Nat, ResizesTo(fd, size)
    PROVE  LET T == file_descriptors
           IN  /\ DOMAIN T' = DOMAIN T
               /\ \A i \in DOMAIN T :
                     /\ T'[i].file = T[i].file /\ T'[i].flag = T[i].flag
                     /\ T'[i].pos \in Nat /\ T'[i].pos <= T[i].pos
                     /\ i < file_descriptor_count /\ T[i].file = T[fd].file => T'[i].pos <= size
  <1> DEFINE T == file_descriptors
  <1>1. /\ fd \in DOMAIN T /\ T[fd].file \in FileIds
        /\ \A i \in DOMAIN T : DOMAIN T[i] = SlotFields /\ T[i].pos \in Nat
    BY OpenDescriptor DEF ResizesTo, DataOK, SlotsData, SlotOK
  <1>2. DOMAIN T' = DOMAIN T
    BY DEF ResizesTo, Clamped
  <1>3. ASSUME NEW i \in DOMAIN T
        PROVE  /\ T'[i].file = T[i].file /\ T'[i].flag = T[i].flag
               /\ T'[i].pos \in Nat /\ T'[i].pos <= T[i].pos
               /\ i < file_descriptor_count /\ T[i].file = T[fd].file => T'[i].pos <= size
    <2>1. T'[i] = IF Reached(i) /\ T[i].file # None /\ fs.at[T[i].file].name = fs.at[T[fd].file].name
                  THEN [T[i] EXCEPT !.pos = Min({@, size})] ELSE T[i]
      BY <1>3 DEF ResizesTo, Clamped
    <2>2. Min({T[i].pos, size}) = Less(T[i].pos, size)
      <3>1. T[i].pos \in Int /\ size \in Int
        BY <1>1
      <3> QED BY <3>1, MinMaxIs
    <2>3. /\ Less(T[i].pos, size) \in Nat /\ Less(T[i].pos, size) <= T[i].pos
          /\ Less(T[i].pos, size) <= size /\ T[i].pos <= T[i].pos
      BY <1>1 DEF Less
    <2>4. DOMAIN T[i] = SlotFields /\ T[i].pos \in Nat
      BY <1>1
    <2>5. CASE T'[i] = T[i] /\ ~(i < file_descriptor_count /\ T[i].file = T[fd].file)
      BY <2>3, <2>4, <2>5
    <2>6. CASE T'[i] = [T[i] EXCEPT !.pos = Less(T[i].pos, size)]
      BY <2>3, <2>4, <2>6 DEF SlotFields
    <2> QED BY <1>1, <2>1, <2>2, <2>5, <2>6, FileAssumption DEF Reached
  <1> QED BY <1>2, <1>3

\* ufs_resize by callers that only make files bigger.
LEMMA ResizeData ==
    ASSUME Books, DataOK, NEW fd \in Int, NEW size \in Nat, ufs_resize(fd, size), MayResize(fd, size)
    PROVE  DataOK' /\ (Shapes /\ GrowOnly => Shapes')
  <1> DEFINE T == file_descriptors  f == T[fd].file  bl == fs.at[f].blocks  b == Resized(bl, size)
  <1>1. CASE UNCHANGED <<fs, file_descriptors, file_descriptor_count>>
    BY <1>1 DEF DataOK, Shapes
  <1>2. CASE ResizesTo(fd, size)
    <2>1. fd \in DOMAIN T /\ f \in FileIds /\ bl \in Seq(Block)
      BY <1>2, OpenDescriptor DEF ResizesTo, DataOK, FilesData, StructOK
    <2>2. size \in Nat \ {0} /\ size <= MAX_FILE_SIZE /\ fs' = [fs EXCEPT !.at[f].blocks = b]
      BY <1>2 DEF ResizesTo
    <2>3. b \in Seq(Block) /\ Shape(b, size)
      <3> HIDE DEF bl
      <3> QED BY <2>1, <2>2, ResizedIs
    <2>4. /\ DOMAIN T' = DOMAIN T
          /\ \A i \in DOMAIN T : /\ T'[i].file = T[i].file /\ T'[i].flag = T[i].flag
                                 /\ T'[i].pos \in Nat /\ T'[i].pos <= T[i].pos
      BY <1>2, ClampedIs
    <2>5. FilesData(fs') /\ fs'.list = fs.list
      <3> HIDE DEF b, f
      <3> QED BY <2>1, <2>2, <2>3, BlocksData
    <2>6. SlotsData(T')
      BY <2>4 DEF DataOK, SlotsData, SlotOK
    <2>7. ASSUME Shapes, GrowOnly PROVE Sound(fs') /\ Within(fs', T')
      <3>1. RefsOK(fs, T) /\ f \in Elems(fs.list)
        <4>1. RefsOK(fs, T)
          BY ConsistentParts DEF Books
        <4> QED BY <2>1, <4>1, FileAssumption DEF RefsOK
      <3>2. Occ(bl) \in Nat /\ Sound(fs)
        BY <2>7, <3>1 DEF Shapes, Sound, Shape
      <3>3. Occ(bl) <= size
        <4>1. f \in Listed /\ Size(f) = Occ(bl)
          BY <3>1 DEF Listed, Elems, Size, Occ
        <4>2. size >= Max({Occ(bl), 1})
          BY <1>2, <2>7, <4>1 DEF MayResize, ResizesTo
        <4> HIDE DEF bl
        <4>3. Max({Occ(bl), 1}) = More(Occ(bl), 1)
          <5>1. Occ(bl) \in Int /\ 1 \in Int
            BY <3>2
          <5> QED BY <5>1, MinMaxIs
        <4> QED BY <3>2, <4>2, <4>3 DEF More
      <3>4. /\ Sound(fs')
            /\ \A e : e.file \in Elems(fs.list) \cup {None} /\ SlotIn(fs, e) /\ e.pos \in Nat
                      => SlotIn(fs', e)
        <4> HIDE DEF b, f
        <4> QED BY <2>1, <2>2, <2>3, <3>2, <3>3, BlocksShape
      <3>5. Within(fs', T')
        <4> SUFFICES ASSUME NEW i \in DOMAIN T PROVE SlotIn(fs', T'[i])
          BY <2>4 DEF Within
        <4>1. /\ T[i].file \in Elems(fs.list) \cup {None} /\ SlotIn(fs, T[i]) /\ T[i].pos \in Nat
          BY <2>7, <3>1 DEF RefsOK, Shapes, Within, DataOK, SlotsData, SlotOK
        <4>2. SlotIn(fs', T[i])
          <5> HIDE DEF T, f, b
          <5> QED BY <3>4, <4>1
        <4>3. /\ T'[i].pos \in Nat /\ T'[i].pos <= T[i].pos /\ T'[i].file = T[i].file
          BY <2>4
        <4>4. T[i].file # None => Occ(fs'.at[T[i].file].blocks) \in Nat
          <5>1. T[i].file # None => T[i].file \in Elems(fs'.list)
            BY <2>5, <4>1
          <5> HIDE DEF T
          <5> QED BY <3>4, <5>1 DEF Sound, Shape
        <4> HIDE DEF T
        <4> QED BY <4>1, <4>2, <4>3, <4>4, BlockAssumption DEF SlotIn
      <3> QED BY <3>4, <3>5
    <2> QED BY <2>5, <2>6, <2>7 DEF DataOK, Shapes
  <1> QED BY <1>1, <1>2, ResizeCases

\* find_free_fd hands out an empty descriptor, and grows the table only when it has to.
LEMMA find_free_fd_Data ==
    ASSUME Books, DataOK
    PROVE  LET T == file_descriptors  t == find_free_fd.table  k == find_free_fd.fd
           IN  /\ k \in DOMAIN t /\ DOMAIN t[k] = SlotFields
               /\ \A i \in DOMAIN t : i # k => i \in DOMAIN T /\ t[i] = T[i]
               /\ t[k].pos \in Nat /\ t[k].flag \in OpenFlags \cup {{}} /\ t[k].file = None
               /\ Within(fs, T) => t[k].pos <= MAX_FILE_SIZE
               /\ FreeSlots # {} => DOMAIN t = DOMAIN T
               /\ FreeSlots = {} => Cardinality(DOMAIN t) = Cardinality(DOMAIN T) + 1
  <1> DEFINE T == file_descriptors  t == find_free_fd.table  k == find_free_fd.fd
             cap == Cardinality(DOMAIN T)
  <1>1. /\ TableOK(T) /\ CountOK(T, file_descriptor_count) /\ cap \in Nat /\ DOMAIN T = 0..(cap - 1)
        /\ FreeSlots = FreeIn(T) /\ IsFiniteSet(FreeSlots) /\ Cardinality(FreeSlots) \in Nat
    <2>1. TableOK(T) /\ CountOK(T, file_descriptor_count)
      BY ConsistentParts DEF Books
    <2>2. FreeSlots = FreeIn(T)
      BY DEF FreeSlots, FreeIn
    <2> QED BY <2>1, <2>2, SlotsFinite DEF TableOK
  <1>2. TakesSlot(T, t, k, None)
    BY <1>1, find_free_fd_Is
  <1>3. \/ file_descriptor_count < cap /\ FreeSlots # {} /\ k = Min(FreeSlots) /\ t = Taken(k)
        \/ /\ ~(file_descriptor_count < cap /\ FreeSlots # {})
           /\ k = file_descriptor_count
           /\ t = [i \in 0..cap |-> IF i = k THEN NewSlot ELSE T[i]]
    BY DEF find_free_fd, file_descriptor_capacity
  <1> HIDE DEF t, k
  <1>4. CASE file_descriptor_count < cap /\ FreeSlots # {} /\ k = Min(FreeSlots) /\ t = Taken(k)
    <2>1. k \in FreeSlots /\ k \in DOMAIN T
      <3>1. FreeSlots \subseteq Nat /\ FreeSlots \subseteq DOMAIN T
        BY <1>1 DEF FreeSlots
      <3> QED BY <1>4, <3>1, MinLeast
    <2>2. DOMAIN t = DOMAIN T /\ t[k] = [T[k] EXCEPT !.is_free = FALSE]
      BY <1>4, <2>1 DEF Taken
    <2>3. DOMAIN T[k] = SlotFields /\ T[k].pos \in Nat /\ T[k].flag \in OpenFlags \cup {{}}
      BY <1>1, <2>1 DEF TableOK, DataOK, SlotsData, SlotOK
    <2>4. t[k].pos = T[k].pos /\ t[k].flag = T[k].flag
      BY <2>2, <2>3 DEF SlotFields
    <2>5. Within(fs, T) => T[k].pos <= MAX_FILE_SIZE
      BY <2>1 DEF Within, SlotIn
    <2> HIDE DEF T
    <2> QED BY <1>2, <2>1, <2>2, <2>3, <2>4, <2>5 DEF TakesSlot, t, k, T
  <1>5. CASE /\ ~(file_descriptor_count < cap /\ FreeSlots # {})
             /\ k = file_descriptor_count
             /\ t = [i \in 0..cap |-> IF i = k THEN NewSlot ELSE T[i]]
    <2>1. FreeSlots = {} /\ k = cap
      <3>1. file_descriptor_count \in Int /\ file_descriptor_count + Cardinality(FreeSlots) = cap
        BY <1>1 DEF CountOK
      <3>2. Cardinality(FreeSlots) = 0
        BY <1>1, <1>5, <3>1, FS_EmptySet
      <3> QED BY <1>1, <1>5, <3>1, <3>2, FS_EmptySet
    <2>2. NewSlot.pos = 0 /\ NewSlot.flag = {} /\ NewSlot.file = None
      BY DEF NewSlot
    <2> HIDE DEF NewSlot, cap
    <2>3. /\ k \in DOMAIN t /\ t[k] = NewSlot /\ DOMAIN t = 0..cap
          /\ \A i \in DOMAIN t : i # k => i \in DOMAIN T /\ t[i] = T[i]
      BY <1>1, <1>5, <2>1
    <2>4. Cardinality(DOMAIN t) = cap + 1
      BY <1>1, <2>3, FS_Interval
    <2> USE DEF cap
    <2> QED BY <1>1, <1>2, <2>1, <2>2, <2>3, <2>4, BlockAssumption, FdAssumption DEF TakesSlot, t, k
  <1> QED BY <1>3, <1>4, <1>5

\* Setting up descriptor k of the table: at the start of file f, or for no file.
AtStart(t, k, flags, f) == [t EXCEPT ![k].flag = flags, ![k].file = f, ![k].pos = 0]
OnFile(t, k, flags, f)  == [t EXCEPT ![k].flag = flags, ![k].file = f]

\* What ufs_open stores in the slot it took.
LEMMA SlotData ==
    ASSUME NEW t, NEW k \in DOMAIN t, DOMAIN t[k] = SlotFields, NEW f, NEW flags
    PROVE  /\ LET u == AtStart(t, k, flags, f)
              IN  /\ DOMAIN u = DOMAIN t /\ \A i \in DOMAIN t : i # k => u[i] = t[i]
                  /\ u[k].flag = flags /\ u[k].file = f /\ u[k].pos = 0
           /\ LET u == OnFile(t, k, flags, f)
              IN  /\ DOMAIN u = DOMAIN t /\ \A i \in DOMAIN t : i # k => u[i] = t[i]
                  /\ u[k].flag = flags /\ u[k].file = f /\ u[k].pos = t[k].pos
  BY DEF SlotFields, AtStart, OnFile

\* ufs_open.
LEMMA OpenData ==
    ASSUME Books, Books', DataOK, NEW filename \in Names, NEW flags \in OpenFlags,
           ufs_open(filename, flags)
    PROVE  DataOK' /\ (Shapes => Shapes')
  <1> DEFINE T == file_descriptors  t == find_free_fd.table  k == find_free_fd.fd
  <1>1. FilesOK(fs) /\ Elems(fs.list) \subseteq FileIds /\ RefsOK(fs', T') /\ RefsOK(fs, T)
    BY ConsistentParts DEF Books
  <1>2. /\ k \in DOMAIN t /\ DOMAIN t[k] = SlotFields
        /\ \A i \in DOMAIN t : i # k => i \in DOMAIN T /\ t[i] = T[i]
        /\ t[k].pos \in Nat
        /\ Within(fs, T) => t[k].pos <= MAX_FILE_SIZE
    BY find_free_fd_Data
  <1>3. \/ find_file(filename) = None
        \/ find_file(filename) \in Elems(fs.list) /\ find_file(filename) # None
    BY <1>1, find_file_Is
  <1> HIDE DEF t, k
  <1>4. ASSUME NEW f, T' = AtStart(t, k, flags, f) \/ T' = OnFile(t, k, flags, f)
        PROVE  /\ \A i \in DOMAIN T' : i # k => i \in DOMAIN T /\ T'[i] = T[i]
               /\ k \in DOMAIN T' /\ T'[k].file = f /\ SlotsData(T') /\ T'[k].pos \in {0, t[k].pos}
               /\ T' = AtStart(t, k, flags, f) => T'[k].pos = 0
    <2>1. k \in DOMAIN t /\ DOMAIN t[k] = SlotFields
      BY <1>2
    <2>2. /\ LET u == AtStart(t, k, flags, f)
             IN  /\ DOMAIN u = DOMAIN t /\ \A i \in DOMAIN t : i # k => u[i] = t[i]
                 /\ u[k].flag = flags /\ u[k].file = f /\ u[k].pos = 0
          /\ LET u == OnFile(t, k, flags, f)
             IN  /\ DOMAIN u = DOMAIN t /\ \A i \in DOMAIN t : i # k => u[i] = t[i]
                 /\ u[k].flag = flags /\ u[k].file = f /\ u[k].pos = t[k].pos
      BY <2>1, SlotData
    <2>3. /\ DOMAIN T' = DOMAIN t /\ \A i \in DOMAIN t : i # k => T'[i] = t[i]
          /\ T'[k].flag = flags /\ T'[k].file = f /\ T'[k].pos \in {0, t[k].pos}
          /\ T' = AtStart(t, k, flags, f) => T'[k].pos = 0
      BY <1>4, <2>2
    <2> HIDE DEF T
    <2>4. SlotsData(T')
      <3> SUFFICES ASSUME NEW i \in DOMAIN T' PROVE SlotOK(T'[i])
        BY DEF SlotsData
      <3>1. CASE i = k
        BY <1>2, <2>3, <3>1 DEF SlotOK
      <3>2. CASE i # k
        BY <1>2, <2>3, <3>2 DEF DataOK, SlotsData, T
      <3> QED BY <3>1, <3>2
    <2> QED BY <1>2, <2>3, <2>4
  <1>5. CASE OpenCreate(k, t, filename, flags)
    <2> DEFINE s == IF find_file(filename) = None THEN fs ELSE Unlink(fs, find_file(filename))
    <2>1. PICK f \in FileIds :
            /\ ~\E i \in 1..Len(s.list) : s.list[i] = f
            /\ fs' = create_file(s, f, filename)
            /\ T' = AtStart(t, k, flags, f)
      BY <1>5 DEF OpenCreate, AtStart
    <2>2. FilesOK(s) /\ Carried(fs, s) /\ RefsOK(s, T)
      <3>1. CASE find_file(filename) = None
        BY <1>1, <3>1 DEF Carried, Alike
      <3>2. CASE find_file(filename) # None
        <4>1. PICK f0 \in Elems(fs.list) : f0 = find_file(filename)
          BY <1>3, <3>2
        <4>2. s = Unlink(fs, f0)
          BY <3>2, <4>1
        <4>3. Consistent(Unlink(fs, f0), T, file_descriptor_count)
          BY UnlinkKeeps DEF Books
        <4>4. RefsOK(Unlink(fs, f0), T)
          BY <4>3, ConsistentParts
        <4> HIDE DEF s
        <4> QED BY <1>1, <4>1, <4>2, <4>4, Unlink_Is, Unlink_Carries
      <3> QED BY <3>1, <3>2
    <2> HIDE DEF s
    <2>3. f \notin Elems(s.list) /\ f # None
      BY <2>1, FileAssumption DEF Elems
    <2>4. /\ Elems(fs'.list) = Elems(s.list) \cup {f}
          /\ \A g \in FileIds \ {f} : fs'.at[g] = s.at[g]
          /\ fs'.at[f].name = filename
      BY <2>1, <2>2, <2>3, create_file_Is
    <2>5. fs'.at[f].blocks = <<>>
      BY <2>1, <2>2 DEF create_file, FilesOK
    <2>6. FilesData(s) /\ (Sound(fs) => Sound(s)) /\ Elems(s.list) \subseteq FileIds
      BY <2>2, CarriedKeeps, ElemsAreFiles DEF DataOK
    <2>7. FilesData(fs')
      <3> SUFFICES ASSUME NEW g \in FileIds PROVE StructOK(fs'.at[g])
        BY DEF FilesData
      <3>1. CASE g = f
        BY <2>4, <2>5, <3>1, NoBlocks DEF StructOK
      <3>2. CASE g # f
        BY <2>4, <2>6, <3>2 DEF FilesData
      <3> QED BY <3>1, <3>2
    <2>8. Sound(fs) => Sound(fs')
      <3>0. 0 <= MAX_FILE_SIZE
        BY BlockAssumption
      <3> SUFFICES ASSUME Sound(s), NEW g \in Elems(fs'.list)
                   PROVE  /\ Shape(fs'.at[g].blocks, Occ(fs'.at[g].blocks))
                        /\ Occ(fs'.at[g].blocks) <= MAX_FILE_SIZE
        BY <2>6 DEF Sound
      <3>1. CASE g = f
        BY <2>5, <3>0, <3>1, NoBlocks
      <3>2. CASE g # f
        BY <2>4, <2>6, <3>2 DEF Sound
      <3> QED BY <3>1, <3>2
    <2>9. /\ \A i \in DOMAIN T' : i # k => i \in DOMAIN T /\ T'[i] = T[i]
          /\ k \in DOMAIN T' /\ T'[k].file = f /\ SlotsData(T') /\ T'[k].pos = 0
      BY <1>4, <2>1
    <2>10. ASSUME Within(fs, T) PROVE Within(fs', T')
      <3> SUFFICES ASSUME NEW i \in DOMAIN T' PROVE SlotIn(fs', T'[i])
        BY DEF Within
      <3>1. CASE i = k
        <4>1. 0 <= MAX_FILE_SIZE /\ 0 <= 0
          BY BlockAssumption
        <4> QED BY <2>5, <2>9, <3>1, <4>1, NoBlocks DEF SlotIn
      <3>2. CASE i # k
        <4>1. i \in DOMAIN T /\ T'[i] = T[i] /\ SlotIn(fs, T[i])
          BY <2>9, <2>10, <3>2 DEF Within
        <4>2. T[i].file \in Elems(s.list) \cup {None}
          BY <2>2, <4>1 DEF RefsOK
        <4>3. SlotIn(s, T[i])
          <5> HIDE DEF T
          <5> QED BY <2>2, <4>1, <4>2, CarriedKeeps DEF DataOK
        <4> QED BY <2>3, <2>4, <2>6, <4>1, <4>2, <4>3 DEF SlotIn
      <3> QED BY <3>1, <3>2
    <2> QED BY <2>7, <2>8, <2>9, <2>10 DEF DataOK, Shapes
  <1>6. CASE OpenExisting(k, t, filename, flags) /\ find_file(filename) # None
    <2>1. PICK f \in Elems(fs.list) : f = find_file(filename)
      BY <1>3, <1>6
    <2>2. /\ fs' = [fs EXCEPT !.at[f].refs = @ + 1]
          /\ T' = AtStart(t, k, flags, f)
      BY <1>6, <2>1 DEF OpenExisting, AtStart
    <2>3. /\ fs'.list = fs.list /\ fs'.at[f] = [fs.at[f] EXCEPT !.refs = @ + 1]
          /\ \A g \in FileIds \ {f} : fs'.at[g] = fs.at[g]
      BY <1>1, <2>1, <2>2 DEF FilesOK
    <2>4. Alike(fs'.at[f], fs.at[f])
      BY <1>1, <2>1, <2>3 DEF Alike, FilesOK, FileFields
    <2>5. Carried(fs, fs')
      BY <1>1, <2>3, <2>4 DEF Carried, Alike
    <2>6. FilesData(fs') /\ (Sound(fs) => Sound(fs'))
      BY <2>5, CarriedKeeps DEF DataOK
    <2>7. /\ \A i \in DOMAIN T' : i # k => i \in DOMAIN T /\ T'[i] = T[i]
          /\ k \in DOMAIN T' /\ T'[k].file = f /\ SlotsData(T') /\ T'[k].pos = 0
      BY <1>4, <2>2
    <2>8. ASSUME Within(fs, T), Sound(fs) PROVE Within(fs', T')
      <3> SUFFICES ASSUME NEW i \in DOMAIN T' PROVE SlotIn(fs', T'[i])
        BY DEF Within
      <3>1. CASE i = k
        <4>1. f \in Elems(fs'.list) /\ Occ(fs'.at[f].blocks) \in Nat
          BY <2>3, <2>6, <2>8 DEF Sound, Shape
        <4>2. 0 <= Occ(fs'.at[f].blocks) /\ 0 <= MAX_FILE_SIZE
          BY <4>1, BlockAssumption
        <4> QED BY <2>7, <3>1, <4>2 DEF SlotIn
      <3>2. CASE i # k
        <4>1. i \in DOMAIN T /\ T'[i] = T[i] /\ SlotIn(fs, T[i])
          BY <2>7, <2>8, <3>2 DEF Within
        <4>2. T'[i].file \in Elems(fs'.list) \cup {None}
          BY <1>1 DEF RefsOK
        <4> HIDE DEF T
        <4> QED BY <2>5, <4>1, <4>2, CarriedKeeps DEF DataOK
      <3> QED BY <3>1, <3>2
    <2> QED BY <2>6, <2>7, <2>8 DEF DataOK, Shapes
  <1>7. CASE OpenExisting(k, t, filename, flags) /\ find_file(filename) = None
    <2>1. /\ fs' = fs
          /\ T' = OnFile(t, k, flags, None)
      BY <1>7 DEF OpenExisting, OnFile
    <2>2. /\ \A i \in DOMAIN T' : i # k => i \in DOMAIN T /\ T'[i] = T[i]
          /\ k \in DOMAIN T' /\ T'[k].file = None /\ SlotsData(T') /\ T'[k].pos \in {0, t[k].pos}
      BY <1>4, <2>1
    <2>3. ASSUME Within(fs, T) PROVE Within(fs', T')
      <3> SUFFICES ASSUME NEW i \in DOMAIN T' PROVE SlotIn(fs, T'[i])
        BY <2>1 DEF Within
      <3>1. CASE i = k
        <4>1. T'[k].pos <= MAX_FILE_SIZE
          BY <1>2, <2>2, <2>3, BlockAssumption
        <4> QED BY <2>2, <3>1, <4>1 DEF SlotIn
      <3>2. CASE i # k
        BY <2>2, <2>3, <3>2 DEF Within
      <3> QED BY <3>1, <3>2
    <2> QED BY <2>1, <2>2, <2>3 DEF DataOK, Shapes
  <1> QED BY <1>5, <1>6, <1>7 DEF ufs_open, t, k

\* Every slot is a struct filedesc, in every call.
IsSlot(d)   == d = [file |-> d.file, pos |-> d.pos, is_free |-> d.is_free, flag |-> d.flag]
SlotsAre(t) == \A i \in DOMAIN t : IsSlot(t[i])

\* Every store to a slot leaves a slot with the same four fields.
LEMMA SlotChanges ==
    ASSUME NEW d, IsSlot(d), NEW e, NEW x, NEW y,
           \/ e = [d EXCEPT !.pos = x]
           \/ e = [d EXCEPT !.is_free = FALSE]
           \/ e = [d EXCEPT !.file = None, !.is_free = TRUE, !.flag = {}]
           \/ e = [d EXCEPT !.flag = x, !.file = y]
           \/ e = [d EXCEPT !.flag = x, !.file = y, !.pos = 0]
    PROVE  IsSlot(e)
  <1> DEFINE New(a, b, c, f) == [file |-> a, pos |-> b, is_free |-> c, flag |-> f]
  <1>1. \A a, b, c, f : IsSlot(New(a, b, c, f))
    BY DEF IsSlot
  <1>2. d = New(d.file, d.pos, d.is_free, d.flag)
    BY DEF IsSlot
  <1>3. CASE e = [d EXCEPT !.pos = x]
    <2>1. e = New(d.file, x, d.is_free, d.flag)
      BY <1>2, <1>3
    <2> HIDE DEF New
    <2> QED BY <1>1, <2>1
  <1>4. CASE e = [d EXCEPT !.is_free = FALSE]
    <2>1. e = New(d.file, d.pos, FALSE, d.flag)
      BY <1>2, <1>4
    <2> HIDE DEF New
    <2> QED BY <1>1, <2>1
  <1>5. CASE e = [d EXCEPT !.file = None, !.is_free = TRUE, !.flag = {}]
    <2>1. e = New(None, d.pos, TRUE, {})
      BY <1>2, <1>5
    <2> HIDE DEF New
    <2> QED BY <1>1, <2>1
  <1>6. CASE e = [d EXCEPT !.flag = x, !.file = y]
    <2>1. e = New(y, d.pos, d.is_free, x)
      BY <1>2, <1>6
    <2> HIDE DEF New
    <2> QED BY <1>1, <2>1
  <1>7. CASE e = [d EXCEPT !.flag = x, !.file = y, !.pos = 0]
    <2>1. e = New(y, 0, d.is_free, x)
      BY <1>2, <1>7
    <2> HIDE DEF New
    <2> QED BY <1>1, <2>1
  <1> QED BY <1>3, <1>4, <1>5, <1>6, <1>7

\* A call other than ufs_open and ufs_destroy keeps the slots there are.
LEMMA SlotsStay ==
    ASSUME Books, SlotsAre(file_descriptors),
           \/ \E n : ufs_delete(n)
           \/ \E fd \in Int : ufs_close(fd)
           \/ \E fd \in Int : \E buf : ufs_write(fd, buf)
           \/ \E fd \in Int : \E size : ufs_read(fd, size)
           \/ \E fd \in Int, size \in Nat : ufs_resize(fd, size)
    PROVE  SlotsAre(file_descriptors') /\ DOMAIN file_descriptors' = DOMAIN file_descriptors
  <1> DEFINE T == file_descriptors
  <1>1. CASE T' = T
    BY <1>1
  <1>2. CASE \E x : \E fd \in Int : ~is_valid_file(fd) /\ T' = [T EXCEPT ![fd].pos = x]
    <2>0. PICK x : \E fd \in Int : ~is_valid_file(fd) /\ T' = [T EXCEPT ![fd].pos = x]
      BY <1>2
    <2>1. PICK fd \in Int : ~is_valid_file(fd) /\ T' = [T EXCEPT ![fd].pos = x]
      BY <2>0
    <2>2. fd \in DOMAIN T
      BY <2>1, OpenDescriptor
    <2>3. /\ DOMAIN T' = DOMAIN T /\ T'[fd] = [T[fd] EXCEPT !.pos = x]
          /\ \A i \in DOMAIN T : i # fd => T'[i] = T[i]
      BY <2>1, <2>2
    <2> HIDE DEF T
    <2>4. IsSlot(T'[fd])
      BY <2>2, <2>3, SlotChanges DEF SlotsAre, T
    <2> QED BY <2>3, <2>4 DEF SlotsAre, T
  <1>3. CASE \E fd \in Int : ~is_valid_file(fd) /\ filedesc_make_free(fd)
    <2>1. PICK fd \in Int : /\ ~is_valid_file(fd)
                            /\ T' = [T EXCEPT ![fd].file = None, ![fd].is_free = TRUE, ![fd].flag = {}]
      BY <1>3 DEF filedesc_make_free
    <2>2. fd \in DOMAIN T
      BY <2>1, OpenDescriptor
    <2>3. /\ DOMAIN T' = DOMAIN T
          /\ T'[fd] = [T[fd] EXCEPT !.file = None, !.is_free = TRUE, !.flag = {}]
          /\ \A i \in DOMAIN T : i # fd => T'[i] = T[i]
      BY <2>1, <2>2
    <2> HIDE DEF T
    <2>4. IsSlot(T'[fd])
      BY <2>2, <2>3, SlotChanges DEF SlotsAre, T
    <2> QED BY <2>3, <2>4 DEF SlotsAre, T
  <1>4. CASE \E fd \in Int, size \in Nat : T' = Clamped(T[fd], size)
    <2>1. PICK fd \in Int, size \in Nat : T' = Clamped(T[fd], size)
      BY <1>4
    <2>2. DOMAIN T' = DOMAIN T
      BY <2>1 DEF Clamped
    <2>3. ASSUME NEW i \in DOMAIN T PROVE IsSlot(T'[i])
      <3>1. T'[i] = T[i] \/ T'[i] = [T[i] EXCEPT !.pos = Min({@, size})]
        BY <2>1 DEF Clamped
      <3>2. IsSlot(T[i])
        BY DEF SlotsAre
      <3> QED BY <3>1, <3>2, SlotChanges
    <2> QED BY <2>2, <2>3 DEF SlotsAre
  <1>5. T' = T \/ (\E fd \in Int : ~is_valid_file(fd) /\ filedesc_make_free(fd))
        \/ (\E x : \E fd \in Int : ~is_valid_file(fd) /\ T' = [T EXCEPT ![fd].pos = x])
        \/ (\E fd \in Int, size \in Nat : T' = Clamped(T[fd], size))
    <2>1. ASSUME NEW n, ufs_delete(n) PROVE T' = T
      BY <2>1 DEF ufs_delete, Fail
    <2>2. ASSUME NEW fd \in Int, ufs_close(fd)
          PROVE  T' = T \/ (~is_valid_file(fd) /\ filedesc_make_free(fd))
      BY <2>2 DEF ufs_close, Checked, Fail
    <2>3. ASSUME NEW fd \in Int, NEW buf, ufs_write(fd, buf)
          PROVE  T' = T \/ \E x : ~is_valid_file(fd) /\ T' = [T EXCEPT ![fd].pos = x]
      BY <2>3 DEF ufs_write, Checked, Fail, DoWrite, Crash
    <2>4. ASSUME NEW fd \in Int, NEW size, ufs_read(fd, size)
          PROVE  T' = T \/ \E x : ~is_valid_file(fd) /\ T' = [T EXCEPT ![fd].pos = x]
      BY <2>4 DEF ufs_read, Checked, Fail, DoRead, Crash
    <2>5. ASSUME NEW fd \in Int, NEW size \in Nat, ufs_resize(fd, size)
          PROVE  T' = T \/ T' = Clamped(T[fd], size)
      BY <2>5, ResizeCases DEF ResizesTo
    <2> HIDE DEF T
    <2> QED BY <2>1, <2>2, <2>3, <2>4, <2>5
  <1> QED BY <1>1, <1>2, <1>3, <1>4, <1>5

\* ufs_open grows the table by one slot, and only when no slot is free.
LEMMA SlotsGrow ==
    ASSUME Books, DataOK, SlotsAre(file_descriptors), Cardinality(DOMAIN file_descriptors) <= MaxFds,
           NEW filename, NEW flags, ufs_open(filename, flags)
    PROVE  SlotsAre(file_descriptors') /\ Cardinality(DOMAIN file_descriptors') <= MaxFds
  <1> DEFINE T == file_descriptors  t == find_free_fd.table  k == find_free_fd.fd
  <1>1. /\ k \in DOMAIN t /\ DOMAIN t[k] = SlotFields
        /\ \A i \in DOMAIN t : i # k => i \in DOMAIN T /\ t[i] = T[i]
        /\ FreeSlots # {} => DOMAIN t = DOMAIN T
        /\ FreeSlots = {} => Cardinality(DOMAIN t) = Cardinality(DOMAIN T) + 1
    BY find_free_fd_Data
  <1>2. IsSlot(t[k])
    <2>1. CASE file_descriptor_count < Cardinality(DOMAIN T) /\ FreeSlots # {}
      <3>1. k = Min(FreeSlots) /\ t = Taken(k)
        BY <2>1 DEF find_free_fd, file_descriptor_capacity
      <3> HIDE DEF k, t
      <3>2. DOMAIN t = DOMAIN T /\ k \in DOMAIN T /\ t[k] = [T[k] EXCEPT !.is_free = FALSE]
        BY <1>1, <3>1 DEF Taken
      <3> HIDE DEF T
      <3> QED BY <3>2, SlotChanges DEF SlotsAre, T
    <2>2. CASE ~(file_descriptor_count < Cardinality(DOMAIN T) /\ FreeSlots # {})
      <3>1. t = [i \in 0..Cardinality(DOMAIN T) |-> IF i = k THEN NewSlot ELSE T[i]]
        BY <2>2 DEF find_free_fd, file_descriptor_capacity
      <3>2. IsSlot(NewSlot)
        BY DEF IsSlot, NewSlot
      <3> HIDE DEF k, t, NewSlot
      <3>3. t[k] = NewSlot
        BY <1>1, <3>1
      <3> QED BY <3>2, <3>3
    <2> QED BY <2>1, <2>2
  <1> HIDE DEF t, k
  <1>3. \E f : T' = AtStart(t, k, flags, f) \/ T' = OnFile(t, k, flags, f)
    BY DEF ufs_open, OpenCreate, OpenExisting, AtStart, OnFile, t, k
  <1>4. PICK f : T' = AtStart(t, k, flags, f) \/ T' = OnFile(t, k, flags, f)
    BY <1>3
  <1>5. /\ DOMAIN T' = DOMAIN t /\ \A i \in DOMAIN t : i # k => T'[i] = t[i]
        /\ \/ T'[k] = [t[k] EXCEPT !.flag = flags, !.file = f, !.pos = 0]
           \/ T'[k] = [t[k] EXCEPT !.flag = flags, !.file = f]
    BY <1>1, <1>4 DEF AtStart, OnFile
  <1>6. IsSlot(T'[k])
    BY <1>2, <1>5, SlotChanges
  <1>7. SlotsAre(T')
    BY <1>1, <1>5, <1>6 DEF SlotsAre
  <1>8. Cardinality(DOMAIN T) \in Nat
    BY ConsistentParts, SlotsFinite DEF Books
  <1>9. FreeSlots = {} => Cardinality(DOMAIN T) < MaxFds
    BY DEF ufs_open, file_descriptor_capacity
  <1> QED BY <1>1, <1>5, <1>7, <1>8, <1>9, FdAssumption

-----------------------------------------------------------------------------
(* Every step.                                                             *)

Codes    == {"kept", "NO_FILE", "NO_MEM", "NO_PERMISSION"}
Statuses == {"up", "destroyed", "crashed"}
Bounded  == /\ Cardinality(DOMAIN file_descriptors) <= MaxFds
            /\ \A f \in FileIds : fs.at[f].refs <= MaxFds

\* The types of all variables, and what they rest on.
DataInv ==
    /\ FSInv /\ DataOK /\ SlotsAre(file_descriptors) /\ Bounded
    /\ last.err \in Codes /\ status \in Statuses

\* The error codes and the status after a call.
LEMMA OutcomeIs ==
    ASSUME Next, status = "up"
    PROVE  last'.err \in Codes /\ status' \in Statuses
  <1> DEFINE Good == last'.err \in Codes /\ status' \in Statuses
  <1>1. ASSUME NEW op, NEW code \in Codes, Fail(op, code) PROVE Good
    BY <1>1 DEF Fail, Return, Statuses
  <1>2. ASSUME NEW op, Crash(op) PROVE Good
    BY <1>2 DEF Crash, Return, Codes, Statuses
  <1>3. ASSUME NEW op, NEW r, NEW out, NEW code \in Codes, Return(op, r, out, code), status' = status
        PROVE  Good
    BY <1>3 DEF Return, Statuses
  <1>4. "kept" \in Codes /\ "NO_FILE" \in Codes /\ "NO_MEM" \in Codes /\ "NO_PERMISSION" \in Codes
    BY DEF Codes
  <1> HIDE DEF Good
  <1>5. ASSUME NEW n, ufs_delete(n) PROVE Good
    BY <1>1, <1>3, <1>4, <1>5 DEF ufs_delete
  <1>6. ASSUME NEW n, NEW flags, ufs_open(n, flags) PROVE Good
    <2>1. status' = status
      BY <1>6 DEF ufs_open
    <2>2. \E r, code : Return("open", r, <<>>, code) /\ code \in Codes
      BY <1>4, <1>6 DEF ufs_open, OpenCreate, OpenExisting
    <2> QED BY <1>3, <2>1, <2>2
  <1>7. ASSUME NEW fd, ufs_close(fd) PROVE Good
    BY <1>1, <1>3, <1>4, <1>7 DEF ufs_close, Checked
  <1>8. ASSUME NEW fd, NEW buf, ufs_write(fd, buf) PROVE Good
    BY <1>1, <1>2, <1>3, <1>4, <1>8 DEF ufs_write, Checked, DoWrite
  <1>9. ASSUME NEW fd, NEW size, ufs_read(fd, size) PROVE Good
    BY <1>1, <1>2, <1>3, <1>4, <1>9 DEF ufs_read, Checked, DoRead
  <1>10. ASSUME NEW fd, NEW size, ufs_resize(fd, size) PROVE Good
    BY <1>1, <1>2, <1>3, <1>4, <1>10 DEF ufs_resize, Checked, DoResize
  <1>11. ASSUME ufs_destroy PROVE Good
    BY <1>11 DEF ufs_destroy, Return, Codes, Statuses, Good
  <1>12. Good
    BY <1>5, <1>6, <1>7, <1>8, <1>9, <1>10, <1>11 DEF Next
  <1> QED BY <1>12 DEF Good

\* Every call keeps the types and, while files only grow, the shapes.
LEMMA NextData ==
    ASSUME DataInv, Next
    PROVE  DataInv' /\ (Shapes /\ GrowOnly => Shapes')
  <1>1. status = "up" /\ Books
    BY DEF Next, DataInv, FSInv, Books, ufs_delete, ufs_open, ufs_close, ufs_write, ufs_read,
           ufs_resize, ufs_destroy, Checked
  <1>2. FSInv' /\ last'.err \in Codes /\ status' \in Statuses
    BY <1>1, NextFSInv, OutcomeIs DEF DataInv
  <1>3. CASE ufs_destroy
    <2>1. fs' = fs /\ file_descriptors' = <<>> /\ DOMAIN <<>> = {}
      BY <1>3 DEF ufs_destroy
    <2>2. Cardinality({}) = 0 /\ 0 <= MaxFds
      BY FS_EmptySet, FdAssumption
    <2>3. DataOK' /\ Bounded' /\ SlotsAre(file_descriptors')
      BY <2>1, <2>2 DEF DataInv, DataOK, SlotsData, Bounded, SlotsAre
    <2>4. Shapes => Shapes'
      BY <2>1 DEF Shapes, Within
    <2> QED BY <1>2, <2>3, <2>4 DEF DataInv
  <1>4. CASE ~ufs_destroy
    <2>1. \A fd \in FdArgs : fd \in Int
      BY FdAssumption DEF FdArgs
    <2>2. Books'
      BY <1>1, <1>4, <2>1, OpenStep, DeleteStep, CloseStep, WriteStep, ReadStep, ResizeStep DEF Next
    <2>3. /\ \A n \in ResizeSizes : n \in Nat
          /\ \A n \in 0..MaxRead : n \in Nat
          /\ \A buf \in Buffers : buf \in Seq(Bytes)
      BY FdAssumption, BlockAssumption, ByteAssumption
    <2>4. DataOK' /\ (Shapes /\ GrowOnly => Shapes')
      <3>0. DataOK
        BY DEF DataInv
      <3>1. ASSUME NEW n \in Names, ufs_delete(n) \/ \E flags \in OpenFlags : ufs_open(n, flags)
            PROVE  DataOK' /\ (Shapes => Shapes')
        BY <1>1, <2>2, <3>0, <3>1, DeleteData, OpenData
      <3>2. ASSUME NEW fd \in FdArgs, ufs_close(fd) PROVE DataOK' /\ (Shapes => Shapes')
        BY <1>1, <2>1, <2>2, <3>0, <3>2, CloseData
      <3>3. ASSUME NEW fd \in FdArgs, NEW buf \in Buffers, ufs_write(fd, buf)
            PROVE  DataOK' /\ (Shapes => Shapes')
        BY <1>1, <2>1, <2>3, <3>0, <3>3, WriteData
      <3>4. ASSUME NEW fd \in FdArgs, NEW size \in 0..MaxRead, ufs_read(fd, size)
            PROVE  DataOK' /\ (Shapes => Shapes')
        BY <1>1, <2>1, <2>3, <3>0, <3>4, ReadData
      <3>5. ASSUME NEW fd \in FdArgs, NEW n \in ResizeSizes, MayResize(fd, n), ufs_resize(fd, n)
            PROVE  DataOK' /\ (Shapes /\ GrowOnly => Shapes')
        BY <1>1, <2>1, <2>3, <3>0, <3>5, ResizeData
      <3> QED BY <1>4, <3>1, <3>2, <3>3, <3>4, <3>5 DEF Next
    <2>5. SlotsAre(file_descriptors') /\ Cardinality(DOMAIN file_descriptors') <= MaxFds
      <3>0. DataOK /\ SlotsAre(file_descriptors) /\ Cardinality(DOMAIN file_descriptors) <= MaxFds
        BY DEF DataInv, Bounded
      <3>1. CASE \E n \in Names, flags \in OpenFlags : ufs_open(n, flags)
        BY <1>1, <3>0, <3>1, SlotsGrow
      <3>2. CASE \/ \E n : ufs_delete(n)
                 \/ \E fd \in Int : ufs_close(fd)
                 \/ \E fd \in Int : \E buf : ufs_write(fd, buf)
                 \/ \E fd \in Int : \E size : ufs_read(fd, size)
                 \/ \E fd \in Int, size \in Nat : ufs_resize(fd, size)
        <4>1. SlotsAre(file_descriptors') /\ DOMAIN file_descriptors' = DOMAIN file_descriptors
          BY <1>1, <3>0, <3>2, SlotsStay
        <4> QED BY <3>0, <4>1
      <3> QED BY <1>4, <2>1, <2>3, <3>1, <3>2 DEF Next
    <2>6. Bounded'
      <3>1. TableOK(file_descriptors') /\ RefsOK(fs', file_descriptors')
        BY <2>2, ConsistentParts DEF Books
      <3>2. ASSUME NEW f \in FileIds PROVE fs'.at[f].refs <= MaxFds
        <4> DEFINE O == OpenOn(file_descriptors', f)
        <4>1. O \subseteq DOMAIN file_descriptors' /\ IsFiniteSet(DOMAIN file_descriptors')
          BY <3>1 DEF OpenOn, TableOK
        <4>2. fs'.at[f].refs = Cardinality(O)
          BY <3>1 DEF RefsOK
        <4> HIDE DEF O
        <4>3. /\ Cardinality(O) <= Cardinality(DOMAIN file_descriptors') /\ Cardinality(O) \in Nat
              /\ Cardinality(DOMAIN file_descriptors') \in Nat
          BY <4>1, FS_Subset, FS_CardinalityType
        <4> QED BY <2>5, <4>2, <4>3, FdAssumption
      <3> QED BY <2>5, <3>2 DEF Bounded
    <2> QED BY <1>2, <2>4, <2>5, <2>6 DEF DataInv
  <1> QED BY <1>3, <1>4

\* The types and the shapes hold before the first call.
LEMMA InitData ==
    ASSUME Init
    PROVE  DataInv /\ Shapes
  <1>1. /\ fs = [list |-> <<>>, at |-> [f \in FileIds |-> Freed]] /\ file_descriptors = <<>>
        /\ status = "up" /\ last.err = "kept"
    BY DEF Init
  <1>2. DOMAIN file_descriptors = {} /\ Cardinality({}) = 0 /\ 0 <= MaxFds
    BY <1>1, FS_EmptySet, FdAssumption
  <1>3. Elems(fs.list) = {} /\ Freed.refs = 0
    BY <1>1, EmptyList DEF Freed
  <1> HIDE DEF Freed
  <1>4. DataOK /\ Bounded /\ SlotsAre(file_descriptors)
    BY <1>1, <1>2, <1>3, NoBlocks DEF DataOK, FilesData, SlotsData, Bounded, SlotsAre
  <1>5. Shapes
    BY <1>2, <1>3 DEF Shapes, Sound, Within
  <1> QED BY <1>1, <1>4, <1>5, InitFSInv DEF DataInv, Codes, Statuses

\* The types hold in every state: of the bytes, too, through every write, read and
\* resize at every position (userfs.c).
THEOREM DataHolds == Spec => []DataInv
  <1>1. Init => DataInv
    BY InitData
  <1>2. DataInv /\ [Next]_fsVars => DataInv'
    <2>1. ASSUME DataInv, UNCHANGED fsVars PROVE DataInv'
      <3>1. FSInv'
        BY <2>1, NextFSInv DEF DataInv
      <3> QED BY <2>1, <3>1 DEF DataInv, fsVars, DataOK, Bounded
    <2> QED BY <2>1, NextData
  <1> QED BY <1>1, <1>2, PTL DEF Spec

\* While files only grow, in every state the blocks of every file have the shape of its
\* size, and no position is behind the end (userfs.c:225-238, 258-272).
THEOREM ShapesHold ==
    ASSUME GrowOnly
    PROVE  Spec => []Shapes
  <1>1. Init => DataInv /\ Shapes
    BY InitData
  <1>2. DataInv /\ Shapes /\ [Next]_fsVars => DataInv' /\ Shapes'
    <2>1. ASSUME DataInv, Shapes, UNCHANGED fsVars PROVE DataInv' /\ Shapes'
      <3>1. FSInv'
        BY <2>1, NextFSInv DEF DataInv
      <3> QED BY <2>1, <3>1 DEF DataInv, fsVars, DataOK, Bounded, Shapes
    <2> QED BY <2>1, NextData
  <1> QED BY <1>1, <1>2, PTL DEF Spec

-----------------------------------------------------------------------------
(* The properties.                                                         *)

\* A list that has no file twice is no longer than there are files.
LEMMA ListLength ==
    ASSUME IsFiniteSet(FileIds), FilesOK(fs)
    PROVE  Len(fs.list) <= Cardinality(FileIds)
  <1> DEFINE l == fs.list  n == Len(fs.list)
  <1>1. l \in Seq(FileIds) /\ NoRepeat(l) /\ n \in Nat
    BY LenProperties DEF FilesOK
  <1>2. l \in [1..n -> FileIds]
    BY <1>1, LenProperties
  <1>3. \A i, j \in 1..n : l[i] = l[j] => i = j
    BY <1>1 DEF NoRepeat
  <1> HIDE DEF l, n
  <1>4. l \in Injection(1..n, FileIds)
    BY <1>2, <1>3 DEF Injection, IsInjective
  <1>5. IsFiniteSet(1..n) /\ Cardinality(1..n) = n
    BY <1>1, FS_Interval
  <1>6. Cardinality(1..n) <= Cardinality(FileIds)
    BY <1>4, FS_Injection
  <1> QED BY <1>5, <1>6 DEF n, l

\* The invariant has the types of TypeOK.
LEMMA TypesOK ==
    ASSUME DataInv, Shapes, IsFiniteSet(FileIds)
    PROVE  TypeOK
  <1> DEFINE T == file_descriptors
  <1>1. /\ FilesOK(fs) /\ (TableOK(T) \/ T = <<>>)
        /\ Elems(fs.list) \subseteq FileIds
    BY ConsistentParts, ElemsAreFiles DEF DataInv, FSInv
  <1>2. Len(fs.list) <= Cardinality(FileIds) /\ Listed \subseteq FileIds
    BY <1>1, ListLength DEF Listed, Elems
  <1>3. ASSUME NEW f \in FileIds
        PROVE  /\ fs.at[f].name \in Names \cup {None}
               /\ fs.at[f].refs \in 0..MaxFds /\ fs.at[f].delete \in BOOLEAN
               /\ \A i \in 1..Len(fs.at[f].blocks) : fs.at[f].blocks[i] \in Block
    <2>1. StructOK(fs.at[f])
      BY DEF DataInv, DataOK, FilesData
    <2>2. fs.at[f].refs \in Nat /\ fs.at[f].refs <= MaxFds
      BY <1>1 DEF FilesOK, DataInv, Bounded
    <2>3. \A i \in 1..Len(fs.at[f].blocks) : fs.at[f].blocks[i] \in Block
      BY <2>1, ElementOfSeq DEF StructOK
    <2>4. fs.at[f].delete \in BOOLEAN
      BY <1>1 DEF FilesOK
    <2> QED BY <2>1, <2>2, <2>3, <2>4, FdAssumption DEF StructOK
  <1>4. DOMAIN T = 0..(file_descriptor_capacity - 1)
    <2>1. CASE TableOK(T)
      BY <2>1 DEF TableOK, file_descriptor_capacity
    <2>2. CASE T = <<>>
      <3>1. DOMAIN T = {} /\ Cardinality({}) = 0
        BY <2>2, FS_EmptySet
      <3> QED BY <3>1 DEF file_descriptor_capacity
    <2> QED BY <1>1, <2>1, <2>2
  <1>5. ASSUME NEW fd \in DOMAIN T
        PROVE  T[fd] \in [file : FileIds \cup {None}, pos : 0..MAX_FILE_SIZE,
                          is_free : BOOLEAN, flag : OpenFlags \cup {{}}]
    <2> DEFINE d == T[fd]
    <2>1. TableOK(T)
      BY <1>1
    <2>2. d.file \in FileIds \cup {None} /\ d.is_free \in BOOLEAN
      BY <2>1 DEF TableOK
    <2>3. d.pos \in Nat /\ d.flag \in OpenFlags \cup {{}} /\ IsSlot(d)
      BY DEF DataInv, DataOK, SlotsData, SlotOK, SlotsAre
    <2>4. d.pos <= MAX_FILE_SIZE
      BY DEF Shapes, Within, SlotIn
    <2>5. d.pos \in 0..MAX_FILE_SIZE
      BY <2>3, <2>4, BlockAssumption
    <2> HIDE DEF d
    <2>6. d = [file |-> d.file, pos |-> d.pos, is_free |-> d.is_free, flag |-> d.flag]
      BY <2>3 DEF IsSlot
    <2> QED BY <2>2, <2>3, <2>5, <2>6 DEF d
  <1>6. /\ last.err \in {"kept", "NO_FILE", "NO_MEM", "NO_PERMISSION"}
        /\ status \in {"up", "destroyed", "crashed"}
    BY DEF DataInv, Codes, Statuses
  <1> QED BY <1>2, <1>3, <1>4, <1>5, <1>6 DEF TypeOK

\* Files of the shape of their size have full blocks but for the last.
LEMMA BlocksFull ==
    ASSUME DataInv, Shapes
    PROVE  Contiguous
  <1> SUFFICES ASSUME NEW f \in Listed, NEW i \in 1..Len(fs.at[f].blocks)
               PROVE  /\ i < Len(fs.at[f].blocks) => fs.at[f].blocks[i].occupied = BLOCK_SIZE
                      /\ fs.at[f].blocks[i].occupied > 0
    BY DEF Contiguous
  <1>1. f \in Elems(fs.list) /\ f \in FileIds
    <2>1. f \in Elems(fs.list)
      BY DEF Listed, Elems
    <2>2. FilesOK(fs)
      BY ConsistentParts DEF DataInv, FSInv
    <2> QED BY <2>1, <2>2, ElemsAreFiles
  <1> DEFINE bl == fs.at[f].blocks
  <1>2. bl \in Seq(Block) /\ Shape(bl, Occ(bl))
    BY <1>1 DEF Shapes, Sound, DataInv, DataOK, FilesData, StructOK
  <1> HIDE DEF bl
  <1>3. \A j \in 1..Len(bl) : bl[j].occupied > 0 /\ (j < Len(bl) => bl[j].occupied = BLOCK_SIZE)
    BY <1>2, ShapeIsFull
  <1> QED BY <1>3 DEF bl

\* No position is behind the end of its file.
LEMMA PositionsInside ==
    ASSUME DataInv, Shapes
    PROVE  PosWithinFile
  <1> SUFFICES ASSUME status = "up", NEW fd \in DOMAIN file_descriptors, Open(fd)
               PROVE  file_descriptors[fd].pos <= Size(file_descriptors[fd].file)
    BY DEF PosWithinFile
  <1>1. file_descriptors[fd].file # None
    BY DEF Open, is_valid_file
  <1> QED BY <1>1 DEF Shapes, Within, SlotIn, Size, Occ

\* While files only grow, every variable has its type, every block but the last is full
\* and no position is behind the end of its file: the walks of ufs_read and ufs_write
\* stay on the list of blocks (userfs.c:225-238, 258-272).
THEOREM BlocksAreSound ==
    ASSUME GrowOnly, IsFiniteSet(FileIds)
    PROVE  Spec => []BlocksSound
  <1>1. DataInv /\ Shapes => BlocksSound
    BY TypesOK, BlocksFull, PositionsInside DEF BlocksSound
  <1> QED BY <1>1, DataHolds, ShapesHold, PTL

\* Only ufs_resize reports itself as such.
LEMMA ResizeOnly ==
    ASSUME Next, last'.op = "resize"
    PROVE  \E fd \in FdArgs, size \in ResizeSizes : ufs_resize(fd, size)
  <1> DEFINE Op == last'.op
  <1>1. /\ \A op, r, out, code : Return(op, r, out, code) => Op = op
        /\ \A op, code : Fail(op, code) => Op = op
        /\ \A op : Crash(op) => Op = op
    BY DEF Return, Fail, Crash
  <1>2. Op = "resize"
    OBVIOUS
  <1> HIDE DEF Op
  <1>3. \A n : ~ufs_delete(n)
    BY <1>1, <1>2 DEF ufs_delete
  <1>4. \A n, flags : ~ufs_open(n, flags)
    BY <1>1, <1>2 DEF ufs_open, OpenCreate, OpenExisting
  <1>5. \A fd : ~ufs_close(fd)
    BY <1>1, <1>2 DEF ufs_close, Checked
  <1>6. \A fd, buf : ~ufs_write(fd, buf)
    BY <1>1, <1>2 DEF ufs_write, Checked, DoWrite
  <1>7. \A fd, size : ~ufs_read(fd, size)
    BY <1>1, <1>2 DEF ufs_read, Checked, DoRead
  <1>8. ~ufs_destroy
    BY <1>1, <1>2 DEF ufs_destroy
  <1> QED BY <1>3, <1>4, <1>5, <1>6, <1>7, <1>8 DEF Next

\* With every slot in use, the loop of ufs_resize reaches them all.
LEMMA AllReached ==
    ASSUME Books, FreeSlots = {}, NEW i \in DOMAIN file_descriptors
    PROVE  i < file_descriptor_count
  <1> DEFINE T == file_descriptors
  <1>1. TableOK(T) /\ CountOK(T, file_descriptor_count)
    BY ConsistentParts DEF Books
  <1>2. Cardinality(DOMAIN T) \in Nat
    BY <1>1, FS_CardinalityType DEF TableOK
  <1>3. file_descriptor_count = Cardinality(DOMAIN T)
    <2>1. FreeIn(T) = {} /\ Cardinality({}) = 0
      BY FS_EmptySet DEF FreeIn, FreeSlots
    <2> HIDE DEF T
    <2> QED BY <1>1, <1>2, <2>1 DEF CountOK
  <1> HIDE DEF T
  <1>4. i \in 0..(Cardinality(DOMAIN T) - 1)
    BY <1>1 DEF TableOK, T
  <1> QED BY <1>2, <1>3, <1>4

\* When every slot is in use, ufs_resize leaves no descriptor of the file it changes
\* behind the new end (userfs.c:362-365), whatever the callers do, shrinking included.
THEOREM FullTableClamped == Spec => ClampsFullTable
  <1> DEFINE T == file_descriptors
             Step == last'.op = "resize" /\ last'.ret = 0 /\ FreeSlots = {} =>
                        \A fd \in DOMAIN file_descriptors :
                           LET f == file_descriptors[fd].file
                           IN  Open(fd) /\ fs'.at[f] # fs.at[f]
                                 => file_descriptors'[fd].pos <= Size(f)'
  <1>1. ASSUME DataInv, Next PROVE Step
    <2> SUFFICES ASSUME last'.op = "resize", last'.ret = 0, FreeSlots = {}, NEW fd \in DOMAIN T,
                        Open(fd), fs'.at[T[fd].file] # fs.at[T[fd].file]
                 PROVE  T'[fd].pos <= Size(T[fd].file)'
      OBVIOUS
    <2>1. status = "up" /\ Books /\ DataOK
      BY <1>1 DEF Next, DataInv, FSInv, Books, ufs_delete, ufs_open, ufs_close, ufs_write, ufs_read,
             ufs_resize, ufs_destroy, Checked
    <2>2. PICK k \in Int, size \in Nat : ufs_resize(k, size)
      <3>1. (\A k \in FdArgs : k \in Int) /\ (\A size \in ResizeSizes : size \in Nat)
        BY FdAssumption DEF FdArgs
      <3> QED BY <1>1, <3>1, ResizeOnly
    <2>3. ResizesTo(k, size)
      BY <2>2, ResizeCases
    <2> DEFINE f == T[k].file  b == Resized(fs.at[f].blocks, size)
    <2>4. /\ k \in DOMAIN T /\ f \in FileIds /\ fs.at[f].blocks \in Seq(Block) /\ FilesOK(fs)
          /\ size \in Nat \ {0} /\ fs' = [fs EXCEPT !.at[f].blocks = b]
      BY <2>1, <2>3, OpenDescriptor, ConsistentParts
         DEF ResizesTo, Books, DataOK, FilesData, StructOK
    <2>5. fs'.at[f].blocks = b /\ \A g : g # f => fs'.at[g] = fs.at[g]
      <3>1. DOMAIN fs = {"list", "at"} /\ DOMAIN fs.at = FileIds /\ DOMAIN fs.at[f] = FileFields
        BY <2>4 DEF FilesOK
      <3> HIDE DEF b, f
      <3>2. fs'.at = [fs.at EXCEPT ![f] = [@ EXCEPT !.blocks = b]]
        BY <2>4, <3>1
      <3>3. \A g : g # f => fs'.at[g] = fs.at[g]
        BY <3>1, <3>2
      <3> QED BY <2>4, <3>1, <3>2, <3>3 DEF FileFields
    <2>6. T[fd].file = f
      BY <2>5
    <2>7. T'[fd].pos <= size /\ T'[fd].file = T[fd].file
      BY <2>1, <2>3, <2>6, ClampedIs, AllReached
    <2>8. Occ(b) = size
      <3>1. \A bl \in Seq(Block) : Occ(Resized(bl, size)) = size
        BY <2>4, ResizedIs, ShapeAddsUp
      <3> QED BY <2>4, <3>1
    <2>9. Size(T[fd].file)' = Occ(fs'.at[f].blocks)
      <3>1. T'[fd].file = f
        BY <2>6, <2>7
      <3> HIDE DEF f, b
      <3>2. Size(T[fd].file)' = Occ(fs.at[T[fd].file].blocks)'
        BY DEF Size, Occ
      <3>3. Occ(fs.at[T[fd].file].blocks)' = Occ(fs'.at[T'[fd].file].blocks)
        OBVIOUS
      <3> QED BY <3>1, <3>2, <3>3
    <2> QED BY <2>5, <2>7, <2>8, <2>9
  <1>2. ASSUME DataInv, [Next]_fsVars PROVE [Step]_fsVars
    BY <1>1, <1>2
  <1> QED BY <1>2, DataHolds, PTL DEF Spec, ClampsFullTable
=============================================================================
