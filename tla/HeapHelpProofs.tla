--------------------------- MODULE HeapHelpProofs ---------------------------
(***************************************************************************)
(* Proof that the leak tracker keeps its books, for any number of blocks   *)
(* and threads and any size of a batch of records.                         *)
(***************************************************************************)
EXTENDS HeapHelpProps, SeqLemmas, FiniteSetTheorems

-----------------------------------------------------------------------------
(* Calls by themselves.                                                    *)

Blocks == Addrs \cup {None}
Ops == {"malloc", "pthread_create", "realloc", "strdup", "getline", "getaddrinfo", "free",
        "freeaddrinfo"}
AllocOps == Ops \ {"free", "freeaddrinfo"}
CallFields == {"op", "old", "new", "todo"}

Al      == Step("alloc", None, 1)
Tr(a)   == Step("trace", a, 1)
Un(a)   == Step("untrace", a, 1)
TrIn(a) == Step("trace", a, 2)
UnIn(a) == Step("untrace", a, 2)

\* The first call, before and in heaph_init.
Touch   == Step("touch", None, 0)
Initial == Step("init", None, 0)
Static1 == Step("static", None, 1)
NoBlock(k)     == k.old = None /\ k.new = None
BeforeLock(k)  == NoBlock(k) /\ k.op \in AllocOps /\ k.todo = <<Touch, Al>>
InInit(k)      == /\ NoBlock(k) /\ k.op \in AllocOps
                  /\ k.todo \in {<<Initial, Al>>, <<Touch, Static1, Initial, Al>>, <<Static1, Initial, Al>>}

\* What a call k may be about to do when the address lists are T.
Resting(k)  == k = Idle \/ k = [Idle EXCEPT !.op = "exit"]
Asking(k)   == NoBlock(k) /\ k.op \in AllocOps /\ k.todo = <<Al>>
Finished(k) == k.op \in Ops /\ k.old \in Blocks /\ k.new \in Blocks /\ k.todo = <<>>
Got(k)      == /\ k.op \in AllocOps /\ k.old \in Blocks /\ k.new \in Addrs
               /\ \/ k.todo = <<Tr(k.new)>> \/ k.todo = <<TrIn(k.new), Tr(k.new)>>
                  \/ \E b \in Addrs : k.todo = <<TrIn(k.new), TrIn(b), Tr(k.new)>>
                  \/ \E b \in Addrs : k.todo = <<TrIn(b), Tr(k.new)>>
Resizing(k, T) == /\ k.op \in {"realloc", "getline"} /\ k.old \in Addrs /\ k.new = None
                  /\ k.todo = <<Step("resize", k.old, 1)>> /\ k.old \notin DOMAIN T
HasMoved(k) == /\ k.op \in {"realloc", "getline"} /\ k.old \in Addrs /\ k.new \in Addrs
               /\ k.old # k.new
               /\ k.todo \in {<<Un(k.old), Tr(k.new)>>, <<TrIn(k.new), Un(k.old), Tr(k.new)>>,
                              <<UnIn(k.old), TrIn(k.new), Un(k.old), Tr(k.new)>>}
Emptied(k)  == /\ k.op = "realloc" /\ k.old \in Addrs /\ k.new = None
               /\ k.todo = <<Un(k.old)>>
Refused(k)  == /\ k.op = "realloc" /\ k.old \in Addrs /\ k.new = k.old
               /\ k.todo = <<Un(k.old)>>
Freeing(k, T) == /\ k.op = "free" /\ k.old \in Addrs /\ k.new = None /\ k.old \notin DOMAIN T
                 /\ k.todo \in {<<Un(k.old), Step("dealloc", k.old, 1)>>,
                                <<Step("dealloc", k.old, 1)>>}
FreeingTail(k, T) ==
    /\ k.op = "freeaddrinfo" /\ k.old \in Addrs /\ k.new = None /\ k.old \in DOMAIN T
    /\ LET b == T[k.old]
       IN  k.todo \in {<<Un(k.old), UnIn(b), Step("dealloc", b, 2), UnIn(k.old), Step("dealloc", k.old, 2)>>,
                       <<UnIn(b), Step("dealloc", b, 2), UnIn(k.old), Step("dealloc", k.old, 2)>>,
                       <<Step("dealloc", b, 2), UnIn(k.old), Step("dealloc", k.old, 2)>>}
FreeingHead(k, T) ==
    /\ k.op = "freeaddrinfo" /\ k.old \in Addrs /\ k.new = None /\ k.old \notin DOMAIN T
    /\ k.todo \in {<<UnIn(k.old), Step("dealloc", k.old, 2)>>, <<Step("dealloc", k.old, 2)>>}

CallOK(k, T) ==
    /\ DOMAIN k = CallFields
    /\ \/ BeforeLock(k) \/ InInit(k) \/ Resting(k) \/ Asking(k) \/ Finished(k) \/ Got(k)
       \/ Resizing(k, T) \/ HasMoved(k) \/ Emptied(k) \/ Refused(k) \/ Freeing(k, T)
       \/ FreeingTail(k, T) \/ FreeingHead(k, T)

\* The block a call is in charge of, which it has not freed yet.
GivesBack(k) == k.todo # <<>> /\ k.todo[Len(k.todo)].do \in {"resize", "dealloc"}
Own(k) == IF k.new # None THEN k.new ELSE IF GivesBack(k) THEN k.old ELSE None

-----------------------------------------------------------------------------
(* The inductive invariant.                                                *)

\* The initialisation happens in the first call, when there is one thread.
InitInv ==
    /\ is_init_done \in BOOLEAN /\ init_lock \in BOOLEAN
    /\ init_lock_count \in [Threads -> 0..1]
    /\ \A t \in Others : ~BeforeLock(call[t]) /\ ~InInit(call[t]) /\ init_lock_count[t] = 0
    /\ init_lock = InInit(call[Main]) /\ (init_lock_count[Main] = 1) = init_lock
    /\ is_init_done => ~BeforeLock(call[Main]) /\ ~InInit(call[Main])
    /\ ~is_init_done => /\ started = {Main} /\ live = {} /\ ~is_exit_done
                        /\ call[Main] = Idle \/ BeforeLock(call[Main]) \/ InInit(call[Main])

\* Threads and exit.
ThreadInv ==
    /\ started \subseteq Threads /\ Main \in started
    /\ DOMAIN call = Threads
    /\ \A t \in Threads : CallOK(call[t], tails)
    /\ \A t \in Threads \ started : call[t] = Idle
    /\ is_exit_done \in BOOLEAN /\ reused \in BOOLEAN /\ aborted \in BOOLEAN
    /\ is_exit_done <=> call[Main].op = "exit"
    /\ \A t \in Others : call[t].op # "exit"
    /\ report # None => is_exit_done /\ ~aborted

\* Every block has at most one owner: a list, the program or a call.
TailBlocks == {tails[x] : x \in DOMAIN tails}
OwnerInv ==
    /\ live \subseteq Addrs
    /\ DOMAIN tails \subseteq live /\ TailBlocks \subseteq live \ DOMAIN tails
    /\ \A x, y \in DOMAIN tails : tails[x] = tails[y] => x = y
    /\ held \subseteq (live \ TailBlocks) \cup {Static}
    /\ \A t \in Threads : Own(call[t]) \in (live \ (TailBlocks \cup held)) \cup {None}
    /\ \A t, u \in Threads : Own(call[t]) = Own(call[u]) => t = u \/ Own(call[t]) = None

\* Records that are in use or were.
Ids   == Nat \X (1..ALLOCATION_BATCH_SIZE)
Entry == [id : Ids, mem : Addrs, internal : BOOLEAN]
Issued(r, b) == r \in Ids /\ (r[1] < b.nth \/ (r[1] = b.nth /\ r[2] <= b.used))
RecordInv ==
    /\ alloc_batch \in [nth : Nat, used : 1..ALLOCATION_BATCH_SIZE]
    /\ allocs \in Seq(Entry) /\ alloc_pool \in Seq(Ids)
    /\ record \in [Threads -> Ids \cup {None}]
    /\ \A r \in Records : Issued(r, alloc_batch)
    /\ RecordsOnce
    /\ \A t \in Threads : record[t] # None =>
          call[t].todo # <<>> /\ Head(call[t].todo) = Tr(call[t].new)

\* The list agrees with the heap as long as all the threads trace, or until an
\* assertion fails.
AllTrace == ~aborted /\ (is_exit_done => started = {Main})
Of(a) == {r \in Elems(allocs) : r.mem = a}
BooksInv ==
    /\ alloc_count = Len(allocs) /\ lost \in [Addrs -> Nat]
    /\ AllTrace => \A a \in Addrs :
          Cardinality(Of(a)) + Cardinality(Tracing(a)) + Cardinality(Untraced(a)) + lost[a]
          = (IF a \in Traceable THEN 1 ELSE 0) + Cardinality(Stale(a))

\* As long as no block was handed out too early, a block left behind by realloc
\* is not in use, and records of threads' memory are those the program never gets.
Keeper(r) ==
    IF r.internal THEN /\ r.mem \in Traceable \ held
                       /\ \A t \in Threads : Own(call[t]) = r.mem => call[t].op = "pthread_create"
    ELSE \/ r.mem \in held
         \/ \E t \in Threads : /\ call[t].op # "pthread_create"
                               /\ Own(call[t]) = r.mem \/ t \in Stale(r.mem)
InternalInv ==
    AllTrace /\ ~reused =>
        /\ \A a \in Addrs : \A t, u \in Stale(a) : a \notin live /\ t = u
        /\ \A r \in Elems(allocs) : Keeper(r)

Internals == {i \in 1..Len(allocs) : trace_is_internal(i)}
ReportInv ==
    report # None => report = [count |-> alloc_count - Cardinality(Internals),
                               suppressed |-> Cardinality(Internals)]

HeapInv == /\ InitInv /\ ThreadInv /\ OwnerInv /\ RecordInv /\ BooksInv /\ InternalInv /\ ReportInv
           /\ NeverAborts
-----------------------------------------------------------------------------
(* Steps and lists of steps.                                               *)

\* A step is what, where and how deep.
LEMMA StepIs ==
    /\ \A w, a, d : Step(w, a, d).do = w /\ Step(w, a, d).mem = a /\ Step(w, a, d).depth = d
    /\ \A w, a, d, v, b, e : Step(w, a, d) = Step(v, b, e) <=> w = v /\ a = b /\ d = e
  BY DEF Step

\* Short lists.
LEMMA List0 == ToSet(<<>>) = {} /\ Len(<<>>) = 0
  BY DEF ToSet

\* A list of one step.
LEMMA List1 ==
    ASSUME NEW s, NEW a, s = <<a>>
    PROVE  /\ Head(s) = a /\ Tail(s) = <<>> /\ ToSet(s) = {a}
           /\ Len(s) = 1 /\ s[Len(s)] = a /\ s # <<>>
  <1>1. DOMAIN s = {1} /\ s[1] = a
    OBVIOUS
  <1>2. ToSet(s) = {a}
    BY <1>1 DEF ToSet
  <1> QED BY <1>1, <1>2

\* A list of two steps.
LEMMA List2 ==
    ASSUME NEW s, NEW a, NEW b, s = <<a, b>>
    PROVE  /\ Head(s) = a /\ Tail(s) = <<b>> /\ ToSet(s) = {a, b}
           /\ Len(s) = 2 /\ s[Len(s)] = b /\ s # <<>>
  <1>1. DOMAIN s = {1, 2} /\ s[1] = a /\ s[2] = b
    OBVIOUS
  <1>2. ToSet(s) = {a, b}
    BY <1>1 DEF ToSet
  <1> QED BY <1>1, <1>2

\* A list of three steps.
LEMMA List3 ==
    ASSUME NEW s, NEW a, NEW b, NEW c, s = <<a, b, c>>
    PROVE  /\ Head(s) = a /\ Tail(s) = <<b, c>> /\ ToSet(s) = {a, b, c}
           /\ Len(s) = 3 /\ s[Len(s)] = c /\ s # <<>>
  <1>1. DOMAIN s = {1, 2, 3} /\ s[1] = a /\ s[2] = b /\ s[3] = c
    OBVIOUS
  <1>2. ToSet(s) = {a, b, c}
    BY <1>1 DEF ToSet
  <1> QED BY <1>1, <1>2

\* A list of four steps.
LEMMA List4 ==
    ASSUME NEW s, NEW a, NEW b, NEW c, NEW d, s = <<a, b, c, d>>
    PROVE  /\ Head(s) = a /\ Tail(s) = <<b, c, d>> /\ ToSet(s) = {a, b, c, d}
           /\ Len(s) = 4 /\ s[Len(s)] = d /\ s # <<>>
  <1>1. DOMAIN s = {1, 2, 3, 4} /\ s[1] = a /\ s[2] = b /\ s[3] = c /\ s[4] = d
    OBVIOUS
  <1>2. ToSet(s) = {a, b, c, d}
    BY <1>1 DEF ToSet
  <1> QED BY <1>1, <1>2

\* A list of five steps.
LEMMA List5 ==
    ASSUME NEW s, NEW a, NEW b, NEW c, NEW d, NEW e, s = <<a, b, c, d, e>>
    PROVE  /\ Head(s) = a /\ Tail(s) = <<b, c, d, e>> /\ ToSet(s) = {a, b, c, d, e}
           /\ Len(s) = 5 /\ s[Len(s)] = e /\ s # <<>>
  <1>1. DOMAIN s = {1, 2, 3, 4, 5} /\ s[1] = a /\ s[2] = b /\ s[3] = c /\ s[4] = d /\ s[5] = e
    OBVIOUS
  <1>2. ToSet(s) = {a, b, c, d, e}
    BY <1>1 DEF ToSet
  <1> QED BY <1>1, <1>2

\* Longer lists.
LEMMA Join1 ==
    ASSUME NEW a, NEW b
    PROVE  <<a>> \o <<b>> = <<a, b>>
  <1> DEFINE X == {a, b}  s == <<a>>  r == <<b>>
  <1>1. s \in Seq(X) /\ r \in Seq(X) /\ <<a, b>> \in Seq(X) /\ Len(s) = 1 /\ Len(r) = 1
    OBVIOUS
  <1>2. /\ s \o r \in Seq(X) /\ Len(s \o r) = 2
        /\ \A i \in 1..2 : (s \o r)[i] = IF i <= 1 THEN s[i] ELSE r[i - 1]
    BY <1>1, ConcatProperties
  <1>3. (s \o r)[1] = a /\ (s \o r)[2] = b
    BY <1>2
  <1>4. Len(<<a, b>>) = 2 /\ <<a, b>>[1] = a /\ <<a, b>>[2] = b
    OBVIOUS
  <1>5. \A i \in 1..2 : (s \o r)[i] = <<a, b>>[i]
    BY <1>3, <1>4
  <1> HIDE DEF s, r
  <1> QED BY <1>1, <1>2, <1>4, <1>5, SeqEqual DEF s, r

\* Two lists of two steps are one of four.
LEMMA Join2 ==
    ASSUME NEW a, NEW b, NEW c, NEW d
    PROVE  <<a, b>> \o <<c, d>> = <<a, b, c, d>>
  <1> DEFINE X == {a, b, c, d}  s == <<a, b>>  r == <<c, d>>  q == <<a, b, c, d>>
  <1>1. s \in Seq(X) /\ r \in Seq(X) /\ q \in Seq(X) /\ Len(s) = 2 /\ Len(r) = 2
    OBVIOUS
  <1>2. /\ s \o r \in Seq(X) /\ Len(s \o r) = 4
        /\ \A i \in 1..4 : (s \o r)[i] = IF i <= 2 THEN s[i] ELSE r[i - 2]
    BY <1>1, ConcatProperties
  <1>3. (s \o r)[1] = a /\ (s \o r)[2] = b /\ (s \o r)[3] = c /\ (s \o r)[4] = d
    BY <1>2
  <1>4. Len(q) = 4 /\ q[1] = a /\ q[2] = b /\ q[3] = c /\ q[4] = d
    OBVIOUS
  <1>5. \A i \in 1..4 : (s \o r)[i] = q[i]
    BY <1>3, <1>4
  <1> HIDE DEF s, r, q
  <1>6. s \o r = q
    BY <1>1, <1>2, <1>4, <1>5, SeqEqual
  <1> QED BY <1>6 DEF s, r, q

\* NULL is no block, no two threads are one.
LEMMA NoneIs == None \notin Addrs /\ Static \notin Addrs /\ None # Static /\ None \notin Ids
  <1>1. Ids \subseteq Nat \X Nat
    BY BatchAssumption DEF Ids
  <1> QED BY <1>1, AddrAssumption

-----------------------------------------------------------------------------
(* What a call is in charge of and has to do.                              *)

TracingOf(k)  == {a \in Addrs : Tr(a) \in ToSet(k.todo)}
UntracedOf(k) == {a \in Addrs : /\ k.op \in {"free", "freeaddrinfo"} /\ k.old = a
                                /\ Un(a) \notin ToSet(k.todo)
                                /\ \E d \in {1, 2} : Step("dealloc", a, d) \in ToSet(k.todo)}
StaleOf(k)    == {a \in Addrs : /\ k.op \in {"realloc", "getline"} /\ k.new # a
                                /\ Un(a) \in ToSet(k.todo)}
Has(k, own, tracing, untraced, stale) ==
    /\ Own(k) = own
    /\ TracingOf(k) = tracing /\ UntracedOf(k) = untraced /\ StaleOf(k) = stale

\* A call that neither frees nor traces.
LEMMA HasNothing ==
    ASSUME NEW k, NoBlock(k),
           BeforeLock(k) \/ InInit(k) \/ Asking(k) \/ k = Idle \/ k = [Idle EXCEPT !.op = "exit"]
    PROVE  Has(k, None, {}, {}, {})
  <1>1. ASSUME k.todo = <<>> \/ k.todo[Len(k.todo)] = Al,
               \A s \in ToSet(k.todo) : s \in {Touch, Initial, Static1, Al}
        PROVE  Has(k, None, {}, {}, {})
    <2>1. \A s \in ToSet(k.todo) : s.do \in {"touch", "init", "static", "alloc"}
      BY <1>1, StepIs DEF Touch, Initial, Static1, Al
    <2>2. TracingOf(k) = {} /\ StaleOf(k) = {} /\ UntracedOf(k) = {}
      BY <2>1, StepIs DEF TracingOf, UntracedOf, StaleOf, Tr, Un
    <2>3. ~GivesBack(k)
      BY <1>1, StepIs DEF GivesBack, Al
    <2> QED BY <2>2, <2>3 DEF Has, Own, NoBlock
  <1>2. CASE BeforeLock(k)
    <2>1. k.todo = <<Touch, Al>>
      BY <1>2 DEF BeforeLock
    <2>2. ToSet(k.todo) = {Touch, Al} /\ k.todo[Len(k.todo)] = Al
      BY <2>1, List2
    <2> QED BY <1>1, <2>2
  <1>3. CASE InInit(k)
    <2>1. CASE k.todo = <<Initial, Al>>
      <3>1. ToSet(k.todo) = {Initial, Al} /\ k.todo[Len(k.todo)] = Al
        BY <2>1, List2
      <3> QED BY <1>1, <3>1
    <2>2. CASE k.todo = <<Touch, Static1, Initial, Al>>
      <3>1. ToSet(k.todo) = {Touch, Static1, Initial, Al} /\ k.todo[Len(k.todo)] = Al
        BY <2>2, List4
      <3> QED BY <1>1, <3>1
    <2>3. CASE k.todo = <<Static1, Initial, Al>>
      <3>1. ToSet(k.todo) = {Static1, Initial, Al} /\ k.todo[Len(k.todo)] = Al
        BY <2>3, List3
      <3> QED BY <1>1, <3>1
    <2> QED BY <1>3, <2>1, <2>2, <2>3 DEF InInit
  <1>4. CASE Asking(k)
    BY <1>1, <1>4, List1 DEF Asking
  <1>5. CASE k = Idle \/ k = [Idle EXCEPT !.op = "exit"]
    <2>1. k.todo = <<>>
      BY <1>5 DEF Idle
    <2> QED BY <1>1, <2>1, List0
  <1> QED BY <1>2, <1>3, <1>4, <1>5

\* A call whose work is done.
LEMMA HasDone ==
    ASSUME NEW k, Finished(k)
    PROVE  Has(k, k.new, {}, {}, {})
  <1>1. k.todo = <<>> /\ ToSet(k.todo) = {}
    BY List0 DEF Finished
  <1>2. Own(k) = k.new
    BY <1>1 DEF Own, GivesBack
  <1> QED BY <1>1, <1>2 DEF Has, TracingOf, UntracedOf, StaleOf

\* A call that has got a block.
LEMMA HasGot ==
    ASSUME NEW k, Got(k)
    PROVE  Has(k, k.new, {k.new}, {}, {})
  <1>1. k.new \in Addrs /\ k.op \in AllocOps /\ Own(k) = k.new
    BY NoneIs DEF Got, Own
  <1>2. Tr(k.new) \in ToSet(k.todo) /\ \A s \in ToSet(k.todo) : s = Tr(k.new) \/ s.depth = 2
    <2>1. CASE k.todo = <<Tr(k.new)>>
      BY <2>1, List1
    <2>2. CASE k.todo = <<TrIn(k.new), Tr(k.new)>>
      <3>1. ToSet(k.todo) = {TrIn(k.new), Tr(k.new)}
        BY <2>2, List2
      <3> QED BY <3>1, StepIs DEF TrIn
    <2>3. ASSUME NEW b \in Addrs, k.todo = <<TrIn(k.new), TrIn(b), Tr(k.new)>>
          PROVE  Tr(k.new) \in ToSet(k.todo) /\ \A s \in ToSet(k.todo) : s = Tr(k.new) \/ s.depth = 2
      <3>1. ToSet(k.todo) = {TrIn(k.new), TrIn(b), Tr(k.new)}
        BY <2>3, List3
      <3> QED BY <3>1, StepIs DEF TrIn
    <2>4. ASSUME NEW b \in Addrs, k.todo = <<TrIn(b), Tr(k.new)>>
          PROVE  Tr(k.new) \in ToSet(k.todo) /\ \A s \in ToSet(k.todo) : s = Tr(k.new) \/ s.depth = 2
      <3>1. ToSet(k.todo) = {TrIn(b), Tr(k.new)}
        BY <2>4, List2
      <3> QED BY <3>1, StepIs DEF TrIn
    <2> QED BY <2>1, <2>2, <2>3, <2>4 DEF Got
  <1>3. TracingOf(k) = {k.new}
    BY <1>1, <1>2, StepIs DEF TracingOf, Tr
  <1>4. UntracedOf(k) = {}
    BY <1>1 DEF UntracedOf, AllocOps
  <1>5. StaleOf(k) = {}
    BY <1>2, StepIs DEF StaleOf, Un, Tr
  <1> QED BY <1>1, <1>3, <1>4, <1>5 DEF Has

\* A call that is about to change a block with libc's realloc.
LEMMA HasResize ==
    ASSUME NEW k, NEW T, Resizing(k, T)
    PROVE  Has(k, k.old, {}, {}, {})
  <1>1. ToSet(k.todo) = {Step("resize", k.old, 1)} /\ k.todo[Len(k.todo)] = Step("resize", k.old, 1)
        /\ k.todo # <<>> /\ k.new = None /\ k.op \in {"realloc", "getline"}
    BY List1 DEF Resizing
  <1>2. GivesBack(k)
    BY <1>1, StepIs DEF GivesBack
  <1> QED BY <1>1, <1>2, StepIs DEF Has, Own, TracingOf, UntracedOf, StaleOf, Tr, Un

\* A call whose realloc has moved the block.
LEMMA HasMovedHas ==
    ASSUME NEW k, HasMoved(k)
    PROVE  Has(k, k.new, {k.new}, {}, {k.old})
  <1>1. /\ k.new \in Addrs /\ k.old \in Addrs /\ k.op \in {"realloc", "getline"} /\ Own(k) = k.new
        /\ k.old # k.new
    BY NoneIs DEF HasMoved, Own
  <1>2. /\ Tr(k.new) \in ToSet(k.todo) /\ Un(k.old) \in ToSet(k.todo)
        /\ \A s \in ToSet(k.todo) : s = Tr(k.new) \/ s = Un(k.old) \/ s.depth = 2
    <2>1. CASE k.todo = <<Un(k.old), Tr(k.new)>>
      <3>1. ToSet(k.todo) = {Un(k.old), Tr(k.new)}
        BY <2>1, List2
      <3> QED BY <3>1
    <2>2. CASE k.todo = <<TrIn(k.new), Un(k.old), Tr(k.new)>>
      <3>1. ToSet(k.todo) = {TrIn(k.new), Un(k.old), Tr(k.new)}
        BY <2>2, List3
      <3> QED BY <3>1, StepIs DEF TrIn
    <2>3. CASE k.todo = <<UnIn(k.old), TrIn(k.new), Un(k.old), Tr(k.new)>>
      <3>1. ToSet(k.todo) = {UnIn(k.old), TrIn(k.new), Un(k.old), Tr(k.new)}
        BY <2>3, List4
      <3> QED BY <3>1, StepIs DEF TrIn, UnIn
    <2> QED BY <2>1, <2>2, <2>3 DEF HasMoved
  <1>3. TracingOf(k) = {k.new}
    BY <1>1, <1>2, StepIs DEF TracingOf, Tr, Un
  <1>4. UntracedOf(k) = {}
    BY <1>1 DEF UntracedOf
  <1>5. StaleOf(k) = {k.old}
    BY <1>1, <1>2, StepIs DEF StaleOf, Un, Tr
  <1> QED BY <1>1, <1>3, <1>4, <1>5 DEF Has

\* A call whose realloc has freed the block.
LEMMA HasEmptied ==
    ASSUME NEW k, Emptied(k)
    PROVE  Has(k, None, {}, {}, {k.old})
  <1>1. ToSet(k.todo) = {Un(k.old)} /\ k.todo[Len(k.todo)] = Un(k.old) /\ k.new = None
        /\ k.op = "realloc" /\ k.old \in Addrs
    BY List1 DEF Emptied
  <1>2. ~GivesBack(k)
    BY <1>1, StepIs DEF GivesBack, Un
  <1> QED BY <1>1, <1>2, NoneIs, StepIs DEF Has, Own, TracingOf, UntracedOf, StaleOf, Tr, Un

\* A call whose realloc has failed: the block is still in use.
LEMMA HasRefused ==
    ASSUME NEW k, Refused(k)
    PROVE  Has(k, k.old, {}, {}, {})
  <1>1. ToSet(k.todo) = {Un(k.old)} /\ k.new = k.old /\ k.op = "realloc" /\ k.old \in Addrs
    BY List1 DEF Refused
  <1>2. Own(k) = k.old
    BY <1>1, NoneIs DEF Own
  <1> QED BY <1>1, <1>2, StepIs DEF Has, TracingOf, UntracedOf, StaleOf, Tr, Un

\* A call that frees a block, in its last step z.
Frees(k, z) ==
    /\ k.op \in {"free", "freeaddrinfo"} /\ k.old \in Addrs /\ k.new = None /\ k.todo # <<>>
    /\ z = Step("dealloc", k.old, 1) \/ z = Step("dealloc", k.old, 2)
    /\ k.todo[Len(k.todo)] = z /\ z \in ToSet(k.todo) /\ \A a : Tr(a) \notin ToSet(k.todo)

\* What a call that frees the old block holds: one block too many once it is untraced.
LEMMA HasFree ==
    ASSUME NEW k, NEW z, Frees(k, z)
    PROVE  /\ Un(k.old) \in ToSet(k.todo) => Has(k, k.old, {}, {}, {})
           /\ Un(k.old) \notin ToSet(k.todo) => Has(k, k.old, {}, {k.old}, {})
  <1>1. GivesBack(k) /\ Own(k) = k.old
    BY StepIs DEF GivesBack, Own, Frees
  <1>2. TracingOf(k) = {} /\ StaleOf(k) = {}
    BY DEF TracingOf, StaleOf, Frees
  <1>3. UntracedOf(k) = IF Un(k.old) \in ToSet(k.todo) THEN {} ELSE {k.old}
    BY DEF UntracedOf, Frees
  <1> QED BY <1>1, <1>2, <1>3 DEF Has

\* The same for a call on its way to free a block.
LEMMA HasFreeing ==
    ASSUME NEW k, NEW T, Freeing(k, T)
    PROVE  /\ k.todo = <<Step("dealloc", k.old, 1)>> => Has(k, k.old, {}, {k.old}, {})
           /\ ~(k.todo = <<Step("dealloc", k.old, 1)>>) => Has(k, k.old, {}, {}, {})
  <1>0. k.op \in {"free", "freeaddrinfo"} /\ k.old \in Addrs /\ k.new = None /\ 1 \in {1, 2}
    BY DEF Freeing
  <1>1. CASE k.todo = <<Un(k.old), Step("dealloc", k.old, 1)>>
    <2>1. /\ ToSet(k.todo) = {Un(k.old), Step("dealloc", k.old, 1)} /\ k.todo # <<>>
          /\ k.todo[Len(k.todo)] = Step("dealloc", k.old, 1) /\ Len(k.todo) = 2
      BY <1>1, List2
    <2>2. k.todo # <<Step("dealloc", k.old, 1)>>
      BY <2>1
    <2>3. \A a : Tr(a) \notin ToSet(k.todo)
      BY <2>1, StepIs DEF Tr, Un
    <2>9. Frees(k, Step("dealloc", k.old, 1))
      BY <1>0, <2>1, <2>2, <2>3 DEF Frees
    <2> QED BY <1>0, <2>1, <2>2, <2>3, <2>9, HasFree
  <1>2. CASE k.todo = <<Step("dealloc", k.old, 1)>>
    <2>1. /\ ToSet(k.todo) = {Step("dealloc", k.old, 1)} /\ k.todo # <<>>
          /\ k.todo[Len(k.todo)] = Step("dealloc", k.old, 1)
      BY <1>2, List1
    <2>2. (\A a : Tr(a) \notin ToSet(k.todo)) /\ Un(k.old) \notin ToSet(k.todo)
      BY <2>1, StepIs DEF Tr, Un
    <2>9. Frees(k, Step("dealloc", k.old, 1))
      BY <1>0, <1>2, <2>1, <2>2 DEF Frees
    <2> QED BY <1>0, <1>2, <2>1, <2>2, <2>9, HasFree
  <1> QED BY <1>1, <1>2 DEF Freeing

\* The same for freeaddrinfo before the tail is freed.
LEMMA HasFreeingTail ==
    ASSUME NEW k, NEW T, FreeingTail(k, T)
    PROVE  /\ Head(k.todo) = Un(k.old) => Has(k, k.old, {}, {}, {})
           /\ ~(Head(k.todo) = Un(k.old)) => Has(k, k.old, {}, {k.old}, {})
  <1> DEFINE b == T[k.old]  z == Step("dealloc", k.old, 2)
  <1>0. k.op \in {"free", "freeaddrinfo"} /\ k.old \in Addrs /\ k.new = None /\ 2 \in {1, 2}
    BY DEF FreeingTail
  <1>1. CASE k.todo = <<Un(k.old), UnIn(b), Step("dealloc", b, 2), UnIn(k.old), z>>
    <2>1. /\ ToSet(k.todo) = {Un(k.old), UnIn(b), Step("dealloc", b, 2), UnIn(k.old), z} /\ k.todo # <<>>
          /\ k.todo[Len(k.todo)] = z /\ Head(k.todo) = Un(k.old)
      BY <1>1, List5
    <2>3. \A a : Tr(a) \notin ToSet(k.todo)
      BY <2>1, StepIs DEF Tr, Un, UnIn
    <2>9. Frees(k, z)
      BY <1>0, <2>1, <2>3 DEF Frees
    <2> QED BY <1>0, <2>1, <2>3, <2>9, HasFree
  <1>2. CASE k.todo = <<UnIn(b), Step("dealloc", b, 2), UnIn(k.old), z>>
    <2>1. /\ ToSet(k.todo) = {UnIn(b), Step("dealloc", b, 2), UnIn(k.old), z} /\ k.todo # <<>>
          /\ k.todo[Len(k.todo)] = z /\ Head(k.todo) = UnIn(b)
      BY <1>2, List4
    <2>3. /\ \A a : Tr(a) \notin ToSet(k.todo)
          /\ Un(k.old) \notin ToSet(k.todo) /\ Head(k.todo) # Un(k.old)
      BY <2>1, StepIs DEF Tr, Un, UnIn
    <2>9. Frees(k, z)
      BY <1>0, <2>1, <2>3 DEF Frees
    <2> QED BY <1>0, <2>1, <2>3, <2>9, HasFree
  <1>3. CASE k.todo = <<Step("dealloc", b, 2), UnIn(k.old), z>>
    <2>1. /\ ToSet(k.todo) = {Step("dealloc", b, 2), UnIn(k.old), z} /\ k.todo # <<>>
          /\ k.todo[Len(k.todo)] = z /\ Head(k.todo) = Step("dealloc", b, 2)
      BY <1>3, List3
    <2>3. /\ \A a : Tr(a) \notin ToSet(k.todo)
          /\ Un(k.old) \notin ToSet(k.todo) /\ Head(k.todo) # Un(k.old)
      BY <2>1, StepIs DEF Tr, Un, UnIn
    <2>9. Frees(k, z)
      BY <1>0, <2>1, <2>3 DEF Frees
    <2> QED BY <1>0, <2>1, <2>3, <2>9, HasFree
  <1> QED BY <1>1, <1>2, <1>3 DEF FreeingTail

\* freeaddrinfo has untraced the head and not freed it yet.
LEMMA HasFreeingHead ==
    ASSUME NEW k, NEW T, FreeingHead(k, T)
    PROVE  Has(k, k.old, {}, {k.old}, {})
  <1> DEFINE z == Step("dealloc", k.old, 2)
  <1>0. k.op \in {"free", "freeaddrinfo"} /\ k.old \in Addrs /\ k.new = None /\ 2 \in {1, 2}
    BY DEF FreeingHead
  <1>1. CASE k.todo = <<UnIn(k.old), z>>
    <2>1. ToSet(k.todo) = {UnIn(k.old), z} /\ k.todo # <<>> /\ k.todo[Len(k.todo)] = z
      BY <1>1, List2
    <2>3. (\A a : Tr(a) \notin ToSet(k.todo)) /\ Un(k.old) \notin ToSet(k.todo)
      BY <2>1, StepIs DEF Tr, Un, UnIn
    <2>9. Frees(k, z)
      BY <1>0, <2>1, <2>3 DEF Frees
    <2> QED BY <1>0, <2>1, <2>3, <2>9, HasFree
  <1>2. CASE k.todo = <<z>>
    <2>1. ToSet(k.todo) = {z} /\ k.todo # <<>> /\ k.todo[Len(k.todo)] = z
      BY <1>2, List1
    <2>3. (\A a : Tr(a) \notin ToSet(k.todo)) /\ Un(k.old) \notin ToSet(k.todo)
      BY <2>1, StepIs DEF Tr, Un, UnIn
    <2>9. Frees(k, z)
      BY <1>0, <2>1, <2>3 DEF Frees
    <2> QED BY <1>0, <2>1, <2>3, <2>9, HasFree
  <1> QED BY <1>1, <1>2 DEF FreeingHead

-----------------------------------------------------------------------------
(* The next step of a call.                                                *)

HeadDo(k) == Head(k.todo).do

\* Who is in front of libc or of the initialisation.
LEMMA HeadsBefore ==
    ASSUME NEW k
    PROVE  /\ BeforeLock(k) => HeadDo(k) = "touch"
           /\ InInit(k) => \/ HeadDo(k) = "init" /\ k.todo = <<Initial, Al>>
                           \/ HeadDo(k) = "touch" /\ k.todo = <<Touch, Static1, Initial, Al>>
                           \/ HeadDo(k) = "static" /\ k.todo = <<Static1, Initial, Al>>
           /\ Asking(k) => HeadDo(k) = "alloc"
  <1>1. ASSUME BeforeLock(k) PROVE HeadDo(k) = "touch"
    <2>1. k.todo = <<Touch, Al>>
      BY <1>1 DEF BeforeLock
    <2>2. Head(k.todo) = Touch
      BY <2>1, List2
    <2> QED BY <2>2, StepIs DEF HeadDo, Touch
  <1>2. ASSUME k.todo = <<Initial, Al>> PROVE HeadDo(k) = "init"
    <2>1. Head(k.todo) = Initial
      BY <1>2, List2
    <2> QED BY <2>1, StepIs DEF HeadDo, Initial
  <1>3. ASSUME k.todo = <<Touch, Static1, Initial, Al>> PROVE HeadDo(k) = "touch"
    <2>1. Head(k.todo) = Touch
      BY <1>3, List4
    <2> QED BY <2>1, StepIs DEF HeadDo, Touch
  <1>4. ASSUME k.todo = <<Static1, Initial, Al>> PROVE HeadDo(k) = "static"
    <2>1. Head(k.todo) = Static1
      BY <1>4, List3
    <2> QED BY <2>1, StepIs DEF HeadDo, Static1
  <1>5. ASSUME Asking(k) PROVE HeadDo(k) = "alloc"
    <2>1. k.todo = <<Al>>
      BY <1>5 DEF Asking
    <2>2. Head(k.todo) = Al
      BY <2>1, List1
    <2> QED BY <2>2, StepIs DEF HeadDo, Al
  <1>6. ASSUME InInit(k)
        PROVE  \/ HeadDo(k) = "init" /\ k.todo = <<Initial, Al>>
               \/ HeadDo(k) = "touch" /\ k.todo = <<Touch, Static1, Initial, Al>>
               \/ HeadDo(k) = "static" /\ k.todo = <<Static1, Initial, Al>>
    <2>1. \/ k.todo = <<Initial, Al>> \/ k.todo = <<Touch, Static1, Initial, Al>>
          \/ k.todo = <<Static1, Initial, Al>>
      BY <1>6 DEF InInit
    <2> QED BY <1>2, <1>3, <1>4, <2>1
  <1> QED BY <1>1, <1>5, <1>6

\* Who traces.
LEMMA HeadsTracing ==
    ASSUME NEW k
    PROVE  /\ Got(k) => HeadDo(k) = "trace"
           /\ HasMoved(k) => HeadDo(k) \in {"trace", "untrace"}
  <1>1. ASSUME Got(k) PROVE HeadDo(k) = "trace"
    <2>1. \E a : Head(k.todo) = Tr(a) \/ Head(k.todo) = TrIn(a)
      BY <1>1, List1, List2, List3 DEF Got
    <2> QED BY <2>1, StepIs DEF HeadDo, Tr, TrIn
  <1>2. ASSUME HasMoved(k) PROVE HeadDo(k) \in {"trace", "untrace"}
    <2>1. \/ Head(k.todo) = Un(k.old) \/ Head(k.todo) = TrIn(k.new) \/ Head(k.todo) = UnIn(k.old)
      <3>1. CASE k.todo = <<Un(k.old), Tr(k.new)>>
        BY <3>1, List2
      <3>2. CASE k.todo = <<TrIn(k.new), Un(k.old), Tr(k.new)>>
        BY <3>2, List3
      <3>3. CASE k.todo = <<UnIn(k.old), TrIn(k.new), Un(k.old), Tr(k.new)>>
        BY <3>3, List4
      <3> QED BY <1>2, <3>1, <3>2, <3>3 DEF HasMoved
    <2> QED BY <2>1, StepIs DEF HeadDo, Un, UnIn, TrIn
  <1> QED BY <1>1, <1>2

\* Who resizes or frees.
LEMMA HeadsFreeing ==
    ASSUME NEW k, NEW T
    PROVE  /\ Resizing(k, T) => HeadDo(k) = "resize"
           /\ Emptied(k) \/ Refused(k) => HeadDo(k) = "untrace"
           /\ Freeing(k, T) => \/ HeadDo(k) = "untrace" /\ Head(k.todo) = Un(k.old)
                                  /\ k.todo = <<Un(k.old), Step("dealloc", k.old, 1)>>
                               \/ HeadDo(k) = "dealloc" /\ Head(k.todo).mem = k.old
                                  /\ k.todo = <<Step("dealloc", k.old, 1)>>
           /\ FreeingTail(k, T) => \/ HeadDo(k) = "untrace"
                                   \/ /\ HeadDo(k) = "dealloc" /\ Head(k.todo).mem = T[k.old]
                                      /\ Head(k.todo) # Un(k.old)
                                      /\ k.todo = <<Step("dealloc", T[k.old], 2), UnIn(k.old),
                                                    Step("dealloc", k.old, 2)>>
           /\ FreeingHead(k, T) => \/ HeadDo(k) = "untrace"
                                   \/ HeadDo(k) = "dealloc" /\ Head(k.todo).mem = k.old
                                      /\ k.todo = <<Step("dealloc", k.old, 2)>>
  <1>1. ASSUME Resizing(k, T) PROVE HeadDo(k) = "resize"
    <2>1. Head(k.todo) = Step("resize", k.old, 1)
      BY <1>1, List1 DEF Resizing
    <2> QED BY <2>1, StepIs DEF HeadDo
  <1>2. ASSUME Emptied(k) \/ Refused(k) PROVE HeadDo(k) = "untrace"
    <2>1. Head(k.todo) = Un(k.old)
      BY <1>2, List1 DEF Emptied, Refused
    <2> QED BY <2>1, StepIs DEF HeadDo, Un
  <1>3. ASSUME Freeing(k, T)
        PROVE  \/ HeadDo(k) = "untrace" /\ Head(k.todo) = Un(k.old)
                  /\ k.todo = <<Un(k.old), Step("dealloc", k.old, 1)>>
               \/ HeadDo(k) = "dealloc" /\ Head(k.todo).mem = k.old
                  /\ k.todo = <<Step("dealloc", k.old, 1)>>
    <2>1. CASE k.todo = <<Un(k.old), Step("dealloc", k.old, 1)>>
      <3>1. Head(k.todo) = Un(k.old)
        BY <2>1, List2
      <3> QED BY <2>1, <3>1, StepIs DEF HeadDo, Un
    <2>2. CASE k.todo = <<Step("dealloc", k.old, 1)>>
      <3>1. Head(k.todo) = Step("dealloc", k.old, 1)
        BY <2>2, List1
      <3> QED BY <2>2, <3>1, StepIs DEF HeadDo
    <2> QED BY <1>3, <2>1, <2>2 DEF Freeing
  <1>4. ASSUME FreeingTail(k, T)
        PROVE  \/ HeadDo(k) = "untrace"
               \/ /\ HeadDo(k) = "dealloc" /\ Head(k.todo).mem = T[k.old]
                  /\ Head(k.todo) # Un(k.old)
                  /\ k.todo = <<Step("dealloc", T[k.old], 2), UnIn(k.old), Step("dealloc", k.old, 2)>>
    <2> DEFINE b == T[k.old]  z == Step("dealloc", k.old, 2)
    <2>1. CASE k.todo = <<Un(k.old), UnIn(b), Step("dealloc", b, 2), UnIn(k.old), z>>
      <3>1. Head(k.todo) = Un(k.old)
        BY <2>1, List5
      <3> QED BY <3>1, StepIs DEF HeadDo, Un
    <2>2. CASE k.todo = <<UnIn(b), Step("dealloc", b, 2), UnIn(k.old), z>>
      <3>1. Head(k.todo) = UnIn(b)
        BY <2>2, List4
      <3> QED BY <3>1, StepIs DEF HeadDo, UnIn
    <2>3. CASE k.todo = <<Step("dealloc", b, 2), UnIn(k.old), z>>
      <3>1. Head(k.todo) = Step("dealloc", b, 2)
        BY <2>3, List3
      <3> QED BY <2>3, <3>1, StepIs DEF HeadDo, Un
    <2> QED BY <1>4, <2>1, <2>2, <2>3 DEF FreeingTail
  <1>5. ASSUME FreeingHead(k, T)
        PROVE  \/ HeadDo(k) = "untrace"
               \/ HeadDo(k) = "dealloc" /\ Head(k.todo).mem = k.old
                  /\ k.todo = <<Step("dealloc", k.old, 2)>>
    <2>1. CASE k.todo = <<UnIn(k.old), Step("dealloc", k.old, 2)>>
      <3>1. Head(k.todo) = UnIn(k.old)
        BY <2>1, List2
      <3> QED BY <3>1, StepIs DEF HeadDo, UnIn
    <2>2. CASE k.todo = <<Step("dealloc", k.old, 2)>>
      <3>1. Head(k.todo) = Step("dealloc", k.old, 2)
        BY <2>2, List1
      <3> QED BY <2>2, <3>1, StepIs DEF HeadDo
    <2> QED BY <1>5, <2>1, <2>2 DEF FreeingHead
  <1> QED BY <1>1, <1>2, <1>3, <1>4, <1>5

\* What a call is when its next step is known.
LEMMA KindIs ==
    ASSUME NEW k, NEW T, CallOK(k, T), k.todo # <<>>
    PROVE  /\ HeadDo(k) = "touch" => BeforeLock(k) \/ InInit(k)
           /\ HeadDo(k) \in {"init", "static"} => InInit(k)
           /\ HeadDo(k) = "alloc" => Asking(k)
           /\ HeadDo(k) = "resize" => Resizing(k, T)
           /\ HeadDo(k) = "trace" => Got(k) \/ HasMoved(k)
           /\ HeadDo(k) = "untrace" => \/ HasMoved(k) \/ Emptied(k) \/ Refused(k) \/ Freeing(k, T)
                                       \/ FreeingTail(k, T) \/ FreeingHead(k, T)
           /\ HeadDo(k) = "dealloc" => Freeing(k, T) \/ FreeingTail(k, T) \/ FreeingHead(k, T)
  <1>1. ~Resting(k) /\ ~Finished(k)
    BY DEF Resting, Finished, Idle
  <1> QED BY <1>1, HeadsBefore, HeadsTracing, HeadsFreeing DEF CallOK

-----------------------------------------------------------------------------
(* A step of tracing.                                                      *)

\* A call k that goes on with the rest of its steps.
Rest(k) == [k EXCEPT !.todo = Tail(@)]

\* A call after its next step.
LEMMA RestIs ==
    ASSUME NEW k, NEW T, CallOK(k, T)
    PROVE  /\ DOMAIN Rest(k) = CallFields /\ Rest(k).op = k.op /\ Rest(k).old = k.old
           /\ Rest(k).new = k.new /\ Rest(k).todo = Tail(k.todo)
  BY DEF Rest, CallOK, CallFields

\* Tracing concerns the new block, untracing the old one; only the steps at the
\* outermost depth count.
TraceStep(k, k2) ==
    /\ k.new \in Addrs /\ Own(k) = k.new
    /\ UntracedOf(k2) = UntracedOf(k) /\ StaleOf(k2) = StaleOf(k)
    /\ \/ Head(k.todo).depth = 2 /\ TracingOf(k2) = TracingOf(k)
       \/ Head(k.todo) = Tr(k.new) /\ TracingOf(k) = {k.new} /\ TracingOf(k2) = {}
UntraceStep(k, k2) ==
    /\ k.old \in Addrs /\ TracingOf(k2) = TracingOf(k)
    /\ \/ Head(k.todo).depth = 2 /\ UntracedOf(k2) = UntracedOf(k) /\ StaleOf(k2) = StaleOf(k)
       \/ /\ Head(k.todo) = Un(k.old) /\ StaleOf(k) = {k.old} /\ StaleOf(k2) = {}
          /\ UntracedOf(k2) = UntracedOf(k) /\ k.new # k.old
       \/ /\ Head(k.todo) = Un(k.old) /\ UntracedOf(k) = {} /\ UntracedOf(k2) = {k.old}
          /\ StaleOf(k2) = StaleOf(k) /\ Own(k) = k.old /\ k.new # k.old
       \/ /\ Head(k.todo) = Un(k.old) /\ UntracedOf(k2) = UntracedOf(k) /\ StaleOf(k2) = StaleOf(k)
          /\ UntracedOf(k) = {} /\ StaleOf(k) = {} /\ TracingOf(k) = {} /\ Own(k) = k.old /\ Refused(k)
GoesOn(k, k2, T) == CallOK(k2, T) /\ Own(k2) = Own(k) /\ (TraceStep(k, k2) \/ UntraceStep(k, k2))

\* A call that has a new block goes on.
LEMMA GotGoesOn ==
    ASSUME NEW k, NEW T, CallOK(k, T), Got(k)
    PROVE  GoesOn(k, Rest(k), T)
  <1> DEFINE k2 == Rest(k)
  <1>1. /\ DOMAIN k2 = CallFields /\ k2.op = k.op /\ k2.old = k.old /\ k2.new = k.new
        /\ k2.todo = Tail(k.todo) /\ k.new \in Addrs
    BY RestIs DEF Got
  <1> SUFFICES GoesOn(k, k2, T)
    OBVIOUS
  <1> HIDE DEF k2
  <1>2. Has(k, k.new, {k.new}, {}, {})
    BY HasGot
  <1>3. ASSUME k.todo = <<Tr(k.new)>> PROVE GoesOn(k, k2, T)
    <2>1. Head(k.todo) = Tr(k.new) /\ k2.todo = <<>>
      BY <1>1, <1>3, List1
    <2>2. Finished(k2)
      BY <1>1, <2>1 DEF Finished, Got, Blocks, AllocOps
    <2>3. Has(k2, k.new, {}, {}, {})
      BY <1>1, <2>2, HasDone
    <2> QED BY <1>1, <1>2, <2>1, <2>2, <2>3 DEF Has, GoesOn, TraceStep, CallOK
  <1>4. ASSUME Got(k2), Head(k.todo).depth = 2 PROVE GoesOn(k, k2, T)
    <2>1. Has(k2, k.new, {k.new}, {}, {})
      BY <1>1, <1>4, HasGot
    <2> QED BY <1>1, <1>2, <1>4, <2>1 DEF Has, GoesOn, TraceStep, CallOK
  <1>5. CASE k.todo = <<TrIn(k.new), Tr(k.new)>>
    <2>1. Head(k.todo) = TrIn(k.new) /\ k2.todo = <<Tr(k.new)>>
      BY <1>1, <1>5, List2
    <2>2. Got(k2)
      BY <1>1, <2>1 DEF Got
    <2>3. Head(k.todo).depth = 2
      BY <2>1, StepIs DEF TrIn
    <2> QED BY <1>4, <2>2, <2>3
  <1>6. ASSUME NEW b \in Addrs, k.todo = <<TrIn(k.new), TrIn(b), Tr(k.new)>> PROVE GoesOn(k, k2, T)
    <2>1. Head(k.todo) = TrIn(k.new) /\ k2.todo = <<TrIn(b), Tr(k2.new)>>
      BY <1>1, <1>6, List3
    <2>2. Got(k2)
      BY <1>1, <2>1 DEF Got
    <2>3. Head(k.todo).depth = 2
      BY <2>1, StepIs DEF TrIn
    <2> QED BY <1>4, <2>2, <2>3
  <1>7. ASSUME NEW b \in Addrs, k.todo = <<TrIn(b), Tr(k.new)>> PROVE GoesOn(k, k2, T)
    <2>1. Head(k.todo) = TrIn(b) /\ k2.todo = <<Tr(k.new)>>
      BY <1>1, <1>7, List2
    <2>2. Got(k2)
      BY <1>1, <2>1 DEF Got
    <2>3. Head(k.todo).depth = 2
      BY <2>1, StepIs DEF TrIn
    <2> QED BY <1>4, <2>2, <2>3
  <1> QED BY <1>3, <1>5, <1>6, <1>7 DEF Got

\* A realloc that moved the block goes on.
LEMMA MovedGoesOn ==
    ASSUME NEW k, NEW T, CallOK(k, T), HasMoved(k)
    PROVE  GoesOn(k, Rest(k), T)
  <1> DEFINE k2 == Rest(k)
  <1>1. /\ DOMAIN k2 = CallFields /\ k2.op = k.op /\ k2.old = k.old /\ k2.new = k.new
        /\ k2.todo = Tail(k.todo) /\ k.new \in Addrs /\ k.old \in Addrs /\ k.new # k.old
    BY RestIs DEF HasMoved
  <1> SUFFICES GoesOn(k, k2, T)
    OBVIOUS
  <1> HIDE DEF k2
  <1>2. Has(k, k.new, {k.new}, {}, {k.old})
    BY HasMovedHas
  <1>3. CASE k.todo = <<Un(k.old), Tr(k.new)>>
    <2>1. Head(k.todo) = Un(k.old) /\ k2.todo = <<Tr(k.new)>>
      BY <1>1, <1>3, List2
    <2>2. Got(k2)
      BY <1>1, <2>1 DEF Got, HasMoved, AllocOps, Ops, Blocks
    <2>3. Has(k2, k.new, {k.new}, {}, {})
      BY <1>1, <2>2, HasGot
    <2> QED BY <1>1, <1>2, <2>1, <2>2, <2>3 DEF Has, GoesOn, UntraceStep, CallOK
  <1>4. CASE k.todo = <<TrIn(k.new), Un(k.old), Tr(k.new)>>
    <2>1. Head(k.todo) = TrIn(k.new) /\ k2.todo = <<Un(k.old), Tr(k.new)>>
      BY <1>1, <1>4, List3
    <2>2. HasMoved(k2)
      BY <1>1, <2>1 DEF HasMoved
    <2>3. Has(k2, k.new, {k.new}, {}, {k.old})
      BY <1>1, <2>2, HasMovedHas
    <2> QED BY <1>1, <1>2, <2>1, <2>2, <2>3, StepIs DEF Has, GoesOn, TraceStep, CallOK, TrIn
  <1>5. CASE k.todo = <<UnIn(k.old), TrIn(k.new), Un(k.old), Tr(k.new)>>
    <2>1. Head(k.todo) = UnIn(k.old) /\ k2.todo = <<TrIn(k.new), Un(k.old), Tr(k.new)>>
      BY <1>1, <1>5, List4
    <2>2. HasMoved(k2)
      BY <1>1, <2>1 DEF HasMoved
    <2>3. Has(k2, k.new, {k.new}, {}, {k.old})
      BY <1>1, <2>2, HasMovedHas
    <2> QED BY <1>1, <1>2, <2>1, <2>2, <2>3, StepIs DEF Has, GoesOn, UntraceStep, CallOK, UnIn
  <1> QED BY <1>3, <1>4, <1>5 DEF HasMoved

\* A call that has freed its block goes on.
LEMMA EmptiedGoesOn ==
    ASSUME NEW k, NEW T, CallOK(k, T), Emptied(k)
    PROVE  GoesOn(k, Rest(k), T)
  <1> DEFINE k2 == Rest(k)
  <1>1. /\ DOMAIN k2 = CallFields /\ k2.op = k.op /\ k2.old = k.old /\ k2.new = k.new
        /\ k2.todo = Tail(k.todo) /\ k.new = None /\ k.old \in Addrs /\ k.new # k.old
    BY RestIs, NoneIs DEF Emptied
  <1> SUFFICES GoesOn(k, k2, T)
    OBVIOUS
  <1> HIDE DEF k2
  <1>2. Has(k, None, {}, {}, {k.old})
    BY HasEmptied
  <1>3. Head(k.todo) = Un(k.old) /\ k2.todo = <<>>
    BY <1>1, List1 DEF Emptied
  <1>4. Finished(k2)
    BY <1>1, <1>3 DEF Finished, Emptied, Ops, Blocks
  <1>5. Has(k2, None, {}, {}, {})
    BY <1>1, <1>4, HasDone
  <1> QED BY <1>1, <1>2, <1>3, <1>4, <1>5 DEF Has, GoesOn, UntraceStep, CallOK

\* A realloc that has failed goes on.
LEMMA RefusedGoesOn ==
    ASSUME NEW k, NEW T, CallOK(k, T), Refused(k)
    PROVE  GoesOn(k, Rest(k), T)
  <1> DEFINE k2 == Rest(k)
  <1>1. /\ DOMAIN k2 = CallFields /\ k2.op = k.op /\ k2.old = k.old /\ k2.new = k.new
        /\ k2.todo = Tail(k.todo) /\ k.new = k.old /\ k.old \in Addrs
    BY RestIs DEF Refused
  <1> SUFFICES GoesOn(k, k2, T)
    OBVIOUS
  <1> HIDE DEF k2
  <1>2. Has(k, k.old, {}, {}, {})
    BY HasRefused
  <1>3. Head(k.todo) = Un(k.old) /\ k2.todo = <<>>
    BY <1>1, List1 DEF Refused
  <1>4. Finished(k2)
    BY <1>1, <1>3 DEF Finished, Refused, Ops, Blocks
  <1>5. Has(k2, k.old, {}, {}, {})
    BY <1>1, <1>4, HasDone
  <1> QED BY <1>1, <1>2, <1>3, <1>4, <1>5 DEF Has, GoesOn, UntraceStep, CallOK

\* A call that untraces its block goes on.
LEMMA FreeingGoesOn ==
    ASSUME NEW k, NEW T, CallOK(k, T), HeadDo(k) = "untrace",
           Freeing(k, T) \/ FreeingTail(k, T) \/ FreeingHead(k, T)
    PROVE  GoesOn(k, Rest(k), T)
  <1> DEFINE k2 == Rest(k)
  <1>1. /\ DOMAIN k2 = CallFields /\ k2.op = k.op /\ k2.old = k.old /\ k2.new = k.new
        /\ k2.todo = Tail(k.todo) /\ k.new = None /\ k.old \in Addrs /\ k.new # k.old
    BY RestIs, NoneIs DEF Freeing, FreeingTail, FreeingHead
  <1> SUFFICES GoesOn(k, k2, T)
    OBVIOUS
  <1> HIDE DEF k2
  <1>2. ASSUME CallOK(k2, T), Has(k, k.old, {}, {}, {}), Has(k2, k.old, {}, {k.old}, {}),
               Head(k.todo) = Un(k.old)
        PROVE  GoesOn(k, k2, T)
    BY <1>1, <1>2 DEF Has, GoesOn, UntraceStep
  <1>3. ASSUME CallOK(k2, T), Has(k, k.old, {}, {k.old}, {}), Has(k2, k.old, {}, {k.old}, {}),
               NEW b, Head(k.todo) = UnIn(b)
        PROVE  GoesOn(k, k2, T)
    BY <1>1, <1>3, StepIs DEF Has, GoesOn, UntraceStep, UnIn
  <1>4. CASE Freeing(k, T)
    <2>1. k.todo = <<Un(k.old), Step("dealloc", k.old, 1)>>
      BY <1>4, HeadsFreeing
    <2>2. /\ Head(k.todo) = Un(k.old) /\ k2.todo = <<Step("dealloc", k.old, 1)>>
          /\ Len(k.todo) = 2
      BY <1>1, <2>1, List2
    <2>3. Freeing(k2, T)
      BY <1>1, <1>4, <2>2 DEF Freeing
    <2>4. k.todo # <<Step("dealloc", k.old, 1)>>
      BY <2>2
    <2>5. Has(k, k.old, {}, {}, {}) /\ Has(k2, k.old, {}, {k.old}, {})
      BY <1>1, <1>4, <2>2, <2>3, <2>4, HasFreeing
    <2>6. CallOK(k2, T)
      BY <1>1, <2>3 DEF CallOK
    <2> QED BY <1>2, <2>2, <2>5, <2>6
  <1>5. CASE FreeingTail(k, T)
    <2> DEFINE b == T[k.old]  z == Step("dealloc", k.old, 2)
    <2>1. CASE k.todo = <<Un(k.old), UnIn(b), Step("dealloc", b, 2), UnIn(k.old), z>>
      <3>1. /\ Head(k.todo) = Un(k.old) /\ k2.todo = <<UnIn(b), Step("dealloc", b, 2), UnIn(k.old), z>>
        BY <1>1, <2>1, List5
      <3>2. FreeingTail(k2, T)
        BY <1>1, <1>5, <3>1 DEF FreeingTail
      <3>3. Head(k2.todo) = UnIn(b)
        BY <3>1, List4
      <3>4. Head(k2.todo) # Un(k2.old)
        BY <3>3, StepIs DEF Un, UnIn
      <3>5. Has(k, k.old, {}, {}, {}) /\ Has(k2, k.old, {}, {k.old}, {})
        BY <1>1, <1>5, <3>1, <3>2, <3>4, HasFreeingTail
      <3>6. CallOK(k2, T)
        BY <1>1, <3>2 DEF CallOK
      <3> QED BY <1>2, <3>1, <3>5, <3>6
    <2>2. CASE k.todo = <<UnIn(b), Step("dealloc", b, 2), UnIn(k.old), z>>
      <3>1. /\ Head(k.todo) = UnIn(b) /\ k2.todo = <<Step("dealloc", b, 2), UnIn(k.old), z>>
        BY <1>1, <2>2, List4
      <3>2. FreeingTail(k2, T)
        BY <1>1, <1>5, <3>1 DEF FreeingTail
      <3>3. Head(k2.todo) = Step("dealloc", b, 2)
        BY <3>1, List3
      <3>4. Head(k2.todo) # Un(k2.old) /\ Head(k.todo) # Un(k.old)
        BY <3>1, <3>3, StepIs DEF Un, UnIn
      <3>5. Has(k, k.old, {}, {k.old}, {}) /\ Has(k2, k.old, {}, {k.old}, {})
        BY <1>1, <1>5, <3>1, <3>2, <3>4, HasFreeingTail
      <3>6. CallOK(k2, T)
        BY <1>1, <3>2 DEF CallOK
      <3> QED BY <1>3, <3>1, <3>5, <3>6
    <2>3. CASE k.todo = <<Step("dealloc", b, 2), UnIn(k.old), z>>
      <3>1. Head(k.todo) = Step("dealloc", b, 2)
        BY <2>3, List3
      <3> QED BY <3>1, StepIs DEF HeadDo
    <2> QED BY <1>5, <2>1, <2>2, <2>3 DEF FreeingTail
  <1>6. CASE FreeingHead(k, T)
    <2>1. CASE k.todo = <<UnIn(k.old), Step("dealloc", k.old, 2)>>
      <3>1. Head(k.todo) = UnIn(k.old) /\ k2.todo = <<Step("dealloc", k.old, 2)>>
        BY <1>1, <2>1, List2
      <3>2. FreeingHead(k2, T)
        BY <1>1, <1>6, <3>1 DEF FreeingHead
      <3>3. Has(k, k.old, {}, {k.old}, {}) /\ Has(k2, k.old, {}, {k.old}, {})
        BY <1>1, <1>6, <3>2, HasFreeingHead
      <3>6. CallOK(k2, T)
        BY <1>1, <3>2 DEF CallOK
      <3> QED BY <1>3, <3>1, <3>3, <3>6
    <2>2. CASE k.todo = <<Step("dealloc", k.old, 2)>>
      <3>1. Head(k.todo) = Step("dealloc", k.old, 2)
        BY <2>2, List1
      <3> QED BY <3>1, StepIs DEF HeadDo
    <2> QED BY <1>6, <2>1, <2>2 DEF FreeingHead
  <1> QED BY <1>4, <1>5, <1>6

\* Every step of tracing is of one of these kinds.
LEMMA TracingGoesOn ==
    ASSUME NEW k, NEW T, CallOK(k, T), k.todo # <<>>, HeadDo(k) \in {"trace", "untrace"}
    PROVE  GoesOn(k, Rest(k), T)
  BY KindIs, GotGoesOn, MovedGoesOn, EmptiedGoesOn, RefusedGoesOn, FreeingGoesOn

-----------------------------------------------------------------------------
(* Counting the threads that are about to do something.                    *)

\* What a call may have to do belongs to the block it is in charge of, but for
\* the untrace of a block that a realloc left.
LEMMA Shape ==
    ASSUME NEW k, NEW T, CallOK(k, T)
    PROVE  /\ Own(k) \in Blocks
           /\ TracingOf(k) \subseteq {Own(k)} /\ UntracedOf(k) \subseteq {Own(k)}
           /\ TracingOf(k) = {} \/ UntracedOf(k) = {}
           /\ \A a \in StaleOf(k) : /\ k.op \in {"realloc", "getline"} /\ a = k.old /\ a # k.new
                                    /\ Un(a) \in ToSet(k.todo)
  <1> DEFINE Fits == /\ Own(k) \in Blocks
                     /\ TracingOf(k) \subseteq {Own(k)} /\ UntracedOf(k) \subseteq {Own(k)}
                     /\ TracingOf(k) = {} \/ UntracedOf(k) = {}
                     /\ \A a \in StaleOf(k) : a = k.old /\ a # k.new
  <1>1. ASSUME NEW a \in Blocks, Has(k, a, {}, {}, {}) \/ Has(k, a, {a}, {}, {}) \/ Has(k, a, {}, {a}, {})
        PROVE  Fits
    BY <1>1 DEF Has
  <1>2. ASSUME BeforeLock(k) \/ InInit(k) \/ Resting(k) \/ Asking(k) PROVE Fits
    <2>1. NoBlock(k)
      BY <1>2 DEF BeforeLock, InInit, Resting, Asking, NoBlock, Idle
    <2>2. Has(k, None, {}, {}, {})
      BY <1>2, <2>1, HasNothing DEF Resting
    <2> QED BY <1>1, <2>2 DEF Blocks
  <1>3. ASSUME Finished(k) PROVE Fits
    <2>1. k.new \in Blocks
      BY <1>3 DEF Finished
    <2> QED BY <1>1, <1>3, <2>1, HasDone
  <1>4. ASSUME Got(k) PROVE Fits
    <2>1. k.new \in Blocks
      BY <1>4 DEF Got, Blocks
    <2> QED BY <1>1, <1>4, <2>1, HasGot
  <1>5. ASSUME Resizing(k, T) PROVE Fits
    <2>1. k.old \in Blocks
      BY <1>5 DEF Resizing, Blocks
    <2> QED BY <1>1, <1>5, <2>1, HasResize
  <1>6. ASSUME HasMoved(k) PROVE Fits
    <2>1. k.new \in Blocks /\ k.old # k.new
      BY <1>6 DEF HasMoved, Blocks
    <2> QED BY <1>6, <2>1, HasMovedHas DEF Has
  <1>7. ASSUME Emptied(k) PROVE Fits
    <2>1. k.new = None /\ k.old # None
      BY <1>7, NoneIs DEF Emptied
    <2> QED BY <1>7, <2>1, HasEmptied DEF Has, Blocks
  <1>8. ASSUME Freeing(k, T) PROVE Fits
    <2>1. k.old \in Blocks
      BY <1>8 DEF Freeing, Blocks
    <2> QED BY <1>1, <1>8, <2>1, HasFreeing
  <1>9. ASSUME FreeingTail(k, T) PROVE Fits
    <2>1. k.old \in Blocks
      BY <1>9 DEF FreeingTail, Blocks
    <2> QED BY <1>1, <1>9, <2>1, HasFreeingTail
  <1>10. ASSUME FreeingHead(k, T) PROVE Fits
    <2>1. k.old \in Blocks
      BY <1>10 DEF FreeingHead, Blocks
    <2> QED BY <1>1, <1>10, <2>1, HasFreeingHead
  <1>12. ASSUME Refused(k) PROVE Fits
    <2>1. k.old \in Blocks
      BY <1>12 DEF Refused, Blocks
    <2> QED BY <1>1, <1>12, <2>1, HasRefused
  <1>11. Fits
    BY <1>2, <1>3, <1>4, <1>5, <1>6, <1>7, <1>8, <1>9, <1>10, <1>12 DEF CallOK
  <1> QED BY <1>11 DEF StaleOf

\* 1 for a member.
In(a, S) == IF a \in S THEN 1 ELSE 0

\* A set that changes at most in t.
LEMMA CountStep ==
    ASSUME NEW S, NEW S2, NEW t, IsFiniteSet(S), S2 \ {t} = S \ {t}
    PROVE  Cardinality(S) \in Nat /\ Cardinality(S2) = Cardinality(S) - In(t, S) + In(t, S2)
  <1> DEFINE R == S \ {t}
  <1>1. /\ IsFiniteSet(R) /\ Cardinality(S) \in Nat
        /\ Cardinality(R) = IF t \in S THEN Cardinality(S) - 1 ELSE Cardinality(S)
    BY FS_RemoveElement, FS_CardinalityType
  <1>2. CASE t \in S2
    <2>1. S2 = R \cup {t} /\ t \notin R
      BY <1>2
    <2>2. Cardinality(S2) = Cardinality(R) + 1
      BY <1>1, <2>1, FS_AddElement
    <2> QED BY <1>1, <1>2, <2>2 DEF In
  <1>3. CASE t \notin S2
    <2>1. S2 = R
      BY <1>3
    <2> QED BY <1>1, <1>3, <2>1 DEF In
  <1> QED BY <1>2, <1>3

\* The three sets of threads, by their calls c.
TracingIn(c, a)  == {t \in Threads : a \in TracingOf(c[t])}
UntracedIn(c, a) == {t \in Threads : a \in UntracedOf(c[t])}
StaleIn(c, a)    == {t \in Threads : a \in StaleOf(c[t])}

\* The threads in each phase, before and after a step, in terms of the calls.
LEMMA SetsAre ==
    ASSUME NEW a \in Addrs
    PROVE  /\ Tracing(a) = TracingIn(call, a) /\ Untraced(a) = UntracedIn(call, a)
           /\ Stale(a) = StaleIn(call, a)
           /\ Tracing(a)' = TracingIn(call', a) /\ Untraced(a)' = UntracedIn(call', a)
           /\ Stale(a)' = StaleIn(call', a)
  BY DEF Tracing, Untraced, Stale, TracingIn, UntracedIn, StaleIn, TracingOf, UntracedOf, StaleOf,
         Due, Tr, Un

\* There are finitely many threads.
LEMMA ThreadsFinite == IsFiniteSet(Threads)
  BY ThreadAssumption, FS_Singleton, FS_AddElement DEF Threads
Alike(c, d, t) == \A u \in Threads \ {t} : d[u] = c[u]

\* When one call changes, the number of threads in each phase changes by what it changed.
LEMMA CallStep ==
    ASSUME NEW c, NEW d, NEW t \in Threads, Alike(c, d, t), NEW a
    PROVE  /\ Cardinality(TracingIn(c, a)) \in Nat /\ Cardinality(UntracedIn(c, a)) \in Nat
           /\ Cardinality(StaleIn(c, a)) \in Nat
           /\ Cardinality(TracingIn(d, a)) = Cardinality(TracingIn(c, a))
                                             - In(a, TracingOf(c[t])) + In(a, TracingOf(d[t]))
           /\ Cardinality(UntracedIn(d, a)) = Cardinality(UntracedIn(c, a))
                                              - In(a, UntracedOf(c[t])) + In(a, UntracedOf(d[t]))
           /\ Cardinality(StaleIn(d, a)) = Cardinality(StaleIn(c, a))
                                           - In(a, StaleOf(c[t])) + In(a, StaleOf(d[t]))
  <1>1. ASSUME NEW S \in SUBSET Threads PROVE IsFiniteSet(S)
    BY ThreadsFinite, FS_Subset
  <1>2. /\ IsFiniteSet(TracingIn(c, a)) /\ TracingIn(d, a) \ {t} = TracingIn(c, a) \ {t}
        /\ In(t, TracingIn(c, a)) = In(a, TracingOf(c[t]))
        /\ In(t, TracingIn(d, a)) = In(a, TracingOf(d[t]))
    BY <1>1 DEF Alike, TracingIn, In
  <1>3. /\ IsFiniteSet(UntracedIn(c, a)) /\ UntracedIn(d, a) \ {t} = UntracedIn(c, a) \ {t}
        /\ In(t, UntracedIn(c, a)) = In(a, UntracedOf(c[t]))
        /\ In(t, UntracedIn(d, a)) = In(a, UntracedOf(d[t]))
    BY <1>1 DEF Alike, UntracedIn, In
  <1>4. /\ IsFiniteSet(StaleIn(c, a)) /\ StaleIn(d, a) \ {t} = StaleIn(c, a) \ {t}
        /\ In(t, StaleIn(c, a)) = In(a, StaleOf(c[t]))
        /\ In(t, StaleIn(d, a)) = In(a, StaleOf(d[t]))
    BY <1>1 DEF Alike, StaleIn, In
  <1> QED BY <1>2, <1>3, <1>4, CountStep

-----------------------------------------------------------------------------
(* Counting the records of a block.                                        *)

\* A list has finitely many elements.
LEMMA ElemsFinite ==
    ASSUME NEW X, NEW s \in Seq(X)
    PROVE  IsFiniteSet(Elems(s))
  <1>1. Len(s) \in Nat
    BY LenProperties
  <1>2. IsFiniteSet(1..Len(s))
    BY <1>1, FS_Interval
  <1> DEFINE f == [i \in 1..Len(s) |-> s[i]]
  <1>3. f \in Surjection(1..Len(s), Elems(s))
    BY DEF Surjection, Elems
  <1> QED BY <1>2, <1>3, FS_Surjection

\* The fields of an entry of the list of allocations.
LEMMA EntryIs ==
    ASSUME NEW s \in Seq(Entry), NEW r \in Elems(s)
    PROVE  r \in Entry /\ r.mem \in Addrs /\ r.id \in Ids /\ r.internal \in BOOLEAN
  <1>1. PICK i \in 1..Len(s) : r = s[i]
    BY DEF Elems
  <1>2. r \in Entry
    BY <1>1
  <1> QED BY <1>2 DEF Entry

\* The records of a in the list s.
OfIn(s, a) == {r \in Elems(s) : r.mem = a}

\* The entries of an address can be counted.
LEMMA OfFinite ==
    ASSUME NEW s \in Seq(Entry), NEW a
    PROVE  IsFiniteSet(OfIn(s, a)) /\ Cardinality(OfIn(s, a)) \in Nat
  <1>1. OfIn(s, a) \in SUBSET Elems(s)
    BY DEF OfIn
  <1> QED BY <1>1, ElemsFinite, FS_Subset, FS_CardinalityType

\* Nobody but t changes its call.
OnlyCallOf(t) == DOMAIN call' = Threads /\ Alike(call, call', t)

\* Two equal sums stay equal.
LEMMA SumsStep ==
    ASSUME NEW C \in Int, NEW C2 \in Int, NEW T \in Int, NEW U \in Int, NEW L \in Int, NEW L2 \in Int,
           NEW S \in Int, NEW dt \in Int, NEW du \in Int, NEW ds \in Int, NEW F \in Int, NEW F2 \in Int,
           C + T + U + F = L + S, C2 - C + dt + du + F2 - F = L2 - L + ds
    PROVE  C2 + (T + dt) + (U + du) + F2 = L2 + (S + ds)
  OBVIOUS

\* The books stay right when the changes of the two sides cancel out.
LEMMA BooksMove ==
    ASSUME BooksInv, AllTrace' => AllTrace, NEW t \in Threads, OnlyCallOf(t), alloc_count' = Len(allocs'),
           allocs \in Seq(Entry), allocs' \in Seq(Entry), lost' \in [Addrs -> Nat],
           AllTrace' => \A a \in Addrs :
               /\ Cardinality(OfIn(allocs', a)) - Cardinality(OfIn(allocs, a))
                  + In(a, TracingOf(call'[t])) - In(a, TracingOf(call[t]))
                  + In(a, UntracedOf(call'[t])) - In(a, UntracedOf(call[t])) + lost'[a] - lost[a]
                  = In(a, Traceable') - In(a, Traceable)
                    + In(a, StaleOf(call'[t])) - In(a, StaleOf(call[t]))
    PROVE  BooksInv'
  <1>1. SUFFICES ASSUME AllTrace', NEW a \in Addrs
                 PROVE  Cardinality(OfIn(allocs', a)) + Cardinality(TracingIn(call', a))
                        + Cardinality(UntracedIn(call', a)) + lost'[a]
                        = In(a, Traceable') + Cardinality(StaleIn(call', a))
    BY SetsAre DEF BooksInv, Of, OfIn, In
  <1>2. Cardinality(OfIn(allocs, a)) + Cardinality(TracingIn(call, a))
        + Cardinality(UntracedIn(call, a)) + lost[a] = In(a, Traceable) + Cardinality(StaleIn(call, a))
    BY <1>1, SetsAre DEF BooksInv, Of, OfIn, In
  <1>3. \A S : In(a, S) \in {0, 1}
    BY DEF In
  <1>4. Cardinality(OfIn(allocs, a)) \in Nat /\ Cardinality(OfIn(allocs', a)) \in Nat
    BY OfFinite
  <1>5. Alike(call, call', t)
    BY DEF OnlyCallOf
  <1> DEFINE T1 == Cardinality(TracingIn(call, a))  T2 == Cardinality(TracingIn(call', a))
             U1 == Cardinality(UntracedIn(call, a)) U2 == Cardinality(UntracedIn(call', a))
             S1 == Cardinality(StaleIn(call, a))    S2 == Cardinality(StaleIn(call', a))
  <1>6. /\ T1 \in Nat /\ U1 \in Nat /\ S1 \in Nat
        /\ T2 = T1 - In(a, TracingOf(call[t])) + In(a, TracingOf(call'[t]))
        /\ U2 = U1 - In(a, UntracedOf(call[t])) + In(a, UntracedOf(call'[t]))
        /\ S2 = S1 - In(a, StaleOf(call[t])) + In(a, StaleOf(call'[t]))
    BY <1>5, CallStep
  <1> DEFINE C1 == Cardinality(OfIn(allocs, a))  C2 == Cardinality(OfIn(allocs', a))
             L1 == In(a, Traceable)              L2 == In(a, Traceable')
             dt == In(a, TracingOf(call'[t])) - In(a, TracingOf(call[t]))
             du == In(a, UntracedOf(call'[t])) - In(a, UntracedOf(call[t]))
             ds == In(a, StaleOf(call'[t])) - In(a, StaleOf(call[t]))
             F1 == lost[a]                       F2 == lost'[a]
  <1>13. F1 \in Nat /\ F2 \in Nat
    BY DEF BooksInv
  <1>7. C2 - C1 + dt + du + F2 - F1 = L2 - L1 + ds
    BY <1>1, <1>3, <1>4, <1>13
  <1>8. C1 + T1 + U1 + F1 = L1 + S1
    BY <1>2
  <1>9. /\ C1 \in Int /\ C2 \in Int /\ L1 \in Int /\ L2 \in Int
        /\ dt \in Int /\ du \in Int /\ ds \in Int /\ T1 \in Int /\ U1 \in Int /\ S1 \in Int
        /\ F1 \in Int /\ F2 \in Int
    <2>1. C1 \in Int /\ C2 \in Int
      BY <1>4
    <2>2. T1 \in Int /\ U1 \in Int /\ S1 \in Int
      BY <1>6
    <2>3. \A Q, R : In(a, Q) \in Int /\ In(a, R) - In(a, Q) \in Int
      BY <1>3
    <2> QED BY <1>13, <2>1, <2>2, <2>3
  <1>10. T2 = T1 + dt /\ U2 = U1 + du /\ S2 = S1 + ds
    BY SMTT(40), <1>3, <1>6
  <1> HIDE DEF T1, T2, U1, U2, S1, S2, C1, C2, L1, L2, dt, du, ds, F1, F2
  <1>11. C2 + (T1 + dt) + (U1 + du) + F2 = L2 + (S1 + ds)
    BY <1>7, <1>8, <1>9, SumsStep
  <1>12. C2 + T2 + U2 + F2 = L2 + S2
    BY <1>10, <1>11
  <1> QED BY <1>12 DEF C2, T2, U2, L2, S2, F2

\* The same when no realloc has failed.
LEMMA BooksStep ==
    ASSUME BooksInv, AllTrace' => AllTrace, NEW t \in Threads, OnlyCallOf(t), alloc_count' = Len(allocs'),
           allocs \in Seq(Entry), allocs' \in Seq(Entry), lost' = lost,
           AllTrace' => \A a \in Addrs :
               /\ Cardinality(OfIn(allocs', a)) - Cardinality(OfIn(allocs, a))
                  + In(a, TracingOf(call'[t])) - In(a, TracingOf(call[t]))
                  + In(a, UntracedOf(call'[t])) - In(a, UntracedOf(call[t]))
                  = In(a, Traceable') - In(a, Traceable)
                    + In(a, StaleOf(call'[t])) - In(a, StaleOf(call[t]))
    PROVE  BooksInv'
  <1>1. lost \in [Addrs -> Nat]
    BY DEF BooksInv
  <1>2. ASSUME AllTrace', NEW a \in Addrs
        PROVE  Cardinality(OfIn(allocs', a)) - Cardinality(OfIn(allocs, a))
               + In(a, TracingOf(call'[t])) - In(a, TracingOf(call[t]))
               + In(a, UntracedOf(call'[t])) - In(a, UntracedOf(call[t])) + lost'[a] - lost[a]
               = In(a, Traceable') - In(a, Traceable)
                 + In(a, StaleOf(call'[t])) - In(a, StaleOf(call[t]))
    <2>1. lost'[a] = lost[a] /\ lost[a] \in Nat
      BY <1>1
    <2>2. \A S : In(a, S) \in {0, 1}
      BY DEF In
    <2>3. Cardinality(OfIn(allocs, a)) \in Nat /\ Cardinality(OfIn(allocs', a)) \in Nat
      BY OfFinite
    <2> DEFINE C == Cardinality(OfIn(allocs', a)) - Cardinality(OfIn(allocs, a))
                    + In(a, TracingOf(call'[t])) - In(a, TracingOf(call[t]))
                    + In(a, UntracedOf(call'[t])) - In(a, UntracedOf(call[t]))
               D == In(a, Traceable') - In(a, Traceable)
                    + In(a, StaleOf(call'[t])) - In(a, StaleOf(call[t]))
    <2>4. C = D
      BY <1>2
    <2>5. C \in Int
      BY <2>2, <2>3
    <2> HIDE DEF C, D
    <2>6. C + lost'[a] - lost[a] = D
      BY <2>1, <2>4, <2>5
    <2> QED BY <2>6 DEF C, D
  <1> QED BY <1>1, <1>2, BooksMove

\* At most one thread is about to trace or has untraced a block, its owner.
LEMMA Holders ==
    ASSUME ThreadInv, OwnerInv, NEW a \in Addrs
    PROVE  \/ TracingIn(call, a) = {} /\ UntracedIn(call, a) = {}
           \/ \E u \in Threads : /\ Own(call[u]) = a
                                 /\ \/ TracingIn(call, a) = {u} /\ UntracedIn(call, a) = {}
                                    \/ TracingIn(call, a) = {} /\ UntracedIn(call, a) = {u}
  <1>1. \A u \in Threads : /\ TracingOf(call[u]) \subseteq {Own(call[u])}
                           /\ UntracedOf(call[u]) \subseteq {Own(call[u])}
                           /\ TracingOf(call[u]) = {} \/ UntracedOf(call[u]) = {}
    BY Shape DEF ThreadInv
  <1>2. SUFFICES ASSUME NEW u \in TracingIn(call, a) \cup UntracedIn(call, a)
                 PROVE  \E v \in Threads : /\ Own(call[v]) = a
                           /\ \/ TracingIn(call, a) = {v} /\ UntracedIn(call, a) = {}
                              \/ TracingIn(call, a) = {} /\ UntracedIn(call, a) = {v}
    OBVIOUS
  <1>3. u \in Threads /\ Own(call[u]) = a
    BY <1>1 DEF TracingIn, UntracedIn
  <1>4. \A v \in TracingIn(call, a) \cup UntracedIn(call, a) : v = u
    BY <1>1, <1>3, NoneIs DEF TracingIn, UntracedIn, OwnerInv
  <1>5. u \notin TracingIn(call, a) \/ u \notin UntracedIn(call, a)
    BY <1>1 DEF TracingIn, UntracedIn
  <1> QED BY <1>2, <1>3, <1>4, <1>5

-----------------------------------------------------------------------------
(* What stays when a thread t takes a step.                                *)

\* The threads that run, before and after exit.
LEMMA Acting ==
    ASSUME ThreadInv, InitInv, NEW t \in Threads, Running(t), call[t].op # "exit"
    PROVE  /\ t \in started /\ aborted = FALSE /\ report = None
           /\ AllTrace <=> ~is_exit_done
           /\ is_exit_done => LateThread
           /\ call[t] # Idle /\ ~BeforeLock(call[t]) /\ ~InInit(call[t]) => is_init_done
           /\ t # Main => is_init_done
  <1>1. t \in started /\ aborted = FALSE /\ report = None
    BY DEF Running, ThreadInv
  <1>2. is_exit_done => t # Main
    BY DEF ThreadInv
  <1>3. AllTrace <=> ~is_exit_done
    BY <1>1, <1>2 DEF AllTrace, ThreadInv
  <1>4. is_exit_done => LateThread
    BY <1>1, <1>2 DEF LateThread
  <1>5. ~is_init_done => t = Main
    BY <1>1 DEF InitInv
  <1> QED BY <1>1, <1>3, <1>4, <1>5 DEF InitInv

\* The threads and their calls, when the other calls fit the new lists.
LEMMA ThreadStep ==
    ASSUME ThreadInv, NEW t \in Threads, t \in started, report = None, report' = None, OnlyCallOf(t),
           call[t].op # "exit", call'[t].op # "exit", started' \subseteq Threads,
           started \subseteq started', is_exit_done' = is_exit_done, reused' \in BOOLEAN,
           aborted' \in BOOLEAN, CallOK(call'[t], tails'),
           \A u \in Threads \ {t} : CallOK(call[u], tails')
    PROVE  ThreadInv'
  <1>1. DOMAIN call' = Threads /\ \A u \in Threads \ {t} : call'[u] = call[u]
    BY DEF OnlyCallOf, Alike
  <1>2. \A u \in Threads : CallOK(call'[u], tails')
    BY <1>1
  <1>3. \A u \in Threads \ started' : call'[u] = Idle
    BY <1>1 DEF ThreadInv
  <1>4. Main \in Threads /\ Others \subseteq Threads
    BY DEF Threads
  <1>5. call'[Main].op = "exit" <=> call[Main].op = "exit"
    BY <1>1, <1>4
  <1>6. \A u \in Others : call'[u].op # "exit"
    BY <1>1, <1>4 DEF ThreadInv
  <1> QED BY <1>1, <1>2, <1>3, <1>5, <1>6 DEF ThreadInv

\* Who is past the initialisation.
Past(k) == ~BeforeLock(k) /\ ~InInit(k)

\* A call that has a block, or nothing to wait for, is past the initialisation.
LEMMA PastIs ==
    ASSUME NEW k,
           \/ k.todo = <<>> \/ HeadDo(k) \notin {"touch", "init", "static"} \/ k.old # None \/ k.new # None
    PROVE  Past(k)
  <1>1. BeforeLock(k) \/ InInit(k) => k.todo # <<>>
    BY List2, List3, List4 DEF BeforeLock, InInit
  <1> QED BY <1>1, HeadsBefore DEF Past, BeforeLock, InInit, NoBlock

\* The initialisation, once it is over.
LEMMA InitStep ==
    ASSUME InitInv, is_init_done, NEW t \in Threads, OnlyCallOf(t), UNCHANGED initVars, Past(call'[t])
    PROVE  InitInv'
  <1>1. \A u \in Threads \ {t} : call'[u] = call[u]
    BY DEF OnlyCallOf, Alike
  <1>2. Main \in Threads /\ Others \subseteq Threads
    BY DEF Threads
  <1>3. \A u \in Threads : Past(call'[u])
    BY <1>1, <1>2 DEF Past, InitInv, Threads
  <1>4. init_lock = FALSE /\ init_lock_count[Main] # 1
    BY DEF InitInv
  <1>5. /\ is_init_done' = is_init_done /\ init_lock' = init_lock /\ init_lock_count' = init_lock_count
    BY DEF initVars
  <1>6. InInit(call'[Main]) = FALSE /\ (init_lock_count[Main] = 1) = FALSE
    BY <1>2, <1>3, <1>4 DEF Past
  <1>7. \A u \in Others : ~BeforeLock(call'[u]) /\ ~InInit(call'[u])
    BY <1>2, <1>3 DEF Past
  <1>8. ~BeforeLock(call'[Main]) /\ ~InInit(call'[Main])
    BY <1>2, <1>3 DEF Past
  <1> QED BY <1>4, <1>5, <1>6, <1>7, <1>8 DEF InitInv

\* A record is being filled only in front of its insertion.
LEMMA NoRecord ==
    ASSUME RecordInv, NEW t \in Threads, call[t].todo = <<>> \/ HeadDo(call[t]) # "trace"
    PROVE  record[t] = None
  BY StepIs DEF RecordInv, HeadDo, Tr

\* A thread without a record keeps the pool and the list apart.
LEMMA RecordStep ==
    ASSUME RecordInv, NEW t \in Threads, OnlyCallOf(t), UNCHANGED <<tracker, record>>, record[t] = None
    PROVE  RecordInv'
  <1>1. \A u \in Threads \ {t} : call'[u] = call[u]
    BY DEF OnlyCallOf, Alike
  <1>2. /\ allocs' = allocs /\ alloc_count' = alloc_count /\ alloc_pool' = alloc_pool
        /\ alloc_batch' = alloc_batch /\ record' = record
    BY DEF tracker
  <1>3. Records' = Records /\ RecordsOnce' = RecordsOnce
    BY <1>2 DEF Records, RecordsOnce
  <1>4. \A u \in Threads : record'[u] # None =>
          call'[u].todo # <<>> /\ Head(call'[u].todo) = Tr(call'[u].new)
    BY <1>1, <1>2 DEF RecordInv
  <1> QED BY <1>2, <1>3, <1>4 DEF RecordInv

\* Who has to untrace a block, call by call.
LEMMA StaleSame ==
    ASSUME NEW t \in Threads, OnlyCallOf(t), StaleOf(call'[t]) = StaleOf(call[t])
    PROVE  \A a \in Addrs : Stale(a)' = Stale(a)
  BY ZenonT(40), SetsAre DEF StaleIn, OnlyCallOf, Alike

\* Which threads still have the entry of a freed block to remove.
LEMMA StaleIs ==
    ASSUME NEW a \in Addrs, NEW u \in Threads
    PROVE  /\ u \in Stale(a) <=> a \in StaleOf(call[u])
           /\ u \in Stale(a)' <=> a \in StaleOf(call'[u])
  BY SetsAre DEF StaleIn

\* A step that changes nothing of what belongs to whom.
SameOwner(t) == /\ OnlyCallOf(t) /\ Own(call'[t]) = Own(call[t])
                /\ live' = live /\ tails' = tails /\ held' \ {Static} = held \ {Static}

\* A step that changes no owner.
LEMMA OwnerSame ==
    ASSUME OwnerInv, NEW t \in Threads, SameOwner(t)
    PROVE  OwnerInv'
  <1>1. \A u \in Threads : Own(call'[u]) = Own(call[u])
    BY DEF SameOwner, OnlyCallOf, Alike
  <1>2. TailBlocks' = TailBlocks /\ live' = live /\ tails' = tails
    BY DEF SameOwner, TailBlocks
  <1>3. held' \subseteq (live \ TailBlocks) \cup {Static} /\ \A x : x # Static => (x \in held' <=> x \in held)
    BY DEF SameOwner, OwnerInv
  <1>4. \A u \in Threads : Own(call[u]) \in (live \ (TailBlocks \cup held')) \cup {None}
    BY <1>3, NoneIs DEF OwnerInv
  <1> QED BY <1>1, <1>2, <1>3, <1>4 DEF OwnerInv

\* A step that changes nothing of what is to be traced.
SameTraces(t) == /\ SameOwner(t) /\ reused' = reused /\ allocs' = allocs /\ alloc_count' = alloc_count
                 /\ lost' = lost
                 /\ TracingOf(call'[t]) = TracingOf(call[t])
                 /\ UntracedOf(call'[t]) = UntracedOf(call[t])
                 /\ StaleOf(call'[t]) = StaleOf(call[t])

\* A step that changes neither blocks nor entries.
LEMMA BooksSame ==
    ASSUME BooksInv, RecordInv, NEW t \in Threads, AllTrace' => AllTrace, OnlyCallOf(t),
           allocs' = allocs, alloc_count' = alloc_count, lost' = lost, live' = live, tails' = tails,
           TracingOf(call'[t]) = TracingOf(call[t]), UntracedOf(call'[t]) = UntracedOf(call[t]),
           StaleOf(call'[t]) = StaleOf(call[t])
    PROVE  BooksInv'
  <1>1. Traceable' = Traceable
    BY DEF Traceable
  <1>2. \A a : In(a, Traceable) \in Int /\ \A S : In(a, S) \in Int
    BY DEF In
  <1>3. allocs \in Seq(Entry) /\ allocs' \in Seq(Entry) /\ alloc_count' = Len(allocs')
    BY DEF RecordInv, BooksInv
  <1>4. \A a \in Addrs : Cardinality(OfIn(allocs, a)) \in Int
    BY <1>3, OfFinite
  <1>5. \A a \in Addrs :
               /\ Cardinality(OfIn(allocs', a)) - Cardinality(OfIn(allocs, a))
                  + In(a, TracingOf(call'[t])) - In(a, TracingOf(call[t]))
                  + In(a, UntracedOf(call'[t])) - In(a, UntracedOf(call[t]))
                  = In(a, Traceable') - In(a, Traceable)
                    + In(a, StaleOf(call'[t])) - In(a, StaleOf(call[t]))
    BY <1>1, <1>2, <1>4
  <1> QED BY <1>3, <1>5, BooksStep
\* A call that goes on, or has nothing that it could lose.
SameRole(k, k2) == k2.op = k.op \/ (Own(k) = None /\ StaleOf(k) = {})

\* A step that changes no mark of an internal allocation.
LEMMA InternalSame ==
    ASSUME InternalInv, RecordInv, NEW t \in Threads, SameTraces(t), AllTrace' => AllTrace,
           SameRole(call[t], call'[t])
    PROVE  InternalInv'
  <1>1. SUFFICES ASSUME AllTrace, ~reused
                 PROVE  /\ \A a \in Addrs : \A u, v \in Stale(a)' : a \notin live /\ u = v
                        /\ \A r \in Elems(allocs) : Keeper(r)'
    BY DEF InternalInv, SameTraces, SameOwner
  <1>2. Traceable' = Traceable
    BY DEF Traceable, SameTraces, SameOwner
  <1>3. \A u \in Threads \ {t} : call'[u] = call[u]
    BY DEF SameTraces, SameOwner, OnlyCallOf, Alike
  <1>4. \A a \in Addrs : Stale(a)' = Stale(a)
    BY StaleSame DEF SameTraces, SameOwner
  <1>5. \A r \in Elems(allocs) : r.mem \in Addrs /\ (r.mem \in held' <=> r.mem \in held)
    <2>1. \A r \in Elems(allocs) : r.mem \in Addrs
      BY EntryIs DEF RecordInv
    <2>2. \A a \in Addrs : a \in held' <=> a \in held
      BY NoneIs DEF SameTraces, SameOwner
    <2> QED BY <2>1, <2>2
  <1>6. ASSUME NEW r \in Elems(allocs) PROVE Keeper(r)'
    <2>1. Keeper(r) /\ r.mem \in Addrs /\ r.mem # None
      BY <1>1, <1>5, NoneIs DEF InternalInv
    <2>2. \A u \in Threads : Own(call'[u]) = Own(call[u])
      BY <1>3 DEF SameTraces, SameOwner
    <2>3. \A u \in Threads : \/ call'[u].op = call[u].op
                             \/ Own(call[u]) # r.mem /\ u \notin Stale(r.mem)
      BY <1>3, <2>1, SetsAre DEF StaleIn, SameRole
    <2> QED BY <1>2, <1>4, <1>5, <2>1, <2>2, <2>3 DEF Keeper
  <1> QED BY <1>1, <1>4, <1>6 DEF InternalInv

\* A step that leaves all the blocks and the records as they are.
LEMMA Quiet ==
    ASSUME HeapInv, NEW t \in Threads, Running(t), call[t].op # "exit", call'[t].op # "exit",
           SameTraces(t), CallOK(call'[t], tails),
           SameRole(call[t], call'[t]),
           started \subseteq started', started' \subseteq Threads, UNCHANGED <<tracker, record, exitVars>>,
           record[t] = None, aborted' \in BOOLEAN
    PROVE  ThreadInv' /\ OwnerInv' /\ RecordInv' /\ BooksInv' /\ InternalInv' /\ ReportInv'
  <1>1. ThreadInv /\ OwnerInv /\ RecordInv /\ BooksInv /\ InternalInv /\ InitInv
    BY DEF HeapInv
  <1>2. t \in started /\ report = None /\ reused \in BOOLEAN /\ Main \in started /\ aborted = FALSE
    BY <1>1, Acting DEF ThreadInv
  <1>3. /\ OnlyCallOf(t) /\ SameOwner(t) /\ live' = live /\ tails' = tails /\ reused' = reused
        /\ report' = report /\ is_exit_done' = is_exit_done
        /\ allocs' = allocs /\ alloc_count' = alloc_count /\ lost' = lost
    BY DEF SameTraces, SameOwner, exitVars
  <1>4. AllTrace' => AllTrace
    BY <1>2, <1>3 DEF AllTrace
  <1>5. \A u \in Threads \ {t} : CallOK(call[u], tails')
    BY <1>1, <1>3 DEF ThreadInv
  <1>6. ThreadInv'
    BY <1>1, <1>2, <1>3, <1>5, ThreadStep
  <1>7. OwnerInv'
    BY <1>1, <1>3, OwnerSame
  <1>8. RecordInv'
    BY <1>1, <1>3, RecordStep
  <1>9. BooksInv'
    BY <1>1, <1>3, <1>4, BooksSame DEF SameTraces
  <1>10. InternalInv'
    BY <1>1, <1>4, InternalSame
  <1>11. ReportInv'
    BY <1>2, <1>3 DEF ReportInv
  <1> QED BY <1>6, <1>7, <1>8, <1>9, <1>10, <1>11

\* No assertion fails in a step that has none.
LEMMA NoAssert ==
    ASSUME aborted = FALSE, UNCHANGED aborted
    PROVE  NeverAborts'
  BY DEF NeverAborts

-----------------------------------------------------------------------------
(* The beginning of a call.                                                *)

\* A thread outside of a call holds nothing.
LEMMA IdleIs ==
    ASSUME NEW k, NEW T, CallOK(k, T), k.op = "idle"
    PROVE  k = Idle /\ Has(k, None, {}, {}, {})
  <1>1. k = Idle
    BY DEF CallOK, BeforeLock, InInit, Resting, Asking, Finished, Got, Resizing, HasMoved, Emptied,
           Refused, Freeing, FreeingTail, FreeingHead, AllocOps, Ops, Idle
  <1>2. NoBlock(k)
    BY <1>1 DEF NoBlock, Idle
  <1> QED BY <1>1, <1>2, HasNothing

\* A call that has not reached the lock is not in the initialisation.
LEMMA FirstIs ==
    ASSUME NEW k
    PROVE  /\ BeforeLock(k) => ~InInit(k)
           /\ ~BeforeLock(Idle) /\ ~InInit(Idle)
  <1>1. BeforeLock(k) => Len(k.todo) = 2 /\ HeadDo(k) = "touch"
    BY List2, HeadsBefore DEF BeforeLock
  <1>2. HeadDo(k) = "touch" /\ InInit(k) => Len(k.todo) = 4
    BY HeadsBefore, List4, StepIs
  <1>3. Idle.todo = <<>>
    BY DEF Idle
  <1> QED BY <1>1, <1>2, <1>3, PastIs DEF Past

\* The calls that allocate.
LEMMA AllocateKeeps ==
    ASSUME HeapInv, NEW t \in Threads, NEW op \in AllocOps, Allocate(t, op),
           held' \ {Static} = held \ {Static}
    PROVE  HeapInv'
  <1> DEFINE k == call[t]  k2 == call'[t]
  <1>1. Running(t) /\ k.op = "idle" /\ DOMAIN call = Threads /\ CallOK(k, tails)
    BY DEF Allocate, Begin, HeapInv, ThreadInv
  <1>2. /\ UNCHANGED <<tracker, initVars, exitVars, live, tails, aborted, record, started, reused>>
        /\ call' = [call EXCEPT ![t] = [op |-> op, old |-> None, new |-> None,
              todo |-> (IF is_init_done THEN <<>> ELSE <<Step("touch", None, 0)>>)
                       \o <<Step("alloc", None, 1)>>]]
    BY DEF Allocate, Begin
  <1>3. k = Idle /\ Has(k, None, {}, {}, {}) /\ k.op # "exit" /\ k.todo = <<>>
    BY <1>1, IdleIs DEF Idle
  <1>4. /\ OnlyCallOf(t) /\ NoBlock(k2) /\ k2.op = op /\ DOMAIN k2 = CallFields
        /\ k2.todo = (IF is_init_done THEN <<>> ELSE <<Touch>>) \o <<Al>>
    BY <1>1, <1>2 DEF OnlyCallOf, Alike, NoBlock, CallFields, Touch, Al
  <1>5. /\ is_init_done => Asking(k2)
        /\ ~is_init_done => BeforeLock(k2)
    <2>1. is_init_done => k2.todo = <<Al>>
      BY <1>4
    <2>2. ~is_init_done => k2.todo = <<Touch, Al>>
      BY <1>4, Join1
    <2> QED BY <1>4, <2>1, <2>2 DEF Asking, BeforeLock
  <1>6. Has(k2, None, {}, {}, {}) /\ CallOK(k2, tails) /\ op # "exit"
    BY <1>4, <1>5, HasNothing DEF CallOK, AllocOps, Ops
  <1>7. SameTraces(t)
    BY <1>2, <1>3, <1>4, <1>6 DEF SameTraces, SameOwner, Has, tracker
  <1>8. t \in started /\ aborted = FALSE /\ started \subseteq Threads /\ record[t] = None
    BY <1>1, <1>3, Acting, NoRecord DEF HeapInv, ThreadInv
  <1>9. ThreadInv' /\ OwnerInv' /\ RecordInv' /\ BooksInv' /\ InternalInv' /\ ReportInv'
    BY <1>1, <1>2, <1>3, <1>4, <1>6, <1>7, <1>8, Quiet DEF Has, SameRole
  <1>10. InitInv'
    <2>1. CASE is_init_done
      <3>1. Past(k2)
        BY <1>5, <2>1, HeadsBefore, PastIs
      <3> QED BY <1>2, <1>4, <2>1, <3>1, InitStep DEF HeapInv
    <2>2. CASE ~is_init_done
      <3>1. t = Main
        BY <1>8, <2>2 DEF HeapInv, InitInv
      <3>2. BeforeLock(k2) /\ ~InInit(k2) /\ ~InInit(k)
        BY <1>3, <1>5, <2>2, FirstIs
      <3>3. init_lock = FALSE /\ (init_lock_count[Main] = 1) = FALSE
        BY <3>1, <3>2 DEF HeapInv, InitInv
      <3>4. \A u \in Others : call'[u] = call[u]
        BY <1>4, <3>1, ThreadAssumption DEF OnlyCallOf, Alike, Threads
      <3>5. InitInv
        BY DEF HeapInv
      <3>6. /\ is_init_done' = is_init_done /\ init_lock' = init_lock
            /\ init_lock_count' = init_lock_count /\ started' = started /\ live' = live
            /\ is_exit_done' = is_exit_done
        BY <1>2 DEF initVars, exitVars
      <3>7. BeforeLock(call'[Main]) /\ InInit(call'[Main]) = FALSE
        BY <3>1, <3>2
      <3> QED BY <2>2, <3>3, <3>4, <3>5, <3>6, <3>7 DEF InitInv
    <2> QED BY <2>1, <2>2
  <1> QED BY <1>2, <1>8, <1>9, <1>10, NoAssert DEF HeapInv

\* The calls that take a block of the program's.
LEMMA TakeKeeps ==
    ASSUME HeapInv, NEW t \in Threads, Running(t), call[t].op = "idle", OnlyCallOf(t),
           NEW a \in held, a \in Addrs, held' = held \ {a},
           Has(call'[t], a, {}, {}, {}), CallOK(call'[t], tails), call'[t].old = a,
           call'[t].op \in Ops \ {"pthread_create"},
           UNCHANGED <<tracker, initVars, exitVars, live, tails, aborted, record, started, reused>>
    PROVE  HeapInv'
  <1> DEFINE k == call[t]  k2 == call'[t]
  <1>1. ThreadInv /\ OwnerInv /\ RecordInv /\ BooksInv /\ InternalInv /\ InitInv
    BY DEF HeapInv
  <1>2. CallOK(k, tails)
    BY <1>1 DEF ThreadInv
  <1>3. k = Idle /\ Has(k, None, {}, {}, {}) /\ k.op # "exit" /\ k.todo = <<>>
    BY <1>2, IdleIs DEF Idle
  <1>4. /\ t \in started /\ aborted = FALSE /\ started \subseteq Threads /\ record[t] = None
        /\ report = None
        /\ reused \in BOOLEAN /\ aborted \in BOOLEAN
    BY <1>1, <1>3, Acting, NoRecord DEF ThreadInv
  <1>5. /\ allocs' = allocs /\ alloc_count' = alloc_count /\ live' = live /\ tails' = tails
        /\ started' = started /\ reused' = reused /\ aborted' = aborted /\ record' = record
        /\ is_exit_done' = is_exit_done /\ report' = report /\ lost' = lost
    BY DEF tracker, exitVars
  <1>6. k2.op # "exit" /\ a # None
    BY NoneIs DEF Ops
  <1>7. ThreadInv'
    BY <1>1, <1>3, <1>4, <1>5, <1>6, ThreadStep DEF ThreadInv
  <1>8. InitInv'
    <2>1. is_init_done
      BY <1>1, NoneIs DEF OwnerInv, InitInv
    <2>2. Past(k2)
      BY <1>6, PastIs
    <2> QED BY <1>1, <2>1, <2>2, InitStep
  <1>9. RecordInv'
    BY <1>1, <1>4, RecordStep
  <1>10. AllTrace' = AllTrace
    BY <1>5 DEF AllTrace
  <1>11. BooksInv'
    BY <1>1, <1>3, <1>5, <1>10, BooksSame DEF Has
  <1>12. \A u \in Threads \ {t} : call'[u] = call[u]
    BY DEF OnlyCallOf, Alike
  <1>13. Own(k) = None /\ Own(k2) = a /\ StaleOf(k) = {} /\ StaleOf(k2) = {}
    BY <1>3 DEF Has
  <1>14. OwnerInv'
    <2>1. TailBlocks' = TailBlocks
      BY <1>5 DEF TailBlocks
    <2>2. a \in live \ (TailBlocks \cup held')
      BY <1>1, NoneIs DEF OwnerInv
    <2>3. \A u \in Threads \ {t} : Own(call[u]) # a /\ Own(call[u]) \in (live \ (TailBlocks \cup held')) \cup {None}
      BY <1>1, <1>6 DEF OwnerInv
    <2>4. \A u \in Threads : Own(call'[u]) \in (live \ (TailBlocks \cup held')) \cup {None}
      BY <1>12, <1>13, <2>2, <2>3
    <2>5. \A u, v \in Threads : Own(call'[u]) = Own(call'[v]) => u = v \/ Own(call'[u]) = None
      BY <1>1, <1>12, <1>13, <2>3 DEF OwnerInv
    <2> QED BY <1>1, <1>5, <2>1, <2>4, <2>5 DEF OwnerInv
  <1>15. InternalInv'
    <2>1. SUFFICES ASSUME AllTrace, ~reused
                   PROVE  /\ \A b \in Addrs : \A u, v \in Stale(b)' : b \notin live /\ u = v
                          /\ \A r \in Elems(allocs) : Keeper(r)'
      BY <1>5, <1>10 DEF InternalInv
    <2>2. \A b \in Addrs : Stale(b)' = Stale(b)
      BY <1>13, StaleSame
    <2>3. Traceable' = Traceable
      BY <1>5 DEF Traceable
    <2>4. ASSUME NEW r \in Elems(allocs) PROVE Keeper(r)'
      <3>1. Keeper(r) /\ r.mem \in Addrs /\ r.mem # None
        BY <1>1, <2>1, EntryIs, NoneIs DEF InternalInv, RecordInv
      <3>2. t \notin Stale(r.mem)
        BY <1>13, <3>1, StaleIs
      <3>3. CASE r.internal
        BY <1>12, <1>13, <2>3, <3>1, <3>3 DEF Keeper
      <3>4. CASE ~r.internal
        <4>1. CASE r.mem = a
          <5>1. k2.op # "pthread_create" /\ Own(k2) = r.mem
            BY <1>13, <4>1
          <5> QED BY <3>4, <5>1 DEF Keeper
        <4>2. CASE r.mem # a
          BY <1>12, <1>13, <2>2, <3>1, <3>2, <3>4, <4>2 DEF Keeper
        <4> QED BY <4>1, <4>2
      <3> QED BY <3>3, <3>4
    <2> QED BY <1>1, <2>1, <2>2, <2>4 DEF InternalInv
  <1>16. ReportInv'
    BY <1>4, <1>5 DEF ReportInv
  <1>17. NeverAborts'
    BY <1>4, NoAssert
  <1> QED BY <1>7, <1>8, <1>9, <1>11, <1>14, <1>15, <1>16, <1>17 DEF HeapInv

\* What Begin does for a block a of the program's; the todo list is one of a few.
BeginsWith(t, op, a, todo) ==
    /\ Running(t) /\ call[t].op = "idle" /\ OnlyCallOf(t)
    /\ DOMAIN call'[t] = CallFields /\ call'[t].op = op /\ call'[t].old = a /\ call'[t].new = None
    /\ call'[t].todo = todo
    /\ UNCHANGED <<tracker, initVars, exitVars, live, tails, aborted, record, started, reused>>

\* A call on a block its caller holds begins.
LEMMA BeginIs ==
    ASSUME HeapInv, NEW t \in Threads, NEW op, NEW a \in Addrs, a \in held, NEW X, NEW todo \in Seq(X),
           Begin(t, op, a, todo)
    PROVE  BeginsWith(t, op, a, todo)
  <1>1. is_init_done /\ DOMAIN call = Threads
    BY NoneIs DEF HeapInv, OwnerInv, InitInv, ThreadInv
  <1>2. <<>> \o todo = todo
    BY ConcatEmptySeq
  <1>3. call' = [call EXCEPT ![t] = [op |-> op, old |-> a, new |-> None, todo |-> todo]]
    BY <1>1, <1>2 DEF Begin
  <1>4. /\ OnlyCallOf(t)
        /\ DOMAIN call'[t] = CallFields /\ call'[t].op = op /\ call'[t].old = a /\ call'[t].new = None
        /\ call'[t].todo = todo
    BY <1>1, <1>3 DEF OnlyCallOf, Alike, CallFields
  <1> QED BY <1>4 DEF Begin, BeginsWith

\* realloc and getline begin.
LEMMA ResizeKeeps ==
    ASSUME HeapInv, NEW t \in Threads, NEW op \in {"realloc", "getline"}, Resize(t, op)
    PROVE  HeapInv'
  <1>1. PICK a \in Plain : Begin(t, op, a, <<Step("resize", a, 1)>>) /\ held' = held \ {a}
    BY DEF Resize
  <1>2. a \in held /\ a \in Addrs /\ a \notin DOMAIN tails
    BY DEF Plain, HeapInv, OwnerInv
  <1>3. <<Step("resize", a, 1)>> \in Seq({Step("resize", a, 1)})
    OBVIOUS
  <1>4. BeginsWith(t, op, a, <<Step("resize", a, 1)>>)
    BY <1>1, <1>2, <1>3, BeginIs
  <1>5. Resizing(call'[t], tails)
    BY <1>2, <1>4 DEF Resizing, BeginsWith
  <1>6. Has(call'[t], a, {}, {}, {}) /\ CallOK(call'[t], tails)
    BY <1>4, <1>5, HasResize DEF BeginsWith, CallOK
  <1> QED BY <1>1, <1>2, <1>4, <1>6, TakeKeeps DEF BeginsWith, Ops

\* free begins.
LEMMA FreeKeeps ==
    ASSUME HeapInv, NEW t \in Threads, free(t)
    PROVE  HeapInv'
  <1>1. PICK a \in Plain : /\ Begin(t, "free", a, <<Step("untrace", a, 1), Step("dealloc", a, 1)>>)
                           /\ held' = held \ {a}
    BY DEF free
  <1> DEFINE todo == <<Un(a), Step("dealloc", a, 1)>>  k2 == call'[t]
  <1>2. a \in held /\ a \in Addrs /\ a \notin DOMAIN tails
    BY DEF Plain, HeapInv, OwnerInv
  <1>3. todo \in Seq({Un(a), Step("dealloc", a, 1)})
    OBVIOUS
  <1>4. BeginsWith(t, "free", a, todo)
    BY <1>1, <1>2, <1>3, BeginIs DEF Un
  <1>5. Freeing(k2, tails)
    BY <1>2, <1>4 DEF Freeing, BeginsWith
  <1>6. k2.todo # <<Step("dealloc", k2.old, 1)>>
    <2>1. Len(k2.todo) = 2
      BY <1>4, List2 DEF BeginsWith
    <2> QED BY <2>1, List1
  <1>7. Has(k2, a, {}, {}, {}) /\ CallOK(k2, tails)
    BY <1>4, <1>5, <1>6, HasFreeing DEF BeginsWith, CallOK
  <1> QED BY <1>1, <1>2, <1>4, <1>7, TakeKeeps DEF BeginsWith, Ops

\* freeaddrinfo begins.
LEMMA FreeaddrinfoKeeps ==
    ASSUME HeapInv, NEW t \in Threads, freeaddrinfo(t)
    PROVE  HeapInv'
  <1>1. PICK a \in held \cap DOMAIN tails :
           /\ Begin(t, "freeaddrinfo", a,
                 << Step("untrace", a, 1), Step("untrace", tails[a], 2), Step("dealloc", tails[a], 2),
                    Step("untrace", a, 2), Step("dealloc", a, 2) >>)
           /\ held' = held \ {a}
    BY DEF freeaddrinfo
  <1> DEFINE b == tails[a]  k2 == call'[t]
             todo == <<Un(a), UnIn(b), Step("dealloc", b, 2), UnIn(a), Step("dealloc", a, 2)>>
             X == {Un(a), UnIn(b), Step("dealloc", b, 2), UnIn(a), Step("dealloc", a, 2)}
  <1>2. a \in held /\ a \in Addrs /\ a \in DOMAIN tails
    BY DEF HeapInv, OwnerInv
  <1>3. todo \in Seq(X)
    OBVIOUS
  <1>4. BeginsWith(t, "freeaddrinfo", a, todo)
    <2>1. Begin(t, "freeaddrinfo", a, todo)
      BY <1>1 DEF Un, UnIn
    <2> HIDE DEF todo
    <2> QED BY <1>2, <1>3, <2>1, BeginIs
  <1>5. FreeingTail(k2, tails)
    BY <1>2, <1>4 DEF FreeingTail, BeginsWith
  <1>6. Head(k2.todo) = Un(k2.old)
    BY <1>4, List5 DEF BeginsWith
  <1>7. Has(k2, a, {}, {}, {}) /\ CallOK(k2, tails)
    BY <1>4, <1>5, <1>6, HasFreeingTail DEF BeginsWith, CallOK
  <1> QED BY <1>1, <1>2, <1>4, <1>7, TakeKeeps DEF BeginsWith, Ops

-----------------------------------------------------------------------------
(* Threads that end, and exit.                                             *)

\* Nothing changes but Static, the threads, exit and the report.
Calm == /\ UNCHANGED <<tracker, initVars, live, tails, aborted, call, record, reused>>
        /\ held' \ {Static} = held \ {Static}

\* Such a step keeps what holds of blocks, records and entries.
LEMMA CalmKeeps ==
    ASSUME HeapInv, Calm, AllTrace' => AllTrace
    PROVE  OwnerInv' /\ RecordInv' /\ BooksInv' /\ InternalInv'
  <1>1. ThreadInv /\ OwnerInv /\ RecordInv /\ BooksInv /\ InternalInv
    BY DEF HeapInv
  <1>2. SameTraces(Main) /\ Main \in Threads
    BY <1>1 DEF SameTraces, SameOwner, Calm, OnlyCallOf, Alike, tracker, ThreadInv, Threads
  <1>3. OwnerInv' /\ BooksInv' /\ InternalInv'
    <2>1. OwnerInv'
      BY <1>1, <1>2, OwnerSame DEF SameTraces
    <2>2. BooksInv'
      BY <1>1, <1>2, BooksSame DEF SameTraces, SameOwner
    <2>3. SameRole(call[Main], call'[Main])
      BY DEF Calm, SameRole
    <2>4. InternalInv'
      BY <1>1, <1>2, <2>3, InternalSame
    <2> QED BY <2>1, <2>2, <2>4
  <1>4. RecordInv'
    <2>1. /\ allocs' = allocs /\ alloc_count' = alloc_count /\ alloc_pool' = alloc_pool
          /\ alloc_batch' = alloc_batch /\ record' = record /\ call' = call
      BY DEF tracker, Calm
    <2>2. Records' = Records /\ RecordsOnce' = RecordsOnce
      BY <2>1 DEF Records, RecordsOnce
    <2> QED BY <1>1, <2>1, <2>2 DEF RecordInv
  <1> QED BY <1>3, <1>4

\* free of NULL or of a static block.
LEMMA FreeStaticKeeps ==
    ASSUME HeapInv, NEW t \in Threads, FreeStatic(t)
    PROVE  HeapInv'
  <1>1. /\ UNCHANGED <<is_init_done, init_lock, init_lock_count, started, is_exit_done, report, call,
                       tails, live, reused, aborted>>
        /\ Calm /\ report = None /\ ~aborted
    BY DEF FreeStatic, Calm, initVars, exitVars, Running
  <1>2. AllTrace' = AllTrace
    BY <1>1 DEF AllTrace
  <1>3. InitInv' /\ ThreadInv' /\ ReportInv' /\ NeverAborts'
    BY <1>1 DEF HeapInv, InitInv, ThreadInv, ReportInv, NeverAborts
  <1> QED BY <1>1, <1>2, <1>3, CalmKeeps DEF HeapInv

\* A thread ends.
LEMMA ThreadEndsKeeps ==
    ASSUME HeapInv, NEW t \in Threads, ThreadEnds(t)
    PROVE  HeapInv'
  <1>1. /\ UNCHANGED <<is_init_done, init_lock, init_lock_count, is_exit_done, report, call,
                       tails, live, reused, aborted>>
        /\ Calm /\ report = None /\ ~aborted /\ started' = started \ {t} /\ t \in started
        /\ ~is_exit_done
        /\ t \in Others /\ call[t].op = "idle"
    BY DEF ThreadEnds, Calm, initVars, exitVars, heapVars, Running
  <1>2. AllTrace
    BY <1>1 DEF AllTrace
  <1>3. t # Main /\ is_init_done
    BY <1>1, ThreadAssumption DEF HeapInv, InitInv
  <1>4. call[t] = Idle
    BY <1>1, IdleIs DEF HeapInv, ThreadInv
  <1>5. InitInv'
    BY <1>1, <1>3 DEF HeapInv, InitInv
  <1>6. ThreadInv'
    BY <1>1, <1>3, <1>4 DEF HeapInv, ThreadInv
  <1>7. ReportInv' /\ NeverAborts'
    BY <1>1 DEF ReportInv, NeverAborts
  <1> QED BY <1>1, <1>2, <1>5, <1>6, <1>7, CalmKeeps DEF HeapInv

\* The report at exit.
LEMMA AtexitKeeps ==
    ASSUME HeapInv, heaph_atexit
    PROVE  HeapInv'
  <1>1. /\ UNCHANGED <<is_init_done, init_lock, init_lock_count, is_exit_done, call, started,
                       tails, live, reused, aborted, allocs, alloc_count>>
        /\ Calm /\ ~aborted /\ is_exit_done
    BY DEF heaph_atexit, Calm, initVars, heapVars, Running, tracker, HeapInv, ThreadInv
  <1>2. AllTrace' = AllTrace
    BY <1>1 DEF AllTrace
  <1>3. InitInv' /\ ThreadInv' /\ NeverAborts'
    BY <1>1 DEF HeapInv, InitInv, ThreadInv, NeverAborts
  <1>4. ReportInv'
    <2>1. Internals' = Internals
      BY <1>1 DEF Internals, trace_is_internal
    <2>2. report' = [count |-> alloc_count - Cardinality(Internals), suppressed |-> Cardinality(Internals)]
      BY DEF heaph_atexit, Internals
    <2> QED BY <1>1, <2>1, <2>2 DEF ReportInv
  <1> QED BY <1>1, <1>2, <1>3, <1>4, CalmKeeps DEF HeapInv

\* The process exits.
LEMMA ExitKeeps ==
    ASSUME HeapInv, Exit
    PROVE  HeapInv'
  <1> DEFINE k == call[Main]  k2 == call'[Main]
  <1>1. ThreadInv /\ OwnerInv /\ RecordInv /\ BooksInv /\ InternalInv /\ InitInv /\ Main \in Threads
    BY DEF HeapInv, Threads
  <1>2. k = Idle /\ Has(k, None, {}, {}, {}) /\ k.op # "exit" /\ k.todo = <<>>
    BY <1>1, IdleIs DEF Exit, ThreadInv, Idle
  <1>3. OnlyCallOf(Main) /\ k2 = [Idle EXCEPT !.op = "exit"]
    BY <1>1 DEF Exit, OnlyCallOf, Alike, ThreadInv
  <1>4. /\ k2.todo = <<>> /\ NoBlock(k2) /\ Resting(k2) /\ DOMAIN k2 = CallFields /\ k2.op = "exit"
    BY <1>3 DEF Idle, NoBlock, Resting, CallFields
  <1>5. Has(k2, None, {}, {}, {}) /\ CallOK(k2, tails) /\ Past(k2)
    BY <1>3, <1>4, HasNothing, PastIs DEF CallOK
  <1>6. /\ UNCHANGED <<tracker, initVars, live, tails, held, aborted, started, record, reused, report>>
        /\ is_init_done /\ is_exit_done' = TRUE
        /\ report = None /\ aborted = FALSE /\ is_exit_done = FALSE /\ record[Main] = None
    BY <1>1, <1>2, NoRecord DEF Exit, heapVars, Running, ThreadInv
  <1>7. SameTraces(Main) /\ SameOwner(Main) /\ (AllTrace' => AllTrace)
    BY <1>2, <1>3, <1>5, <1>6 DEF SameTraces, SameOwner, Has, tracker, AllTrace
  <1>8. OwnerInv' /\ BooksInv' /\ InternalInv' /\ RecordInv' /\ InitInv'
    BY <1>1, <1>2, <1>3, <1>5, <1>6, <1>7, OwnerSame, BooksSame, InternalSame, RecordStep, InitStep
       DEF SameTraces, SameOwner, Has, SameRole
  <1>9. ThreadInv'
    <2>1. \A u \in Threads \ {Main} : call'[u] = call[u]
      BY <1>3 DEF OnlyCallOf, Alike
    <2>2. Others \subseteq Threads \ {Main}
      BY ThreadAssumption DEF Threads
    <2> QED BY <1>1, <1>3, <1>4, <1>5, <1>6, <2>1, <2>2 DEF ThreadInv, OnlyCallOf
  <1>10. ReportInv' /\ NeverAborts'
    BY <1>6 DEF ReportInv, NeverAborts
  <1> QED BY <1>8, <1>9, <1>10 DEF HeapInv

-----------------------------------------------------------------------------
(* The first call.                                                         *)

\* A step that only changes what is left to do.
LEMMA TodoIs ==
    ASSUME ThreadInv, NEW t \in Threads, NEW s, call' = [call EXCEPT ![t].todo = s]
    PROVE  /\ OnlyCallOf(t) /\ DOMAIN call'[t] = CallFields /\ call'[t].todo = s
           /\ call'[t].op = call[t].op /\ call'[t].old = call[t].old /\ call'[t].new = call[t].new
  <1>1. DOMAIN call = Threads /\ DOMAIN call[t] = CallFields
    BY DEF ThreadInv, CallOK
  <1>2. call'[t] = [call[t] EXCEPT !.todo = s]
    BY <1>1
  <1> QED BY <1>1, <1>2 DEF OnlyCallOf, Alike, CallFields

\* Who is in the initialisation is main.
LEMMA FirstIsMain ==
    ASSUME InitInv, NEW t \in Threads, BeforeLock(call[t]) \/ InInit(call[t])
    PROVE  t = Main /\ is_init_done = FALSE
  BY DEF InitInv, Threads

\* The steps from one stage of the first call to the next.
FirstStep(t) ==
    /\ Running(t)
    /\ BeforeLock(call[t]) \/ InInit(call[t])
    /\ InInit(call'[t]) \/ Asking(call'[t])
    /\ call'[t].op = call[t].op /\ DOMAIN call'[t] = CallFields
    /\ OnlyCallOf(t) /\ held' \ {Static} = held \ {Static}
    /\ UNCHANGED <<tracker, record, exitVars, live, tails, started, reused>>

\* The first step of a call.
LEMMA FirstKeeps ==
    ASSUME HeapInv, NEW t \in Threads, FirstStep(t), aborted' \in BOOLEAN
    PROVE  ThreadInv' /\ OwnerInv' /\ RecordInv' /\ BooksInv' /\ InternalInv' /\ ReportInv'
  <1>1. NoBlock(call[t]) /\ NoBlock(call'[t]) /\ call[t].op # "exit" /\ call'[t].op # "exit"
    BY DEF FirstStep, BeforeLock, InInit, Asking, AllocOps, Ops
  <1>2. Has(call[t], None, {}, {}, {}) /\ Has(call'[t], None, {}, {}, {})
    BY <1>1, HasNothing DEF FirstStep
  <1>3. SameTraces(t) /\ CallOK(call'[t], tails) /\ SameRole(call[t], call'[t])
    BY <1>2 DEF SameTraces, SameOwner, Has, FirstStep, CallOK, SameRole, tracker
  <1>4. record[t] = None
    <2>1. HeadDo(call[t]) # "trace"
      BY HeadsBefore DEF FirstStep
    <2> QED BY <2>1, NoRecord DEF HeapInv
  <1>5. started \subseteq started' /\ started' \subseteq Threads
    BY DEF FirstStep, HeapInv, ThreadInv
  <1>6. Running(t) /\ UNCHANGED <<tracker, record, exitVars>>
    BY DEF FirstStep
  <1> QED BY <1>1, <1>3, <1>4, <1>5, <1>6, Quiet

\* Main stays in the initialisation.
LEMMA InitStays ==
    ASSUME InitInv, InInit(call[Main]), InInit(call'[Main]), OnlyCallOf(Main),
           UNCHANGED <<initVars, exitVars, live, started>>
    PROVE  InitInv'
  <1>1. \A u \in Others : call'[u] = call[u]
    BY ThreadAssumption DEF OnlyCallOf, Alike, Threads
  <1>2. /\ is_init_done' = is_init_done /\ init_lock' = init_lock
        /\ init_lock_count' = init_lock_count /\ started' = started /\ live' = live
        /\ is_exit_done' = is_exit_done
    BY DEF initVars, exitVars
  <1>3. InInit(call[Main]) = TRUE /\ InInit(call'[Main]) = TRUE /\ is_init_done = FALSE
    BY DEF InitInv
  <1> QED BY <1>1, <1>2, <1>3 DEF InitInv

\* A call takes the initialisation upon itself.
LEMMA InitBeginKeeps ==
    ASSUME HeapInv, NEW t \in Threads, InitBegin(t)
    PROVE  HeapInv'
  <1> DEFINE k == call[t]  k2 == call'[t]
  <1>0. ThreadInv /\ InitInv /\ CallOK(k, tails)
    BY DEF HeapInv, ThreadInv
  <1>1. /\ Running(t) /\ k.todo # <<>> /\ HeadDo(k) = "touch" /\ init_lock_count[t] = 0
        /\ init_lock' = TRUE /\ init_lock_count' = [init_lock_count EXCEPT ![t] = 1]
        /\ call' = [call EXCEPT ![t].todo = <<Initial>> \o Tail(k.todo)]
        /\ UNCHANGED <<tracker, is_init_done, heapVars, exitVars, aborted, record, started, reused>>
    <2>1. /\ Running(t) /\ k.todo # <<>> /\ HeadDo(k) = "touch" /\ ~(init_lock_count[t] > 0)
          /\ init_lock' = TRUE
          /\ init_lock_count' = [init_lock_count EXCEPT ![t] = init_lock_count[t] + 1]
          /\ call' = [call EXCEPT ![t].todo = <<Initial>> \o Tail(k.todo)]
          /\ UNCHANGED <<tracker, is_init_done, heapVars, exitVars, aborted, record, started, reused>>
      BY DEF InitBegin, Doing, Reentrant, heaph_lock, HeadDo, Initial
    <2>2. init_lock_count[t] = 0
      BY <1>0, <2>1 DEF InitInv
    <2> QED BY <2>1, <2>2
  <1>2. BeforeLock(k)
    <2>1. BeforeLock(k) \/ InInit(k)
      BY <1>0, <1>1, KindIs
    <2> QED BY <1>0, <1>1, <2>1 DEF InitInv, Threads
  <1>3. t = Main /\ is_init_done = FALSE
    BY <1>0, <1>2, FirstIsMain
  <1>4. k2.todo = <<Initial, Al>>
    <2>1. Tail(k.todo) = <<Al>>
      BY <1>2, List2 DEF BeforeLock
    <2>2. k2.todo = <<Initial>> \o Tail(k.todo)
      BY <1>0, <1>1, TodoIs
    <2> QED BY <2>1, <2>2, Join1
  <1>5. /\ OnlyCallOf(t) /\ DOMAIN k2 = CallFields
        /\ k2.op = k.op /\ k2.old = k.old /\ k2.new = k.new
    BY <1>0, <1>1, TodoIs
  <1>6. InInit(k2)
    BY <1>2, <1>4, <1>5 DEF BeforeLock, InInit, NoBlock
  <1>7. FirstStep(t) /\ aborted = FALSE /\ aborted' = aborted /\ aborted' \in BOOLEAN
    BY <1>0, <1>1, <1>2, <1>5, <1>6 DEF FirstStep, heapVars, Running, ThreadInv
  <1>8. InitInv'
    <2>1. \A u \in Others : call'[u] = call[u] /\ init_lock_count'[u] = init_lock_count[u]
      BY <1>0, <1>1, <1>3, <1>5, ThreadAssumption DEF OnlyCallOf, Alike, Threads, InitInv
    <2>2. /\ is_init_done' = FALSE /\ started' = started /\ live' = live /\ is_exit_done' = is_exit_done
          /\ InInit(call'[Main]) = TRUE /\ init_lock_count'[Main] = 1
          /\ init_lock_count' \in [Threads -> 0..1]
      BY <1>0, <1>1, <1>3, <1>6 DEF heapVars, exitVars, InitInv
    <2> QED BY <1>0, <1>1, <1>3, <2>1, <2>2 DEF InitInv
  <1> QED BY <1>7, <1>8, FirstKeeps, NoAssert DEF HeapInv

\* The initialisation calls dlsym.
LEMMA InitCallsKeeps ==
    ASSUME HeapInv, NEW t \in Threads, InitCalls(t)
    PROVE  HeapInv'
  <1> DEFINE k == call[t]  k2 == call'[t]
  <1>0. ThreadInv /\ InitInv /\ CallOK(k, tails)
    BY DEF HeapInv, ThreadInv
  <1>1. /\ Running(t) /\ k.todo # <<>> /\ HeadDo(k) = "init"
        /\ call' = [call EXCEPT ![t].todo = <<Touch, Static1>> \o k.todo]
        /\ UNCHANGED <<tracker, initVars, heapVars, exitVars, aborted, record, started, reused>>
    BY DEF InitCalls, Doing, HeadDo, Touch, Static1
  <1>2. InInit(k) /\ k.todo = <<Initial, Al>>
    BY <1>0, <1>1, KindIs, HeadsBefore
  <1>3. t = Main
    BY <1>0, <1>2, FirstIsMain
  <1>4. k2.todo = <<Touch, Static1, Initial, Al>>
    <2>1. k2.todo = <<Touch, Static1>> \o k.todo
      BY <1>0, <1>1, TodoIs
    <2> QED BY <1>2, <2>1, Join2
  <1>5. /\ OnlyCallOf(t) /\ DOMAIN k2 = CallFields
        /\ k2.op = k.op /\ k2.old = k.old /\ k2.new = k.new
    BY <1>0, <1>1, TodoIs
  <1>6. InInit(k2)
    BY <1>2, <1>4, <1>5 DEF InInit, NoBlock
  <1>7. FirstStep(t) /\ aborted = FALSE /\ aborted' = aborted /\ aborted' \in BOOLEAN
    BY <1>0, <1>1, <1>2, <1>5, <1>6 DEF FirstStep, heapVars, Running, ThreadInv
  <1>8. InitInv'
    BY <1>0, <1>1, <1>2, <1>3, <1>5, <1>6, InitStays DEF heapVars
  <1> QED BY <1>7, <1>8, FirstKeeps, NoAssert DEF HeapInv

\* The allocation of dlsym finds the initialisation under way.
LEMMA NestedTouchKeeps ==
    ASSUME HeapInv, NEW t \in Threads, NestedTouch(t)
    PROVE  HeapInv'
  <1> DEFINE k == call[t]  k2 == call'[t]
  <1>0. ThreadInv /\ InitInv /\ CallOK(k, tails)
    BY DEF HeapInv, ThreadInv
  <1>1. /\ Running(t) /\ k.todo # <<>> /\ HeadDo(k) = "touch" /\ init_lock_count[t] = 1
        /\ call' = [call EXCEPT ![t].todo = Tail(k.todo)]
        /\ UNCHANGED <<tracker, initVars, heapVars, exitVars, aborted, record, started, reused>>
    BY <1>0 DEF NestedTouch, Reentrant, Advance, Doing, HeadDo, InitInv
  <1>2. t = Main /\ InInit(k)
    BY <1>0, <1>1 DEF InitInv, Threads
  <1>3. k.todo = <<Touch, Static1, Initial, Al>>
    BY <1>1, <1>2, HeadsBefore
  <1>4. k2.todo = <<Static1, Initial, Al>>
    <2>1. k2.todo = Tail(k.todo)
      BY <1>0, <1>1, TodoIs
    <2> QED BY <1>3, <2>1, List4
  <1>5. /\ OnlyCallOf(t) /\ DOMAIN k2 = CallFields
        /\ k2.op = k.op /\ k2.old = k.old /\ k2.new = k.new
    BY <1>0, <1>1, TodoIs
  <1>6. InInit(k2)
    BY <1>2, <1>4, <1>5 DEF InInit, NoBlock
  <1>7. FirstStep(t) /\ aborted = FALSE /\ aborted' = aborted /\ aborted' \in BOOLEAN
    BY <1>0, <1>1, <1>2, <1>5, <1>6 DEF FirstStep, heapVars, Running, ThreadInv
  <1>8. InitInv'
    BY <1>0, <1>1, <1>2, <1>5, <1>6, InitStays DEF heapVars
  <1> QED BY <1>7, <1>8, FirstKeeps, NoAssert DEF HeapInv

\* That allocation is static and not traced.
LEMMA StaticKeeps ==
    ASSUME HeapInv, NEW t \in Threads, static_malloc(t)
    PROVE  HeapInv'
  <1> DEFINE k == call[t]  k2 == call'[t]
  <1>0. ThreadInv /\ InitInv /\ CallOK(k, tails)
    BY DEF HeapInv, ThreadInv
  <1>1. /\ Running(t) /\ k.todo # <<>> /\ HeadDo(k) = "static"
        /\ aborted' = (is_init_done \/ ~init_lock) /\ held' = held \cup {Static}
        /\ call' = [call EXCEPT ![t].todo = Tail(k.todo)]
        /\ UNCHANGED <<tracker, initVars, live, tails, exitVars, record, started, reused>>
    BY DEF static_malloc, Advance, Doing, HeadDo
  <1>2. InInit(k) /\ k.todo = <<Static1, Initial, Al>>
    BY <1>0, <1>1, KindIs, HeadsBefore
  <1>3. t = Main /\ is_init_done = FALSE /\ init_lock = TRUE
    BY <1>0, <1>2, FirstIsMain DEF InitInv
  <1>4. k2.todo = <<Initial, Al>>
    <2>1. k2.todo = Tail(k.todo)
      BY <1>0, <1>1, TodoIs
    <2> QED BY <1>2, <2>1, List3
  <1>5. /\ OnlyCallOf(t) /\ DOMAIN k2 = CallFields
        /\ k2.op = k.op /\ k2.old = k.old /\ k2.new = k.new
    BY <1>0, <1>1, TodoIs
  <1>6. InInit(k2)
    BY <1>2, <1>4, <1>5 DEF InInit, NoBlock
  <1>7. FirstStep(t) /\ aborted' = FALSE
    BY <1>0, <1>1, <1>2, <1>3, <1>5, <1>6 DEF FirstStep
  <1>8. InitInv'
    BY <1>0, <1>1, <1>2, <1>3, <1>5, <1>6, InitStays
  <1> QED BY <1>7, <1>8, FirstKeeps DEF HeapInv, NeverAborts

\* The initialisation ends.
LEMMA InitEndKeeps ==
    ASSUME HeapInv, NEW t \in Threads, InitEnd(t)
    PROVE  HeapInv'
  <1> DEFINE k == call[t]  k2 == call'[t]
  <1>0. ThreadInv /\ InitInv /\ CallOK(k, tails)
    BY DEF HeapInv, ThreadInv
  <1>1. /\ Running(t) /\ k.todo # <<>> /\ HeadDo(k) = "init"
        /\ is_init_done' = TRUE /\ init_lock' = (init_lock /\ init_lock_count[t] # 1)
        /\ init_lock_count' = [init_lock_count EXCEPT ![t] = @ - 1]
        /\ aborted' = (is_init_done \/ init_lock_count[t] < 1)
        /\ call' = [call EXCEPT ![t].todo = Tail(k.todo)]
        /\ UNCHANGED <<tracker, heapVars, exitVars, record, started, reused>>
    BY DEF InitEnd, Advance, Doing, HeadDo, heaph_unlock
  <1>2. InInit(k) /\ k.todo = <<Initial, Al>>
    BY <1>0, <1>1, KindIs, HeadsBefore
  <1>3. t = Main /\ is_init_done = FALSE /\ init_lock_count[Main] = 1
    BY <1>0, <1>2, FirstIsMain DEF InitInv
  <1>4. k2.todo = <<Al>>
    <2>1. k2.todo = Tail(k.todo)
      BY <1>0, <1>1, TodoIs
    <2> QED BY <1>2, <2>1, List2
  <1>5. /\ OnlyCallOf(t) /\ DOMAIN k2 = CallFields
        /\ k2.op = k.op /\ k2.old = k.old /\ k2.new = k.new
    BY <1>0, <1>1, TodoIs
  <1>6. Asking(k2)
    BY <1>2, <1>4, <1>5 DEF InInit, NoBlock, Asking
  <1>7. FirstStep(t) /\ aborted' = FALSE
    <2>1. aborted' = FALSE
      <3>1. aborted' = (is_init_done \/ init_lock_count[t] < 1)
        BY <1>1
      <3>2. init_lock_count[t] = 1 /\ is_init_done = FALSE
        BY <1>3
      <3>3. (init_lock_count[t] < 1) = FALSE
        BY <3>2
      <3> QED BY <3>1, <3>2, <3>3, Zenon
    <2>2. live' = live /\ held' = held /\ tails' = tails
      BY <1>1 DEF heapVars
    <2>3. UNCHANGED <<tracker, record, exitVars, live, tails, started, reused>>
      BY <1>1, <2>2
    <2>4. held' \ {Static} = held \ {Static}
      BY <2>2
    <2>5. Running(t)
      BY <1>1
    <2> QED BY <1>2, <1>5, <1>6, <2>1, <2>3, <2>4, <2>5 DEF FirstStep
  <1>8. InitInv'
    <2>1. \A u \in Others : call'[u] = call[u] /\ init_lock_count'[u] = init_lock_count[u]
      BY <1>0, <1>1, <1>3, <1>5, ThreadAssumption DEF OnlyCallOf, Alike, Threads, InitInv
    <2>2. Past(k2)
      BY <1>6, HeadsBefore, PastIs
    <2>3. /\ init_lock_count'[Main] = 0 /\ init_lock_count' \in [Threads -> 0..1]
          /\ InInit(call'[Main]) = FALSE /\ ~BeforeLock(call'[Main])
      BY <1>0, <1>1, <1>3, <2>2 DEF InitInv, Past
    <2>4. is_init_done' = TRUE /\ init_lock' = FALSE
      BY <1>1, <1>3
    <2>5. \A u \in Others : ~BeforeLock(call'[u]) /\ ~InInit(call'[u]) /\ init_lock_count'[u] = 0
      BY <1>0, <2>1 DEF InitInv
    <2>6. (init_lock_count'[Main] = 1) = FALSE
      BY <2>3
    <2> QED BY <2>3, <2>4, <2>5, <2>6 DEF InitInv
  <1> QED BY <1>7, <1>8, FirstKeeps DEF HeapInv, NeverAborts

-----------------------------------------------------------------------------
(* The end of a call.                                                      *)

\* libc has answered.
LEMMA ThenIs ==
    ASSUME ThreadInv, NEW t \in Threads, NEW new, NEW s, Then(t, new, s)
    PROVE  /\ OnlyCallOf(t) /\ DOMAIN call'[t] = CallFields /\ call'[t].todo = s
           /\ call'[t].op = call[t].op /\ call'[t].old = call[t].old /\ call'[t].new = new
  <1>1. DOMAIN call = Threads /\ DOMAIN call[t] = CallFields
    BY DEF ThreadInv, CallOK
  <1>2. call'[t] = [call[t] EXCEPT !.new = new, !.todo = s]
    BY <1>1 DEF Then
  <1> QED BY <1>1, <1>2 DEF OnlyCallOf, Alike, CallFields, Then

\* A strdup is refused only to a thread that outlives exit.
LEMMA RefusedLate ==
    ASSUME ThreadInv, InitInv, NEW t \in Threads, Running(t), call[t].op # "exit",
           aborted' = (call[t].op = "strdup" /\ is_exit_done), UNCHANGED <<exitVars, started>>
    PROVE  NeverAborts' /\ aborted' \in BOOLEAN
  <1>1. is_exit_done => LateThread
    BY Acting
  <1> QED BY <1>1 DEF NeverAborts, LateThread, exitVars, ThreadInv

\* libc has no memory.
LEMMA FailsKeeps ==
    ASSUME HeapInv, NEW t \in Threads, LibcFails(t)
    PROVE  HeapInv'
  <1> DEFINE k == call[t]  k2 == call'[t]
  <1>0. ThreadInv /\ InitInv /\ CallOK(k, tails)
    BY DEF HeapInv, ThreadInv
  <1>1. /\ Running(t) /\ k.todo # <<>> /\ HeadDo(k) = "alloc" /\ Then(t, None, <<>>)
        /\ aborted' = (k.op = "strdup" /\ is_exit_done)
        /\ UNCHANGED <<tracker, initVars, heapVars, exitVars, record, started, reused>>
    BY DEF LibcFails, Doing, HeadDo
  <1>2. Asking(k) /\ NoBlock(k) /\ Past(k) /\ k # Idle
    BY <1>0, <1>1, KindIs, PastIs DEF Asking, Idle
  <1>3. /\ OnlyCallOf(t) /\ DOMAIN k2 = CallFields /\ k2.todo = <<>>
        /\ k2.op = k.op /\ k2.old = k.old /\ k2.new = None
    BY <1>0, <1>1, ThenIs
  <1>4. Finished(k2) /\ Past(k2) /\ k.op # "exit"
    BY <1>2, <1>3, PastIs DEF Asking, NoBlock, Finished, AllocOps, Ops, Blocks
  <1>5. Has(k, None, {}, {}, {}) /\ Has(k2, None, {}, {}, {})
    BY <1>2, <1>3, <1>4, HasNothing, HasDone
  <1>6. /\ SameTraces(t) /\ CallOK(k2, tails) /\ SameRole(k, k2) /\ record[t] = None
        /\ started \subseteq started' /\ started' \subseteq Threads
    BY <1>0, <1>1, <1>3, <1>4, <1>5, NoRecord
       DEF SameTraces, SameOwner, Has, CallOK, SameRole, tracker, heapVars, HeapInv, ThreadInv
  <1>7. NeverAborts' /\ aborted' \in BOOLEAN
    BY <1>0, <1>1, <1>4, RefusedLate
  <1>8. ThreadInv' /\ OwnerInv' /\ RecordInv' /\ BooksInv' /\ InternalInv' /\ ReportInv'
    BY <1>1, <1>3, <1>4, <1>6, <1>7, Quiet
  <1>9. InitInv'
    <2>1. is_init_done
      BY <1>0, <1>1, <1>2, <1>4, Acting DEF Past
    <2> QED BY <1>0, <1>1, <1>3, <1>4, <2>1, InitStep
  <1> QED BY <1>7, <1>8, <1>9 DEF HeapInv

\* The call that returns a block.
LEMMA GiveKeeps ==
    ASSUME HeapInv, NEW t \in Threads, Running(t), Finished(call[t]), call[t].new # None,
           call'[t] = Idle, OnlyCallOf(t), started \subseteq started', started' \subseteq Threads,
           held' = held \cup {call[t].new} \/ (held' = held /\ call[t].op = "pthread_create"),
           call[t].op = "pthread_create" => held' = held,
           UNCHANGED <<tracker, initVars, live, tails, exitVars, aborted, record, reused>>
    PROVE  HeapInv'
  <1> DEFINE k == call[t]  k2 == call'[t]  a == call[t].new
  <1>1. ThreadInv /\ OwnerInv /\ RecordInv /\ BooksInv /\ InternalInv /\ InitInv
    BY DEF HeapInv
  <1>2. /\ k.todo = <<>> /\ k2.todo = <<>> /\ NoBlock(k2) /\ k.op # "exit" /\ k2.op # "exit"
        /\ DOMAIN k2 = CallFields /\ Resting(k2) /\ a \in Addrs /\ k # Idle
    BY DEF Finished, Idle, NoBlock, CallFields, Resting, Ops, Blocks
  <1>3. Has(k, a, {}, {}, {}) /\ Has(k2, None, {}, {}, {}) /\ CallOK(k2, tails) /\ Past(k2) /\ Past(k)
    BY <1>2, HasDone, HasNothing, PastIs DEF CallOK
  <1>4. /\ t \in started /\ aborted = FALSE /\ record[t] = None /\ report = None /\ is_init_done
        /\ reused \in BOOLEAN /\ aborted \in BOOLEAN /\ Main \in started
    BY <1>1, <1>2, <1>3, Acting, NoRecord DEF ThreadInv, Past
  <1>5. /\ allocs' = allocs /\ alloc_count' = alloc_count /\ live' = live /\ tails' = tails
        /\ reused' = reused /\ aborted' = aborted /\ record' = record
        /\ is_exit_done' = is_exit_done /\ report' = report /\ lost' = lost
    BY DEF tracker, exitVars
  <1>6. ThreadInv'
    BY <1>1, <1>2, <1>3, <1>4, <1>5, ThreadStep DEF ThreadInv
  <1>7. InitInv' /\ RecordInv'
    BY <1>1, <1>3, <1>4, InitStep, RecordStep
  <1>8. AllTrace' => AllTrace
    BY <1>4, <1>5 DEF AllTrace
  <1>9. BooksInv'
    BY <1>1, <1>3, <1>5, <1>8, BooksSame DEF Has
  <1>10. \A u \in Threads \ {t} : call'[u] = call[u]
    BY DEF OnlyCallOf, Alike
  <1>11. Own(k) = a /\ Own(k2) = None /\ StaleOf(k) = {} /\ StaleOf(k2) = {}
    BY <1>3 DEF Has
  <1>12. OwnerInv'
    <2>1. TailBlocks' = TailBlocks
      BY <1>5 DEF TailBlocks
    <2>2. a \in live \ (TailBlocks \cup held) /\ held' \subseteq held \cup {a}
      BY <1>1, <1>2, <1>11, NoneIs DEF OwnerInv
    <2>3. \A u \in Threads \ {t} : /\ Own(call[u]) # a
                                   /\ Own(call[u]) \in (live \ (TailBlocks \cup held')) \cup {None}
      BY <1>1, <1>2, <1>11, <2>2 DEF OwnerInv
    <2>4. \A u \in Threads : Own(call'[u]) \in (live \ (TailBlocks \cup held')) \cup {None}
      BY <1>10, <1>11, <2>3
    <2>5. \A u, v \in Threads : Own(call'[u]) = Own(call'[v]) => u = v \/ Own(call'[u]) = None
      BY <1>1, <1>10, <1>11 DEF OwnerInv
    <2> QED BY <1>1, <1>5, <2>1, <2>2, <2>4, <2>5 DEF OwnerInv
  <1>13. InternalInv'
    <2>1. SUFFICES ASSUME AllTrace, ~reused
                   PROVE  /\ \A b \in Addrs : \A u, v \in Stale(b)' : b \notin live /\ u = v
                          /\ \A r \in Elems(allocs) : Keeper(r)'
      BY <1>5, <1>8 DEF InternalInv
    <2>2. \A b \in Addrs : Stale(b)' = Stale(b)
      BY <1>11, StaleSame
    <2>3. Traceable' = Traceable
      BY <1>5 DEF Traceable
    <2>4. ASSUME NEW r \in Elems(allocs) PROVE Keeper(r)'
      <3>1. Keeper(r) /\ r.mem \in Addrs /\ r.mem # None
        BY <1>1, <2>1, EntryIs, NoneIs DEF InternalInv, RecordInv
      <3>2. t \notin Stale(r.mem)
        BY <1>11, <3>1, StaleIs
      <3>3. CASE r.internal
        <4>1. r.mem \notin held'
          BY <1>11, <3>1, <3>3 DEF Keeper
        <4> QED BY <1>10, <1>11, <2>3, <3>1, <3>3, <4>1 DEF Keeper
      <3>4. CASE ~r.internal
        <4>1. CASE r.mem \in held'
          BY <3>4, <4>1 DEF Keeper
        <4>2. CASE r.mem \notin held'
          <5>1. r.mem \notin held
            BY <4>2
          <5>2. PICK u \in Threads : /\ call[u].op # "pthread_create"
                                     /\ Own(call[u]) = r.mem \/ u \in Stale(r.mem)
            BY <3>1, <3>4, <5>1 DEF Keeper
          <5>3. u # t
            BY <1>11, <3>2, <4>2, <5>2
          <5>4. /\ call'[u].op # "pthread_create"
                /\ Own(call'[u]) = r.mem \/ u \in Stale(r.mem)'
            BY <1>10, <2>2, <3>1, <5>2, <5>3
          <5> QED BY <3>4, <5>4 DEF Keeper
        <4> QED BY <4>1, <4>2
      <3> QED BY <3>3, <3>4
    <2> QED BY <1>1, <2>1, <2>2, <2>4 DEF InternalInv
  <1>14. ReportInv' /\ NeverAborts'
    BY <1>4, <1>5 DEF ReportInv, NeverAborts
  <1> QED BY <1>6, <1>7, <1>9, <1>12, <1>13, <1>14 DEF HeapInv

\* A call returns.
LEMMA ReturnKeeps ==
    ASSUME HeapInv, NEW t \in Threads, Return(t)
    PROVE  HeapInv'
  <1> DEFINE k == call[t]  k2 == call'[t]
  <1>0. ThreadInv /\ InitInv /\ CallOK(k, tails) /\ DOMAIN call = Threads
    BY DEF HeapInv, ThreadInv
  <1>1. /\ Running(t) /\ k.op # "idle" /\ k.op # "exit" /\ k.todo = <<>>
        /\ call' = [call EXCEPT ![t] = Idle]
        /\ UNCHANGED <<tracker, initVars, live, tails, exitVars, aborted, record, reused>>
    BY DEF Return
  <1>2. OnlyCallOf(t) /\ k2 = Idle
    BY <1>0, <1>1 DEF OnlyCallOf, Alike
  <1>3. Finished(k)
    <2>1. Past(k) /\ ~Resting(k)
      BY <1>1, PastIs DEF Resting, Idle
    <2>2. /\ ~Asking(k) /\ ~Got(k) /\ ~Resizing(k, tails) /\ ~HasMoved(k) /\ ~Emptied(k) /\ ~Refused(k)
          /\ ~Freeing(k, tails) /\ ~FreeingTail(k, tails) /\ ~FreeingHead(k, tails)
      BY <1>1, List1, List2, List3, List4, List5
         DEF Asking, Got, Resizing, HasMoved, Emptied, Refused, Freeing, FreeingTail, FreeingHead
    <2> QED BY <1>0, <2>1, <2>2 DEF CallOK, Past
  <1>4. CASE k.new = None
    <2>1. /\ held' = held /\ started' = started
      BY <1>4 DEF Return
    <2>2. /\ k2.todo = <<>> /\ NoBlock(k2) /\ k2.op # "exit"
          /\ DOMAIN k2 = CallFields /\ Resting(k2) /\ k # Idle
      BY <1>1, <1>2 DEF Idle, NoBlock, CallFields, Resting
    <2>3. /\ Has(k, None, {}, {}, {}) /\ Has(k2, None, {}, {}, {}) /\ CallOK(k2, tails) /\ Past(k2)
          /\ Past(k)
      BY <1>1, <1>2, <1>3, <1>4, <2>2, HasDone, HasNothing, PastIs DEF CallOK
    <2>4. /\ SameTraces(t) /\ SameRole(k, k2) /\ record[t] = None
          /\ started \subseteq started' /\ started' \subseteq Threads /\ aborted' \in BOOLEAN
      BY <1>0, <1>1, <1>2, <2>1, <2>3, NoRecord
         DEF SameTraces, SameOwner, Has, SameRole, tracker, HeapInv, ThreadInv
    <2>5. ThreadInv' /\ OwnerInv' /\ RecordInv' /\ BooksInv' /\ InternalInv' /\ ReportInv'
      BY <1>1, <2>2, <2>3, <2>4, Quiet
    <2>6. is_init_done /\ aborted = FALSE
      BY <1>0, <1>1, <2>2, <2>3, Acting DEF Past
    <2>7. InitInv' /\ NeverAborts'
      BY <1>0, <1>1, <1>2, <2>3, <2>6, InitStep, NoAssert
    <2> QED BY <2>5, <2>7 DEF HeapInv
  <1>5. CASE k.new # None /\ k.op = "pthread_create"
    <2>1. held' = held /\ \E u \in Others \ started : started' = started \cup {u}
      BY <1>5 DEF Return
    <2>2. started \subseteq started' /\ started' \subseteq Threads
      BY <1>0, <2>1 DEF ThreadInv, Threads
    <2> QED BY <1>1, <1>2, <1>3, <1>5, <2>1, <2>2, GiveKeeps
  <1>6. CASE k.new # None /\ k.op # "pthread_create"
    <2>1. held' = held \cup {k.new} /\ started' = started
      BY <1>6 DEF Return
    <2>2. started \subseteq started' /\ started' \subseteq Threads
      BY <1>0, <2>1 DEF ThreadInv
    <2> QED BY <1>1, <1>2, <1>3, <1>6, <2>1, <2>2, GiveKeeps
  <1> QED BY <1>4, <1>5, <1>6

-----------------------------------------------------------------------------
(* What libc does to the heap.                                             *)

\* A block that some realloc left is Moved.
LEMMA StaleMoved ==
    ASSUME ThreadInv, NEW a \in Addrs, ~Moved(a)
    PROVE  Stale(a) = {}
  <1>1. SUFFICES ASSUME NEW u \in Stale(a) PROVE FALSE
    OBVIOUS
  <1>2. u \in Threads /\ a \in StaleOf(call[u])
    BY <1>1, StaleIs DEF Stale
  <1>3. CallOK(call[u], tails)
    BY <1>2 DEF ThreadInv
  <1>4. /\ call[u].op \in {"realloc", "getline"} /\ a = call[u].old /\ a # call[u].new
        /\ Un(a) \in ToSet(call[u].todo)
    BY <1>2, <1>3, Shape
  <1> QED BY <1>2, <1>4 DEF Moved, Un

\* The threads whose call a libc function answers.
LEMMA Answered ==
    ASSUME HeapInv, NEW t \in Threads, Running(t), call[t].todo # <<>>,
           HeadDo(call[t]) \in {"alloc", "resize", "dealloc", "trace", "untrace"}
    PROVE  /\ call[t].op # "exit" /\ t \in started /\ aborted = FALSE /\ report = None /\ is_init_done
           /\ AllTrace <=> ~is_exit_done
           /\ CallOK(call[t], tails) /\ ThreadInv /\ OwnerInv /\ RecordInv /\ BooksInv /\ InternalInv
           /\ InitInv
  <1>1. CallOK(call[t], tails) /\ ThreadInv /\ InitInv
    BY DEF HeapInv, ThreadInv
  <1>2. Past(call[t]) /\ call[t] # Idle
    BY PastIs DEF Idle
  <1>3. call[t].op # "exit"
    BY SMTT(40), <1>1 DEF CallOK, BeforeLock, InInit, Resting, Asking, Finished, Got, Resizing, HasMoved, Emptied,
           Refused, Freeing, FreeingTail, FreeingHead, AllocOps, Ops, Idle
  <1> QED BY <1>1, <1>2, <1>3, Acting DEF HeapInv, Past

\* A call gets the block a, perhaps with a list behind it.
NewBlock(t, a) ==
    /\ Running(t) /\ Asking(call[t]) /\ Got(call'[t]) /\ DOMAIN call'[t] = CallFields
    /\ call'[t].op = call[t].op /\ call'[t].new = a /\ OnlyCallOf(t)
    /\ a \in Addrs \ live /\ live \subseteq live' /\ live' \subseteq Addrs
    /\ Traceable' = Traceable \cup {a}
    /\ DOMAIN tails' \subseteq live' /\ TailBlocks' \subseteq live' \ DOMAIN tails'
    /\ \A x, y \in DOMAIN tails' : tails'[x] = tails'[y] => x = y
    /\ \A u \in Threads \ {t} : CallOK(call[u], tails')
    /\ reused' \in BOOLEAN /\ (~reused' => ~reused /\ \A x \in live' \ live : ~Moved(x))
    /\ UNCHANGED <<tracker, initVars, exitVars, held, record, started>>

\* A call that got a new block.
LEMMA NewBlockKeeps ==
    ASSUME HeapInv, NEW t \in Threads, NEW a, NewBlock(t, a), NeverAborts', aborted' \in BOOLEAN
    PROVE  HeapInv'
  <1> DEFINE k == call[t]  k2 == call'[t]
  <1>1. Running(t) /\ Asking(k) /\ k.todo # <<>> /\ HeadDo(k) = "alloc"
    BY HeadsBefore DEF NewBlock, Asking
  <1>2. /\ k.op # "exit" /\ t \in started /\ aborted = FALSE /\ report = None /\ is_init_done
        /\ CallOK(k, tails) /\ ThreadInv /\ OwnerInv /\ RecordInv /\ BooksInv /\ InternalInv /\ InitInv
    BY <1>1, Answered
  <1>3. Has(k, None, {}, {}, {}) /\ Has(k2, a, {a}, {}, {})
    BY <1>1, HasNothing, HasGot DEF NewBlock, Asking
  <1>4. /\ a \in Addrs \ live /\ a # None /\ a # Static /\ OnlyCallOf(t) /\ k2.op = k.op /\ k2.new = a
        /\ CallOK(k2, tails') /\ Past(k2)
    BY NoneIs, PastIs DEF NewBlock, CallOK
  <1>5. /\ allocs' = allocs /\ alloc_count' = alloc_count /\ record' = record /\ lost' = lost
        /\ is_exit_done' = is_exit_done /\ report' = report /\ started' = started /\ held' = held
    BY DEF NewBlock, tracker, exitVars
  <1>6. ThreadInv'
    BY <1>2, <1>4, <1>5, ThreadStep DEF NewBlock, ThreadInv
  <1>7. InitInv'
    BY <1>2, <1>4, InitStep DEF NewBlock
  <1>8. RecordInv'
    <2>1. record[t] = None
      BY <1>1, <1>2, NoRecord
    <2> QED BY <1>2, <1>4, <2>1, RecordStep DEF NewBlock
  <1>9. AllTrace' => AllTrace
    BY <1>2, <1>5 DEF AllTrace
  <1>10. a \notin Traceable /\ Traceable' = Traceable \cup {a}
    BY <1>4 DEF Traceable, NewBlock
  <1>11. BooksInv'
    <2>1. allocs \in Seq(Entry) /\ allocs' \in Seq(Entry) /\ alloc_count' = Len(allocs')
      BY <1>2, <1>5 DEF RecordInv, BooksInv
    <2>2. ASSUME NEW x \in Addrs
          PROVE  /\ Cardinality(OfIn(allocs', x)) - Cardinality(OfIn(allocs, x))
                    + In(x, TracingOf(k2)) - In(x, TracingOf(k))
                    + In(x, UntracedOf(k2)) - In(x, UntracedOf(k))
                    = In(x, Traceable') - In(x, Traceable)
                      + In(x, StaleOf(k2)) - In(x, StaleOf(k))
      <3>1. Cardinality(OfIn(allocs, x)) \in Int /\ OfIn(allocs', x) = OfIn(allocs, x)
        BY <1>5, <2>1, OfFinite
      <3>2. /\ TracingOf(k) = {} /\ UntracedOf(k) = {} /\ StaleOf(k) = {}
            /\ TracingOf(k2) = {a} /\ UntracedOf(k2) = {} /\ StaleOf(k2) = {}
        BY <1>3 DEF Has
      <3>3. In(x, {}) = 0 /\ In(x, {a}) = In(x, Traceable') - In(x, Traceable) /\ In(x, {a}) \in Int
        BY <1>10 DEF In
      <3> QED BY <3>1, <3>2, <3>3
    <2> QED BY <1>2, <1>4, <1>5, <1>9, <2>1, <2>2, BooksStep
  <1>12. \A u \in Threads \ {t} : call'[u] = call[u]
    BY <1>4 DEF OnlyCallOf, Alike
  <1>13. Own(k) = None /\ Own(k2) = a /\ StaleOf(k) = {} /\ StaleOf(k2) = {}
    BY <1>3 DEF Has
  <1>14. Traceable = live \ TailBlocks /\ Traceable' = live' \ TailBlocks'
    BY DEF Traceable, TailBlocks
  <1>15. OwnerInv'
    <2>1. a \in Traceable' \ held /\ held \subseteq Traceable' \cup {Static}
      BY <1>2, <1>4, <1>10, <1>14 DEF OwnerInv
    <2>2. \A u \in Threads \ {t} : Own(call[u]) # a /\ Own(call[u]) \in (Traceable' \ held) \cup {None}
      BY <1>2, <1>4, <1>10, <1>14 DEF OwnerInv
    <2>3. \A u \in Threads : Own(call'[u]) \in (live' \ (TailBlocks' \cup held)) \cup {None}
      BY <1>12, <1>13, <1>14, <2>1, <2>2
    <2>4. \A u, v \in Threads : Own(call'[u]) = Own(call'[v]) => u = v \/ Own(call'[u]) = None
      BY <1>2, <1>12, <1>13, <2>2 DEF OwnerInv
    <2>5. held' \subseteq (live' \ TailBlocks') \cup {Static}
      BY <1>5, <1>14, <2>1
    <2>6. /\ live' \subseteq Addrs
          /\ DOMAIN tails' \subseteq live' /\ TailBlocks' \subseteq live' \ DOMAIN tails'
          /\ \A x, y \in DOMAIN tails' : tails'[x] = tails'[y] => x = y
      BY DEF NewBlock
    <2> QED BY <1>5, <2>3, <2>4, <2>5, <2>6 DEF OwnerInv
  <1>16. InternalInv'
    <2>1. SUFFICES ASSUME AllTrace, ~reused'
                   PROVE  /\ \A b \in Addrs : \A u, v \in Stale(b)' : b \notin live' /\ u = v
                          /\ \A r \in Elems(allocs) : Keeper(r)'
      BY <1>5, <1>9 DEF InternalInv
    <2>2. ~reused /\ \A x \in live' \ live : ~Moved(x)
      BY <2>1 DEF NewBlock
    <2>3. \A b \in Addrs : Stale(b)' = Stale(b)
      BY <1>4, <1>13, StaleSame
    <2>4. \A b \in Addrs : \A u, v \in Stale(b) : b \notin live' /\ u = v
      BY <1>2, <2>1, <2>2, StaleMoved DEF InternalInv
    <2>5. ASSUME NEW r \in Elems(allocs) PROVE Keeper(r)'
      <3>1. Keeper(r) /\ r.mem \in Addrs /\ r.mem # None
        BY <1>2, <2>1, <2>2, EntryIs, NoneIs DEF InternalInv, RecordInv
      <3>2. t \notin Stale(r.mem)
        BY <1>13, <3>1, StaleIs
      <3>3. CASE r.internal
        BY <1>5, <1>10, <1>12, <1>13, <3>1, <3>3 DEF Keeper
      <3>4. CASE ~r.internal
        <4>1. CASE r.mem \in held
          BY <1>5, <3>4, <4>1 DEF Keeper
        <4>2. CASE r.mem \notin held
          <5>1. PICK u \in Threads : /\ call[u].op # "pthread_create"
                                     /\ Own(call[u]) = r.mem \/ u \in Stale(r.mem)
            BY <3>1, <3>4, <4>2 DEF Keeper
          <5>2. u # t
            BY <1>13, <3>1, <3>2, <5>1
          <5>3. /\ call'[u].op # "pthread_create"
                /\ Own(call'[u]) = r.mem \/ u \in Stale(r.mem)'
            BY <1>12, <2>3, <3>1, <5>1, <5>2
          <5> QED BY <3>4, <5>3 DEF Keeper
        <4> QED BY <4>1, <4>2
      <3> QED BY <3>3, <3>4
    <2> QED BY <2>3, <2>4, <2>5
  <1>17. ReportInv'
    BY <1>2, <1>5 DEF ReportInv
  <1> QED BY <1>6, <1>7, <1>8, <1>11, <1>15, <1>16, <1>17 DEF HeapInv

\* libc gives a block.
LEMMA AllocKeeps ==
    ASSUME HeapInv, NEW t \in Threads, LibcAlloc(t)
    PROVE  HeapInv'
  <1> DEFINE k == call[t]  k2 == call'[t]
  <1>1. /\ Running(t) /\ k.todo # <<>> /\ HeadDo(k) = "alloc"
        /\ aborted' = (k.op = "strdup" /\ is_exit_done)
        /\ UNCHANGED <<tracker, initVars, held, tails, exitVars, record, started>>
    BY DEF LibcAlloc, Doing, HeadDo
  <1>2. PICK a \in Free :
          /\ live' = live \cup {a}
          /\ reused' = (reused \/ Moved(a))
          /\ Then(t, a, IF k.op \in Nesting THEN <<Step("trace", a, 2), Step("trace", a, 1)>>
                        ELSE <<Step("trace", a, 1)>>)
    BY DEF LibcAlloc
  <1>3. /\ k.op # "exit" /\ ThreadInv /\ OwnerInv /\ InitInv /\ CallOK(k, tails)
    BY <1>1, Answered
  <1>4. Asking(k)
    BY <1>1, <1>3, KindIs
  <1>5. /\ OnlyCallOf(t) /\ DOMAIN k2 = CallFields
        /\ k2.todo = (IF k.op \in Nesting THEN <<TrIn(a), Tr(a)>> ELSE <<Tr(a)>>)
        /\ k2.op = k.op /\ k2.old = k.old /\ k2.new = a
    BY <1>2, <1>3, ThenIs DEF Tr, TrIn
  <1>6. a \in Addrs \ live
    BY <1>2 DEF Free
  <1>7. Got(k2)
    BY <1>4, <1>5, <1>6 DEF Got, Asking, NoBlock, Blocks
  <1>8. Traceable' = Traceable \cup {a} /\ TailBlocks' = TailBlocks /\ tails' = tails
    BY <1>1, <1>2, <1>3, <1>6 DEF Traceable, TailBlocks, OwnerInv
  <1>9. \A u \in Threads \ {t} : CallOK(call[u], tails')
    BY <1>3, <1>8 DEF ThreadInv
  <1>10. reused' \in BOOLEAN /\ (~reused' => ~reused /\ \A x \in live' \ live : ~Moved(x))
    BY <1>2
  <1>11. NewBlock(t, a)
    BY <1>1, <1>2, <1>3, <1>4, <1>5, <1>6, <1>7, <1>8, <1>9, <1>10 DEF NewBlock, OwnerInv
  <1>12. NeverAborts' /\ aborted' \in BOOLEAN
    BY <1>1, <1>3, RefusedLate
  <1> QED BY <1>11, <1>12, NewBlockKeeps

\* A call of another thread that frees or resizes keeps its place in the lists.
LEMMA ListGrows ==
    ASSUME ThreadInv, OwnerInv, NEW a, a \notin live, NEW T, DOMAIN T = DOMAIN tails \cup {a},
           \A x \in DOMAIN tails : T[x] = tails[x],
           NEW u \in Threads
    PROVE  CallOK(call[u], T)
  <1> DEFINE k == call[u]
  <1>1. CallOK(k, tails) /\ Own(k) \in live \cup {None}
    BY DEF ThreadInv, OwnerInv
  <1>2. ASSUME Resizing(k, tails) PROVE Resizing(k, T)
    <2>1. Own(k) = k.old /\ k.old \in Addrs
      BY <1>2, HasResize DEF Has, Resizing
    <2> QED BY <1>1, <1>2, <2>1, NoneIs DEF Resizing
  <1>3. ASSUME Freeing(k, tails) PROVE Freeing(k, T)
    <2>1. Own(k) = k.old /\ k.old \in Addrs
      BY <1>3, HasFreeing DEF Has, Freeing
    <2> QED BY <1>1, <1>3, <2>1, NoneIs DEF Freeing
  <1>4. ASSUME FreeingHead(k, tails) PROVE FreeingHead(k, T)
    <2>1. Own(k) = k.old /\ k.old \in Addrs
      BY <1>4, HasFreeingHead DEF Has, FreeingHead
    <2> QED BY <1>1, <1>4, <2>1, NoneIs DEF FreeingHead
  <1>5. ASSUME FreeingTail(k, tails) PROVE FreeingTail(k, T)
    BY <1>5 DEF FreeingTail
  <1> QED BY <1>1, <1>2, <1>3, <1>4, <1>5 DEF CallOK

\* libc gives a list of addresses.
LEMMA GetaddrinfoKeeps ==
    ASSUME HeapInv, NEW t \in Threads, LibcGetaddrinfo(t)
    PROVE  HeapInv'
  <1> DEFINE k == call[t]  k2 == call'[t]
  <1>1. /\ Running(t) /\ k.todo # <<>> /\ HeadDo(k) = "alloc"
        /\ UNCHANGED <<tracker, initVars, held, exitVars, aborted, record, started>>
    BY DEF LibcGetaddrinfo, Doing, HeadDo
  <1>2. PICK a \in Free, b \in Free :
          /\ a # b
          /\ live' = live \cup {a, b}
          /\ reused' = (reused \/ Moved(a) \/ Moved(b))
          /\ tails' = [x \in DOMAIN tails \cup {a} |-> IF x = a THEN b ELSE tails[x]]
          /\ Then(t, a, <<Step("trace", a, 2), Step("trace", b, 2), Step("trace", a, 1)>>)
    BY DEF LibcGetaddrinfo
  <1>3. /\ k.op # "exit" /\ ThreadInv /\ OwnerInv /\ InitInv /\ CallOK(k, tails) /\ aborted = FALSE
    BY <1>1, Answered
  <1>4. Asking(k)
    BY <1>1, <1>3, KindIs
  <1>5. /\ OnlyCallOf(t) /\ DOMAIN k2 = CallFields
        /\ k2.todo = <<TrIn(a), TrIn(b), Tr(a)>>
        /\ k2.op = k.op /\ k2.old = k.old /\ k2.new = a
    BY <1>2, <1>3, ThenIs DEF Tr, TrIn
  <1>6. a \in Addrs \ live /\ b \in Addrs \ live /\ a # b
    BY <1>2 DEF Free
  <1>7. Got(k2)
    BY <1>4, <1>5, <1>6 DEF Got, Asking, NoBlock, Blocks
  <1>8. /\ DOMAIN tails' = DOMAIN tails \cup {a} /\ tails'[a] = b
        /\ \A x \in DOMAIN tails : tails'[x] = tails[x]
    BY <1>2, <1>3, <1>6 DEF OwnerInv
  <1>9. TailBlocks' = TailBlocks \cup {b}
    BY <1>8 DEF TailBlocks
  <1>10. TailBlocks \subseteq live \ DOMAIN tails /\ DOMAIN tails \subseteq live
    BY <1>3 DEF OwnerInv
  <1>11. Traceable' = Traceable \cup {a}
    <2>1. Traceable = live \ TailBlocks /\ Traceable' = live' \ TailBlocks'
      BY DEF Traceable, TailBlocks
    <2> QED BY <1>2, <1>6, <1>9, <1>10, <2>1
  <1>12. \A x, y \in DOMAIN tails' : tails'[x] = tails'[y] => x = y
    <2>1. \A x \in DOMAIN tails : tails[x] # b
      BY <1>6, <1>10 DEF TailBlocks
    <2> QED BY <1>3, <1>8, <2>1 DEF OwnerInv
  <1>13. \A u \in Threads \ {t} : CallOK(call[u], tails')
    BY <1>3, <1>6, <1>8, ListGrows
  <1>14. reused' \in BOOLEAN /\ (~reused' => ~reused /\ \A x \in live' \ live : ~Moved(x))
    BY <1>2
  <1>15. DOMAIN tails' \subseteq live' /\ TailBlocks' \subseteq live' \ DOMAIN tails'
    BY <1>2, <1>6, <1>8, <1>9, <1>10
  <1>16. live \subseteq live' /\ live' \subseteq Addrs
    BY <1>2, <1>3, <1>6 DEF OwnerInv
  <1>17. NewBlock(t, a)
    BY <1>1, <1>4, <1>5, <1>6, <1>7, <1>11, <1>12, <1>13, <1>14, <1>15, <1>16 DEF NewBlock
  <1>18. NeverAborts' /\ aborted' \in BOOLEAN
    BY <1>1, <1>3, NoAssert DEF ThreadInv
  <1> QED BY <1>17, <1>18, NewBlockKeeps

\* realloc takes the old block away, and may hand out another one: N is that one.
Leaves(t, N) ==
    /\ Running(t) /\ Resizing(call[t], tails) /\ DOMAIN call'[t] = CallFields
    /\ Has(call'[t], call'[t].new, N, {}, {call[t].old}) /\ CallOK(call'[t], tails)
    /\ call'[t].op = call[t].op /\ call'[t].old = call[t].old /\ OnlyCallOf(t)
    /\ \/ N = {} /\ call'[t].new = None
       \/ N = {call'[t].new} /\ call'[t].new \in Addrs \ live
    /\ live' = (live \ {call[t].old}) \cup N
    /\ reused' \in BOOLEAN /\ (~reused' => ~reused /\ \A x \in N : ~Moved(x))
    /\ UNCHANGED <<tracker, initVars, tails, exitVars, held, aborted, record, started>>

\* Such a step of realloc keeps the invariant.
LEMMA LeaveKeeps ==
    ASSUME HeapInv, NEW t \in Threads, NEW N, Leaves(t, N)
    PROVE  HeapInv'
  <1> DEFINE k == call[t]  k2 == call'[t]  o == k.old  a == k2.new
  <1>1. Running(t) /\ Resizing(k, tails) /\ k.todo # <<>> /\ HeadDo(k) = "resize"
    BY HeadsFreeing, List1 DEF Leaves, Resizing
  <1>2. /\ k.op # "exit" /\ t \in started /\ aborted = FALSE /\ report = None /\ is_init_done
        /\ CallOK(k, tails) /\ ThreadInv /\ OwnerInv /\ RecordInv /\ BooksInv /\ InternalInv /\ InitInv
    BY <1>1, Answered
  <1>3. Has(k, o, {}, {}, {}) /\ Has(k2, a, N, {}, {o}) /\ o \in Addrs /\ k2.old = o
    BY <1>1, HasResize DEF Leaves, Resizing
  <1>4. /\ o # None /\ OnlyCallOf(t) /\ k2.op = k.op /\ CallOK(k2, tails) /\ Past(k2)
        /\ k.op \in {"realloc", "getline"}
    BY <1>1, <1>3, NoneIs, PastIs DEF Leaves, Resizing
  <1>5. /\ allocs' = allocs /\ alloc_count' = alloc_count /\ record' = record /\ tails' = tails
        /\ is_exit_done' = is_exit_done /\ report' = report /\ started' = started /\ held' = held
        /\ aborted' = aborted /\ lost' = lost
    BY DEF Leaves, tracker, exitVars
  <1>6. ThreadInv'
    BY <1>2, <1>4, <1>5, ThreadStep DEF Leaves, ThreadInv
  <1>7. InitInv'
    BY <1>2, <1>4, InitStep DEF Leaves
  <1>8. RecordInv'
    <2>1. record[t] = None
      BY <1>1, <1>2, NoRecord
    <2> QED BY <1>2, <1>4, <2>1, RecordStep DEF Leaves
  <1>9. AllTrace' = AllTrace
    BY <1>5 DEF AllTrace
  <1>10. /\ N \subseteq Addrs \ live /\ ((a = None /\ N = {}) \/ (N = {a} /\ a # None))
         /\ live' = (live \ {o}) \cup N
    <2>1. CASE N = {} /\ a = None
      BY <2>1 DEF Leaves
    <2>2. CASE N = {a} /\ a \in Addrs \ live
      BY <2>2, NoneIs DEF Leaves
    <2> QED BY <2>1, <2>2 DEF Leaves
  <1>11. o \in live \ (TailBlocks \cup held) /\ o \notin DOMAIN tails /\ TailBlocks' = TailBlocks
    <2>1. Own(k) = o
      BY <1>3 DEF Has
    <2> QED BY <1>1, <1>2, <1>4, <1>5, <2>1 DEF OwnerInv, Resizing, TailBlocks
  <1>12. Traceable = live \ TailBlocks /\ Traceable' = live' \ TailBlocks
    BY <1>5 DEF Traceable, TailBlocks
  <1>13. TailBlocks \subseteq live
    BY <1>2 DEF OwnerInv
  <1>14. Traceable' = (Traceable \ {o}) \cup N /\ o \in Traceable \ N /\ N \cap Traceable = {}
    BY <1>10, <1>11, <1>12, <1>13
  <1>15. BooksInv'
    <2>1. allocs \in Seq(Entry) /\ allocs' \in Seq(Entry) /\ alloc_count' = Len(allocs')
      BY <1>2, <1>5 DEF RecordInv, BooksInv
    <2>2. ASSUME NEW x \in Addrs
          PROVE  /\ Cardinality(OfIn(allocs', x)) - Cardinality(OfIn(allocs, x))
                    + In(x, TracingOf(k2)) - In(x, TracingOf(k))
                    + In(x, UntracedOf(k2)) - In(x, UntracedOf(k))
                    = In(x, Traceable') - In(x, Traceable)
                      + In(x, StaleOf(k2)) - In(x, StaleOf(k))
      <3>1. Cardinality(OfIn(allocs, x)) \in Int /\ OfIn(allocs', x) = OfIn(allocs, x)
        BY <1>5, <2>1, OfFinite
      <3>2. /\ TracingOf(k) = {} /\ UntracedOf(k) = {} /\ StaleOf(k) = {}
            /\ TracingOf(k2) = N /\ UntracedOf(k2) = {} /\ StaleOf(k2) = {o}
        BY <1>3 DEF Has
      <3>3. /\ In(x, {}) = 0 /\ In(x, N) - In(x, {o}) = In(x, Traceable') - In(x, Traceable)
            /\ In(x, N) \in Int /\ In(x, {o}) \in Int
            /\ In(x, Traceable') \in Int /\ In(x, Traceable) \in Int
        BY <1>14 DEF In
      <3> QED BY <3>1, <3>2, <3>3
    <2> QED BY <1>2, <1>4, <1>5, <1>9, <2>1, <2>2, BooksStep
  <1>16. \A u \in Threads \ {t} : call'[u] = call[u]
    BY <1>4 DEF OnlyCallOf, Alike
  <1>17. Own(k) = o /\ Own(k2) = a /\ StaleOf(k) = {} /\ StaleOf(k2) = {o}
    BY <1>3 DEF Has
  <1>18. OwnerInv'
    <2>1. /\ live' \subseteq Addrs /\ DOMAIN tails \subseteq live'
          /\ TailBlocks \subseteq live' \ DOMAIN tails
          /\ held \subseteq (live' \ TailBlocks) \cup {Static}
      BY <1>2, <1>10, <1>11 DEF OwnerInv
    <2>2. \A u \in Threads \ {t} : /\ Own(call[u]) # o
                                   /\ Own(call[u]) \in (live \ (TailBlocks \cup held)) \cup {None}
      BY <1>2, <1>4, <1>17 DEF OwnerInv
    <2>3. \A u \in Threads \ {t} : Own(call[u]) \in (live' \ (TailBlocks \cup held)) \cup {None}
      BY <1>10, <2>2
    <2>4. a \in (live' \ (TailBlocks \cup held)) \cup {None}
      <3>1. N \cap held = {}
        BY <1>2, <1>10, NoneIs DEF OwnerInv
      <3> QED BY <1>10, <1>13, <3>1
    <2>5. \A u \in Threads \ {t} : Own(call[u]) = a => a = None
      BY <1>10, <2>2
    <2>6. \A u, v \in Threads : Own(call'[u]) = Own(call'[v]) => u = v \/ Own(call'[u]) = None
      BY <1>2, <1>16, <1>17, <2>5 DEF OwnerInv
    <2>7. \A u \in Threads : Own(call'[u]) \in (live' \ (TailBlocks \cup held)) \cup {None}
      BY <1>16, <1>17, <2>3, <2>4
    <2> QED BY <1>2, <1>5, <1>11, <2>1, <2>6, <2>7 DEF OwnerInv
  <1>19. InternalInv'
    <2>1. SUFFICES ASSUME AllTrace, ~reused'
                   PROVE  /\ \A b \in Addrs : \A u, v \in Stale(b)' : b \notin live' /\ u = v
                          /\ \A r \in Elems(allocs) : Keeper(r)'
      BY <1>5, <1>9 DEF InternalInv
    <2>2. ~reused /\ \A x \in N : ~Moved(x)
      BY <2>1 DEF Leaves
    <2>3. ASSUME NEW b \in Addrs, NEW u \in Stale(b)', NEW v \in Stale(b)'
          PROVE  b \notin live' /\ u = v
      <3>1. u \in Threads /\ v \in Threads /\ b \in StaleOf(call'[u]) /\ b \in StaleOf(call'[v])
        BY <2>3, StaleIs DEF Stale
      <3>2. CASE b = o
        <4>1. Stale(o) = {}
          BY <1>2, <1>3, <1>11, <2>1, <2>2 DEF InternalInv
        <4>2. u = t /\ v = t
          BY <1>16, <3>1, <3>2, <4>1, StaleIs
        <4> QED BY <1>10, <1>11, <3>2, <4>2
      <3>3. CASE b # o
        <4>1. u \in Stale(b) /\ v \in Stale(b)
          BY <1>16, <1>17, <3>1, <3>3, StaleIs
        <4>2. b \notin live /\ u = v
          BY <1>2, <2>1, <2>2, <4>1 DEF InternalInv
        <4>3. b \notin N
          BY <1>2, <2>2, <4>1, StaleMoved
        <4> QED BY <1>10, <4>2, <4>3
      <3> QED BY <3>2, <3>3
    <2>4. ASSUME NEW r \in Elems(allocs) PROVE Keeper(r)'
      <3>1. Keeper(r) /\ r.mem \in Addrs /\ r.mem # None
        BY <1>2, <2>1, <2>2, EntryIs, NoneIs DEF InternalInv, RecordInv
      <3>2. t \notin Stale(r.mem)
        BY <1>17, <3>1, StaleIs
      <3>3. CASE r.internal
        <4>1. r.mem # o /\ r.mem \in Traceable \ held
          BY <1>4, <1>17, <3>1, <3>3 DEF Keeper
        <4>2. r.mem # a
          BY <1>10, <1>14, <3>1, <4>1
        <4> QED BY <1>5, <1>14, <1>16, <1>17, <3>1, <3>3, <4>1, <4>2 DEF Keeper
      <3>4. CASE ~r.internal
        <4>1. CASE r.mem \in held
          BY <1>5, <3>4, <4>1 DEF Keeper
        <4>2. CASE r.mem = o
          <5>1. t \in Stale(r.mem)' /\ k2.op # "pthread_create"
            BY <1>3, <1>4, <1>17, <4>2, StaleIs
          <5> QED BY <3>4, <5>1 DEF Keeper
        <4>3. CASE r.mem \notin held /\ r.mem # o
          <5>1. PICK u \in Threads : /\ call[u].op # "pthread_create"
                                     /\ Own(call[u]) = r.mem \/ u \in Stale(r.mem)
            BY <3>1, <3>4, <4>3 DEF Keeper
          <5>2. u # t
            BY <1>17, <3>2, <4>3, <5>1
          <5>3. /\ call'[u].op # "pthread_create"
                /\ Own(call'[u]) = r.mem \/ u \in Stale(r.mem)'
            BY <1>16, <3>1, <5>1, <5>2, StaleIs
          <5> QED BY <3>4, <5>3 DEF Keeper
        <4> QED BY <4>1, <4>2, <4>3
      <3> QED BY <3>3, <3>4
    <2> QED BY <2>3, <2>4
  <1>20. ReportInv' /\ NeverAborts'
    BY <1>2, <1>5 DEF ReportInv, NeverAborts
  <1> QED BY <1>6, <1>7, <1>8, <1>15, <1>18, <1>19, <1>20 DEF HeapInv

\* libc resizes a block.
LEMMA ReallocKeeps ==
    ASSUME HeapInv, NEW t \in Threads, LibcRealloc(t)
    PROVE  HeapInv'
  <1> DEFINE k == call[t]  k2 == call'[t]  o == k.old
  <1>1. /\ Running(t) /\ k.todo # <<>> /\ HeadDo(k) = "resize"
        /\ UNCHANGED <<tracker, initVars, held, tails, exitVars, aborted, record, started>>
    BY DEF LibcRealloc, Doing, HeadDo
  <1>2. /\ k.op # "exit" /\ t \in started /\ aborted = FALSE /\ is_init_done /\ CallOK(k, tails)
        /\ ThreadInv /\ OwnerInv /\ RecordInv /\ InitInv
    BY <1>1, Answered
  <1>3. Resizing(k, tails)
    BY <1>1, <1>2, KindIs
  <1>4. /\ k.op \in {"realloc", "getline"} /\ o \in Addrs /\ o # None /\ Own(k) = o /\ k.new = None
        /\ Has(k, o, {}, {}, {})
    BY <1>3, HasResize, NoneIs DEF Resizing, Has
  <1>5. o \in live
    BY <1>2, <1>4 DEF OwnerInv
  \* The block stays.
  <1>6. CASE Then(t, o, <<>>) /\ UNCHANGED <<live, reused>>
    <2>1. /\ OnlyCallOf(t) /\ DOMAIN k2 = CallFields /\ k2.todo = <<>>
          /\ k2.op = k.op /\ k2.old = o /\ k2.new = o
      BY <1>2, <1>6, ThenIs
    <2>2. Finished(k2) /\ Past(k2)
      BY <1>4, <2>1, PastIs DEF Finished, Ops, Blocks
    <2>3. Has(k2, o, {}, {}, {})
      BY <2>1, <2>2, HasDone
    <2>4. /\ SameTraces(t) /\ CallOK(k2, tails) /\ SameRole(k, k2) /\ record[t] = None
          /\ started \subseteq started' /\ started' \subseteq Threads /\ aborted' \in BOOLEAN
      BY <1>1, <1>2, <1>4, <1>6, <2>1, <2>2, <2>3, NoRecord
         DEF SameTraces, SameOwner, Has, CallOK, SameRole, tracker, ThreadInv
    <2>5. ThreadInv' /\ OwnerInv' /\ RecordInv' /\ BooksInv' /\ InternalInv' /\ ReportInv'
      BY <1>1, <1>2, <2>1, <2>4, Quiet
    <2>6. InitInv' /\ NeverAborts'
      BY <1>1, <1>2, <2>1, <2>2, InitStep, NoAssert
    <2> QED BY <2>5, <2>6 DEF HeapInv
  \* The same after a failure, but that the record is to be removed.
  <1>9. CASE k.op = "realloc" /\ Then(t, o, <<Step("untrace", o, 1)>>) /\ UNCHANGED <<live, reused>>
    <2>1. /\ OnlyCallOf(t) /\ DOMAIN k2 = CallFields /\ k2.todo = <<Un(o)>>
          /\ k2.op = k.op /\ k2.old = o /\ k2.new = o
      BY <1>2, <1>9, ThenIs DEF Un
    <2>2. Refused(k2) /\ Past(k2)
      BY <1>4, <1>9, <2>1, PastIs DEF Refused
    <2>3. Has(k2, o, {}, {}, {})
      BY <2>1, <2>2, HasRefused
    <2>4. /\ SameTraces(t) /\ CallOK(k2, tails) /\ SameRole(k, k2) /\ record[t] = None
          /\ started \subseteq started' /\ started' \subseteq Threads /\ aborted' \in BOOLEAN
      BY <1>1, <1>2, <1>4, <1>9, <2>1, <2>2, <2>3, NoRecord
         DEF SameTraces, SameOwner, Has, CallOK, SameRole, tracker, ThreadInv
    <2>5. ThreadInv' /\ OwnerInv' /\ RecordInv' /\ BooksInv' /\ InternalInv' /\ ReportInv'
      BY <1>1, <1>2, <2>1, <2>4, Quiet
    <2>6. InitInv' /\ NeverAborts'
      BY <1>1, <1>2, <2>1, <2>2, InitStep, NoAssert
    <2> QED BY <2>5, <2>6 DEF HeapInv
  \* It moves to a.
  <1>7. ASSUME NEW a \in Free,
               live' = (live \ {o}) \cup {a}, reused' = (reused \/ Moved(a)),
               Then(t, a, IF k.op = "realloc" THEN Retrace(t, a)
                          ELSE <<Step("untrace", o, 2), Step("trace", a, 2)>> \o Retrace(t, a))
        PROVE  HeapInv'
    <2>1. a \in Addrs \ live /\ a # o
      BY <1>5, <1>7 DEF Free
    <2>2. /\ OnlyCallOf(t) /\ DOMAIN k2 = CallFields
          /\ k2.todo = (IF k.op = "realloc" THEN Retrace(t, a)
                        ELSE <<Step("untrace", o, 2), Step("trace", a, 2)>> \o Retrace(t, a))
          /\ k2.op = k.op /\ k2.old = o /\ k2.new = a
      BY <1>2, <1>7, ThenIs
    <2>3. k2.todo \in {<<Un(o), Tr(a)>>, <<UnIn(o), TrIn(a), Un(o), Tr(a)>>}
      <3>1. Retrace(t, a) = <<Un(o), Tr(a)>>
        BY DEF Retrace, Un, Tr
      <3>2. <<UnIn(o), TrIn(a)>> \o <<Un(o), Tr(a)>> = <<UnIn(o), TrIn(a), Un(o), Tr(a)>>
        BY Join2
      <3> QED BY <2>2, <3>1, <3>2 DEF UnIn, TrIn
    <2>4. HasMoved(k2)
      BY <1>4, <2>1, <2>2, <2>3 DEF HasMoved
    <2>5. Has(k2, a, {a}, {}, {o}) /\ CallOK(k2, tails)
      BY <2>2, <2>4, HasMovedHas DEF CallOK
    <2>6. reused' \in BOOLEAN /\ (~reused' => ~reused /\ \A x \in {a} : ~Moved(x))
      BY <1>7
    <2>7. Leaves(t, {a})
      BY <1>1, <1>3, <1>7, <2>1, <2>2, <2>5, <2>6 DEF Leaves
    <2> QED BY <2>7, LeaveKeeps
  \* It is freed.
  <1>8. CASE /\ k.op = "realloc" /\ live' = live \ {o}
             /\ Then(t, None, <<Step("untrace", o, 1)>>) /\ UNCHANGED reused
    <2>1. /\ OnlyCallOf(t) /\ DOMAIN k2 = CallFields /\ k2.todo = <<Un(o)>>
          /\ k2.op = k.op /\ k2.old = o /\ k2.new = None
      BY <1>2, <1>8, ThenIs DEF Un
    <2>2. Emptied(k2)
      BY <1>4, <1>8, <2>1 DEF Emptied
    <2>3. Has(k2, None, {}, {}, {o}) /\ CallOK(k2, tails)
      BY <2>1, <2>2, HasEmptied DEF CallOK
    <2>4. Leaves(t, {})
      BY <1>1, <1>2, <1>3, <1>8, <2>1, <2>3 DEF Leaves, ThreadInv
    <2> QED BY <2>4, LeaveKeeps
  <1> QED BY <1>6, <1>7, <1>8, <1>9 DEF LibcRealloc

-----------------------------------------------------------------------------
(* free.                                                                   *)

\* What the free of libc changes.
LEMMA LibcFreeIs ==
    ASSUME HeapInv, NEW t \in Threads, LibcFree(t)
    PROVE  /\ Running(t) /\ call[t].todo # <<>> /\ HeadDo(call[t]) = "dealloc"
           /\ live' = live \ {Head(call[t].todo).mem}
           /\ tails' = [x \in {h \in DOMAIN tails : tails[h] # Head(call[t].todo).mem} |-> tails[x]]
           /\ OnlyCallOf(t) /\ DOMAIN call'[t] = CallFields /\ call'[t].todo = Tail(call[t].todo)
           /\ call'[t].op = call[t].op /\ call'[t].old = call[t].old /\ call'[t].new = call[t].new
           /\ UNCHANGED <<tracker, initVars, held, exitVars, aborted, record, started, reused>>
  <1>1. call' = [call EXCEPT ![t].todo = Tail(call[t].todo)]
    BY DEF LibcFree, Advance
  <1>2. ThreadInv
    BY DEF HeapInv
  <1> QED BY <1>1, <1>2, TodoIs DEF LibcFree, Doing, HeadDo

\* Without a head of the list, the calls stay what they are.
LEMMA ListShrinks ==
    ASSUME ThreadInv, NEW a, NEW T, DOMAIN T = DOMAIN tails \ {a},
           \A x \in DOMAIN T : T[x] = tails[x],
           NEW u \in Threads, a \in DOMAIN tails => Own(call[u]) # a
    PROVE  CallOK(call[u], T)
  <1> DEFINE k == call[u]
  <1>1. CallOK(k, tails)
    BY DEF ThreadInv
  <1>2. ASSUME Resizing(k, tails) PROVE Resizing(k, T)
    BY <1>2 DEF Resizing
  <1>3. ASSUME Freeing(k, tails) PROVE Freeing(k, T)
    BY <1>3 DEF Freeing
  <1>4. ASSUME FreeingHead(k, tails) PROVE FreeingHead(k, T)
    BY <1>4 DEF FreeingHead
  <1>5. ASSUME FreeingTail(k, tails) PROVE FreeingTail(k, T)
    <2>1. Own(k) = k.old
      BY <1>5, HasFreeingTail DEF Has
    <2>2. k.old \in DOMAIN T
      BY <1>5, <2>1 DEF FreeingTail
    <2> QED BY <1>5, <2>2 DEF FreeingTail
  <1> QED BY <1>1, <1>2, <1>3, <1>4, <1>5 DEF CallOK

\* The last block of a list, or the block a call was made for, goes.
LEMMA LastFreeKeeps ==
    ASSUME HeapInv, NEW t \in Threads, LibcFree(t), Has(call[t], call[t].old, {}, {call[t].old}, {}),
           call[t].op \in {"free", "freeaddrinfo"}, call[t].new = None, call[t].old \in Addrs,
           call[t].old \notin DOMAIN tails, Head(call[t].todo).mem = call[t].old, Tail(call[t].todo) = <<>>
    PROVE  HeapInv'
  <1> DEFINE k == call[t]  k2 == call'[t]  o == k.old
  <1>1. /\ Running(t) /\ k.todo # <<>> /\ HeadDo(k) = "dealloc" /\ live' = live \ {o}
        /\ tails' = [x \in {h \in DOMAIN tails : tails[h] # o} |-> tails[x]]
        /\ OnlyCallOf(t) /\ DOMAIN k2 = CallFields /\ k2.todo = <<>>
        /\ k2.op = k.op /\ k2.old = o /\ k2.new = None
        /\ UNCHANGED <<tracker, initVars, held, exitVars, aborted, record, started, reused>>
    BY LibcFreeIs
  <1>2. /\ k.op # "exit" /\ t \in started /\ aborted = FALSE /\ report = None /\ is_init_done
        /\ ThreadInv /\ OwnerInv /\ RecordInv /\ BooksInv /\ InternalInv /\ InitInv
    BY <1>1, Answered
  <1>3. Finished(k2) /\ Has(k2, None, {}, {}, {}) /\ Past(k2) /\ o # None
    <2>1. Finished(k2)
      BY <1>1 DEF Finished, Ops, Blocks
    <2> QED BY <1>1, <2>1, HasDone, PastIs, NoneIs
  <1>4. /\ Own(k) = o /\ TracingOf(k) = {} /\ UntracedOf(k) = {o} /\ StaleOf(k) = {}
        /\ Own(k2) = None /\ TracingOf(k2) = {} /\ UntracedOf(k2) = {} /\ StaleOf(k2) = {}
    BY <1>3 DEF Has
  <1>5. o \in live \ (TailBlocks \cup held) /\ o \notin DOMAIN tails
    BY <1>2, <1>3, <1>4 DEF OwnerInv
  <1>6. DOMAIN tails' = DOMAIN tails /\ (\A x \in DOMAIN tails : tails'[x] = tails[x]) /\ TailBlocks' = TailBlocks
    BY <1>1, <1>5 DEF TailBlocks
  <1>7. /\ allocs' = allocs /\ alloc_count' = alloc_count /\ record' = record
        /\ is_exit_done' = is_exit_done /\ report' = report /\ started' = started /\ held' = held
        /\ aborted' = aborted /\ reused' = reused /\ lost' = lost
    BY <1>1 DEF tracker, exitVars
  <1>8. \A u \in Threads \ {t} : call'[u] = call[u] /\ CallOK(call[u], tails')
    <2>1. DOMAIN tails' = DOMAIN tails \ {o}
      BY <1>5, <1>6
    <2> QED BY <1>1, <1>2, <1>5, <1>6, <2>1, ListShrinks DEF OnlyCallOf, Alike
  <1>9. ThreadInv'
    <2>1. CallOK(k2, tails') /\ k2.op # "exit"
      BY <1>1, <1>3 DEF CallOK
    <2> QED BY <1>1, <1>2, <1>7, <1>8, <2>1, ThreadStep DEF ThreadInv
  <1>10. InitInv' /\ RecordInv'
    <2>1. record[t] = None
      BY <1>1, <1>2, NoRecord
    <2> QED BY <1>1, <1>2, <1>3, <2>1, InitStep, RecordStep
  <1>11. AllTrace' = AllTrace
    BY <1>7 DEF AllTrace
  <1>12. Traceable' = Traceable \ {o} /\ o \in Traceable
    BY <1>1, <1>5, <1>6 DEF Traceable, TailBlocks
  <1>13. BooksInv'
    <2>1. allocs \in Seq(Entry) /\ allocs' \in Seq(Entry) /\ alloc_count' = Len(allocs')
      BY <1>2, <1>7 DEF RecordInv, BooksInv
    <2>2. ASSUME NEW x \in Addrs
          PROVE  /\ Cardinality(OfIn(allocs', x)) - Cardinality(OfIn(allocs, x))
                    + In(x, TracingOf(k2)) - In(x, TracingOf(k))
                    + In(x, UntracedOf(k2)) - In(x, UntracedOf(k))
                    = In(x, Traceable') - In(x, Traceable)
                      + In(x, StaleOf(k2)) - In(x, StaleOf(k))
      <3>1. Cardinality(OfIn(allocs, x)) \in Int /\ OfIn(allocs', x) = OfIn(allocs, x)
        BY <1>7, <2>1, OfFinite
      <3>2. /\ In(x, {}) = 0 /\ 0 - In(x, {o}) = In(x, Traceable') - In(x, Traceable)
            /\ In(x, {o}) \in Int /\ In(x, Traceable') \in Int /\ In(x, Traceable) \in Int
        BY <1>12 DEF In
      <3> QED BY <1>4, <3>1, <3>2
    <2> QED BY <1>1, <1>2, <1>7, <1>11, <2>1, <2>2, BooksStep
  <1>14. OwnerInv'
    <2>1. /\ live' \subseteq Addrs /\ DOMAIN tails \subseteq live'
          /\ TailBlocks \subseteq live' \ DOMAIN tails
          /\ held \subseteq (live' \ TailBlocks) \cup {Static}
      BY <1>1, <1>2, <1>5 DEF OwnerInv
    <2>2. \A u \in Threads \ {t} : /\ Own(call[u]) # o
                                   /\ Own(call[u]) \in (live \ (TailBlocks \cup held)) \cup {None}
      BY <1>2, <1>3, <1>4 DEF OwnerInv
    <2>3. \A u \in Threads : Own(call'[u]) \in (live' \ (TailBlocks \cup held)) \cup {None}
      BY <1>1, <1>4, <1>8, <2>2
    <2>4. \A u, v \in Threads : Own(call'[u]) = Own(call'[v]) => u = v \/ Own(call'[u]) = None
      BY <1>2, <1>4, <1>8 DEF OwnerInv
    <2>5. \A x, y \in DOMAIN tails' : tails'[x] = tails'[y] => x = y
      BY <1>2, <1>6 DEF OwnerInv
    <2> QED BY <1>6, <1>7, <2>1, <2>3, <2>4, <2>5 DEF OwnerInv
  <1>15. InternalInv'
    <2>1. SUFFICES ASSUME AllTrace, ~reused
                   PROVE  /\ \A b \in Addrs : \A u, v \in Stale(b)' : b \notin live' /\ u = v
                          /\ \A r \in Elems(allocs) : Keeper(r)'
      BY <1>7, <1>11 DEF InternalInv
    <2>2. \A b \in Addrs : Stale(b)' = Stale(b)
      BY <1>1, <1>4, StaleSame
    <2>3. \A b \in Addrs : \A u, v \in Stale(b)' : b \notin live' /\ u = v
      BY <1>1, <1>2, <2>1, <2>2 DEF InternalInv
    \* The block has no record any more.
    <2>4. \A r \in Elems(allocs) : r.mem # o
      <3>1. /\ Cardinality(OfIn(allocs, o)) + Cardinality(TracingIn(call, o))
               + Cardinality(UntracedIn(call, o)) + lost[o] = 1 + Cardinality(StaleIn(call, o))
            /\ lost[o] \in Nat
        BY <1>2, <1>12, <2>1, SetsAre DEF BooksInv, Of, OfIn
      <3>2. Cardinality(StaleIn(call, o)) = 0
        <4>1. Stale(o) = {}
          BY <1>2, <1>5, <2>1 DEF InternalInv
        <4> QED BY <4>1, SetsAre, FS_EmptySet
      <3>3. Cardinality(UntracedIn(call, o)) = 1 /\ Cardinality(TracingIn(call, o)) = 0
        <4>1. t \in UntracedIn(call, o)
          BY <1>4 DEF UntracedIn
        <4>2. TracingIn(call, o) = {} /\ \E u \in Threads : UntracedIn(call, o) = {u}
          BY <1>2, <4>1, Holders
        <4> QED BY <4>2, FS_EmptySet, FS_Singleton
      <3>4. IsFiniteSet(OfIn(allocs, o)) /\ Cardinality(OfIn(allocs, o)) \in Nat
        BY <1>2, OfFinite DEF RecordInv
      <3>5. OfIn(allocs, o) = {}
        BY <3>1, <3>2, <3>3, <3>4, FS_EmptySet
      <3> QED BY <3>5 DEF OfIn
    <2>5. ASSUME NEW r \in Elems(allocs) PROVE Keeper(r)'
      <3>1. Keeper(r) /\ r.mem \in Addrs /\ r.mem # None /\ r.mem # o
        BY <1>2, <2>1, <2>4, EntryIs, NoneIs DEF InternalInv, RecordInv
      <3>2. t \notin Stale(r.mem)
        BY <1>4, <3>1, StaleIs
      <3>3. CASE r.internal
        BY <1>4, <1>7, <1>8, <1>12, <3>1, <3>3 DEF Keeper
      <3>4. CASE ~r.internal
        <4>1. CASE r.mem \in held
          BY <1>7, <3>4, <4>1 DEF Keeper
        <4>2. CASE r.mem \notin held
          <5>1. PICK u \in Threads : /\ call[u].op # "pthread_create"
                                     /\ Own(call[u]) = r.mem \/ u \in Stale(r.mem)
            BY <3>1, <3>4, <4>2 DEF Keeper
          <5>2. u # t
            BY <1>4, <3>1, <3>2, <5>1
          <5>3. /\ call'[u].op # "pthread_create"
                /\ Own(call'[u]) = r.mem \/ u \in Stale(r.mem)'
            BY <1>8, <2>2, <3>1, <5>1, <5>2
          <5> QED BY <3>4, <5>3 DEF Keeper
        <4> QED BY <4>1, <4>2
      <3> QED BY <3>3, <3>4
    <2> QED BY <2>3, <2>5
  <1>16. ReportInv' /\ NeverAborts'
    BY <1>2, <1>7 DEF ReportInv, NeverAborts
  <1> QED BY <1>9, <1>10, <1>13, <1>14, <1>15, <1>16 DEF HeapInv

\* The second address of a list goes, and with it the list.
LEMMA TailFreeKeeps ==
    ASSUME HeapInv, NEW t \in Threads, LibcFree(t), FreeingTail(call[t], tails)
    PROVE  HeapInv'
  <1> DEFINE k == call[t]  k2 == call'[t]  o == k.old  b == tails[o]
  <1>1. /\ Running(t) /\ k.todo # <<>> /\ HeadDo(k) = "dealloc"
        /\ live' = live \ {Head(k.todo).mem}
        /\ tails' = [x \in {h \in DOMAIN tails : tails[h] # Head(k.todo).mem} |-> tails[x]]
        /\ OnlyCallOf(t) /\ DOMAIN k2 = CallFields /\ k2.todo = Tail(k.todo)
        /\ k2.op = k.op /\ k2.old = o /\ k2.new = k.new
        /\ UNCHANGED <<tracker, initVars, held, exitVars, aborted, record, started, reused>>
    BY LibcFreeIs
  <1>2. /\ k.op # "exit" /\ t \in started /\ aborted = FALSE /\ report = None /\ is_init_done
        /\ ThreadInv /\ OwnerInv /\ RecordInv /\ BooksInv /\ InternalInv /\ InitInv
    BY <1>1, Answered
  <1>3. /\ Head(k.todo).mem = b /\ Head(k.todo) # Un(o)
        /\ k.todo = <<Step("dealloc", b, 2), UnIn(o), Step("dealloc", o, 2)>>
    BY <1>1, HeadsFreeing
  <1>4. k.op = "freeaddrinfo" /\ o \in Addrs /\ k.new = None /\ o \in DOMAIN tails /\ o # None
    BY NoneIs DEF FreeingTail
  <1>5. /\ b \in TailBlocks /\ b \in live \ DOMAIN tails /\ b # o
        /\ \A x \in DOMAIN tails : tails[x] = b => x = o
    BY <1>2, <1>4 DEF OwnerInv, TailBlocks
  <1>6. /\ live' = live \ {b} /\ DOMAIN tails' = DOMAIN tails \ {o}
        /\ \A x \in DOMAIN tails' : tails'[x] = tails[x]
    BY <1>1, <1>3, <1>4, <1>5
  <1>7. TailBlocks' = TailBlocks \ {b}
    BY <1>4, <1>5, <1>6 DEF TailBlocks
  <1>8. k2.todo = <<UnIn(o), Step("dealloc", o, 2)>>
    BY <1>1, <1>3, List3
  <1>9. FreeingHead(k2, tails')
    BY <1>1, <1>4, <1>6, <1>8 DEF FreeingHead
  <1>10. Has(k, o, {}, {o}, {}) /\ Has(k2, o, {}, {o}, {})
    BY <1>1, <1>3, <1>9, HasFreeingTail, HasFreeingHead
  <1>11. /\ Own(k) = o /\ Own(k2) = o /\ TracingOf(k2) = TracingOf(k) /\ UntracedOf(k2) = UntracedOf(k)
         /\ StaleOf(k2) = StaleOf(k)
    BY <1>10 DEF Has
  <1>12. /\ allocs' = allocs /\ alloc_count' = alloc_count /\ record' = record
         /\ is_exit_done' = is_exit_done /\ report' = report /\ started' = started /\ held' = held
         /\ aborted' = aborted /\ reused' = reused /\ lost' = lost
    BY <1>1 DEF tracker, exitVars
  <1>13. \A u \in Threads \ {t} : call'[u] = call[u] /\ CallOK(call[u], tails')
    <2>1. \A u \in Threads \ {t} : Own(call[u]) # o
      BY <1>2, <1>4, <1>11 DEF OwnerInv
    <2> QED BY <1>1, <1>2, <1>6, <2>1, ListShrinks DEF OnlyCallOf, Alike
  <1>14. ThreadInv'
    <2>1. CallOK(k2, tails') /\ k2.op # "exit"
      BY <1>1, <1>4, <1>9 DEF CallOK
    <2> QED BY <1>1, <1>2, <1>12, <1>13, <2>1, ThreadStep DEF ThreadInv
  <1>15. InitInv' /\ RecordInv'
    <2>1. record[t] = None
      BY <1>1, <1>2, NoRecord
    <2>2. Past(k2)
      BY <1>1, <1>4, PastIs
    <2> QED BY <1>1, <1>2, <2>1, <2>2, InitStep, RecordStep
  <1>16. AllTrace' = AllTrace
    BY <1>12 DEF AllTrace
  <1>17. Traceable' = Traceable
    BY <1>5, <1>6, <1>7 DEF Traceable, TailBlocks
  <1>18. BooksInv'
    <2>1. allocs \in Seq(Entry) /\ allocs' \in Seq(Entry) /\ alloc_count' = Len(allocs')
      BY <1>2, <1>12 DEF RecordInv, BooksInv
    <2>2. ASSUME NEW x \in Addrs
          PROVE  /\ Cardinality(OfIn(allocs', x)) - Cardinality(OfIn(allocs, x))
                    + In(x, TracingOf(k2)) - In(x, TracingOf(k))
                    + In(x, UntracedOf(k2)) - In(x, UntracedOf(k))
                    = In(x, Traceable') - In(x, Traceable)
                      + In(x, StaleOf(k2)) - In(x, StaleOf(k))
      <3>1. Cardinality(OfIn(allocs, x)) \in Int /\ OfIn(allocs', x) = OfIn(allocs, x)
        BY <1>12, <2>1, OfFinite
      <3>2. \A S : In(x, S) \in Int
        BY DEF In
      <3> QED BY <1>11, <1>17, <3>1, <3>2
    <2> QED BY <1>1, <1>2, <1>12, <1>16, <2>1, <2>2, BooksStep
  <1>19. OwnerInv'
    <2>1. /\ live' \subseteq Addrs /\ DOMAIN tails' \subseteq live'
          /\ TailBlocks' \subseteq live' \ DOMAIN tails'
          /\ held \subseteq (live' \ TailBlocks') \cup {Static}
      BY <1>2, <1>5, <1>6, <1>7 DEF OwnerInv
    <2>2. \A u \in Threads : Own(call[u]) \in (live' \ (TailBlocks' \cup held)) \cup {None}
      BY <1>2, <1>5, <1>6, <1>7 DEF OwnerInv
    <2>3. \A u \in Threads : Own(call'[u]) = Own(call[u])
      BY <1>11, <1>13
    <2>4. \A x, y \in DOMAIN tails' : tails'[x] = tails'[y] => x = y
      BY <1>2, <1>6 DEF OwnerInv
    <2>5. \A u, v \in Threads : Own(call[u]) = Own(call[v]) => u = v \/ Own(call[u]) = None
      BY <1>2 DEF OwnerInv
    <2> QED BY <1>12, <2>1, <2>2, <2>3, <2>4, <2>5 DEF OwnerInv
  <1>20. InternalInv'
    <2>1. SUFFICES ASSUME AllTrace, ~reused
                   PROVE  /\ \A c \in Addrs : \A u, v \in Stale(c)' : c \notin live' /\ u = v
                          /\ \A r \in Elems(allocs) : Keeper(r)'
      BY <1>12, <1>16 DEF InternalInv
    <2>2. \A c \in Addrs : Stale(c)' = Stale(c)
      BY <1>1, <1>11, StaleSame
    <2>3. \A c \in Addrs : \A u, v \in Stale(c)' : c \notin live' /\ u = v
      BY <1>2, <1>6, <2>1, <2>2 DEF InternalInv
    <2>4. ASSUME NEW r \in Elems(allocs) PROVE Keeper(r)'
      <3>1. Keeper(r) /\ r.mem \in Addrs
        BY <1>2, <2>1, EntryIs DEF InternalInv, RecordInv
      <3>2. \A u \in Threads : Own(call'[u]) = Own(call[u]) /\ call'[u].op = call[u].op
        BY <1>1, <1>11, <1>13
      <3> QED BY <1>12, <1>17, <2>2, <3>1, <3>2 DEF Keeper
    <2> QED BY <2>3, <2>4
  <1>21. ReportInv' /\ NeverAborts'
    BY <1>2, <1>12 DEF ReportInv, NeverAborts
  <1> QED BY <1>14, <1>15, <1>18, <1>19, <1>20, <1>21 DEF HeapInv

\* libc takes a block back.
LEMMA LibcFreeKeeps ==
    ASSUME HeapInv, NEW t \in Threads, LibcFree(t)
    PROVE  HeapInv'
  <1> DEFINE k == call[t]  o == k.old
  <1>1. Running(t) /\ k.todo # <<>> /\ HeadDo(k) = "dealloc"
    BY LibcFreeIs
  <1>2. CallOK(k, tails)
    BY <1>1, Answered
  <1>3. Freeing(k, tails) \/ FreeingTail(k, tails) \/ FreeingHead(k, tails)
    BY <1>1, <1>2, KindIs
  <1>4. CASE Freeing(k, tails)
    <2>1. Head(k.todo).mem = o /\ k.todo = <<Step("dealloc", o, 1)>>
      BY <1>1, <1>4, HeadsFreeing
    <2>2. Has(k, o, {}, {o}, {}) /\ Tail(k.todo) = <<>>
      BY <1>4, <2>1, HasFreeing, List1
    <2>3. k.op \in {"free", "freeaddrinfo"} /\ k.new = None /\ o \in Addrs /\ o \notin DOMAIN tails
      BY <1>4 DEF Freeing
    <2> QED BY <2>1, <2>2, <2>3, LastFreeKeeps
  <1>5. CASE FreeingHead(k, tails)
    <2>1. Head(k.todo).mem = o /\ k.todo = <<Step("dealloc", o, 2)>>
      BY <1>1, <1>5, HeadsFreeing
    <2>2. Has(k, o, {}, {o}, {}) /\ Tail(k.todo) = <<>>
      BY <1>5, <2>1, HasFreeingHead, List1
    <2>3. k.op \in {"free", "freeaddrinfo"} /\ k.new = None /\ o \in Addrs /\ o \notin DOMAIN tails
      BY <1>5 DEF FreeingHead
    <2> QED BY <2>1, <2>2, <2>3, LastFreeKeeps
  <1> QED BY <1>3, <1>4, <1>5, TailFreeKeeps

-----------------------------------------------------------------------------
(* Steps of tracing that are skipped.                                      *)

\* The returns in front of the lock.
LEMMA SkipKeeps ==
    ASSUME HeapInv, NEW t \in Threads, Skip(t)
    PROVE  HeapInv'
  <1> DEFINE k == call[t]  k2 == call'[t]
  <1>1. /\ Running(t) /\ k.todo # <<>> /\ HeadDo(k) \in {"trace", "untrace"}
        /\ record[t] = None /\ (Head(k.todo).depth > 1 \/ is_exit_done)
        /\ call' = [call EXCEPT ![t].todo = Tail(k.todo)]
        /\ UNCHANGED <<tracker, initVars, heapVars, exitVars, aborted, record, started, reused>>
    BY DEF Skip, Doing, HeadDo, Skipped, Advance
  <1>2. /\ k.op # "exit" /\ t \in started /\ aborted = FALSE /\ report = None /\ is_init_done
        /\ (AllTrace <=> ~is_exit_done) /\ CallOK(k, tails)
        /\ ThreadInv /\ OwnerInv /\ RecordInv /\ BooksInv /\ InternalInv /\ InitInv
    BY <1>1, Answered
  <1>3. k2 = Rest(k) /\ OnlyCallOf(t)
    BY <1>1, <1>2, TodoIs DEF Rest, ThreadInv
  <1>4. GoesOn(k, k2, tails)
    BY <1>1, <1>2, <1>3, TracingGoesOn
  <1>5. k2.op = k.op /\ k2.old = k.old /\ k2.new = k.new
    BY <1>2, <1>3, RestIs
  <1>6. CallOK(k2, tails) /\ Own(k2) = Own(k) /\ Past(k2)
    BY <1>4, <1>5, NoneIs, PastIs DEF GoesOn, TraceStep, UntraceStep
  <1>7. /\ allocs' = allocs /\ alloc_count' = alloc_count /\ started' = started
        /\ is_exit_done' = is_exit_done /\ report' = report /\ live' = live /\ tails' = tails
        /\ held' = held
        /\ aborted' = aborted /\ reused' = reused /\ lost' = lost
    BY <1>1 DEF tracker, exitVars, heapVars
  <1>8. SameOwner(t) /\ aborted' \in BOOLEAN /\ started' \subseteq Threads
    BY <1>2, <1>3, <1>6, <1>7 DEF SameOwner, ThreadInv
  <1>9. InitInv' /\ NeverAborts'
    BY <1>1, <1>2, <1>3, <1>6, InitStep, NoAssert
  <1>10. CASE ~is_exit_done
    <2>1. Head(k.todo).depth > 1
      BY <1>1, <1>10
    <2>2. TracingOf(k2) = TracingOf(k) /\ UntracedOf(k2) = UntracedOf(k) /\ StaleOf(k2) = StaleOf(k)
      BY <1>4, <2>1, StepIs DEF GoesOn, TraceStep, UntraceStep, Tr, Un
    <2>3. SameTraces(t) /\ SameRole(k, k2)
      BY <1>5, <1>7, <1>8, <2>2 DEF SameTraces, SameRole
    <2>4. ThreadInv' /\ OwnerInv' /\ RecordInv' /\ BooksInv' /\ InternalInv' /\ ReportInv'
      BY <1>1, <1>2, <1>5, <1>6, <1>7, <1>8, <2>3, Quiet
    <2> QED BY <1>9, <2>4 DEF HeapInv
  \* After exit the books do not matter any more.
  <1>11. CASE is_exit_done
    <2>1. ~AllTrace /\ AllTrace' = AllTrace
      BY <1>2, <1>7, <1>11 DEF AllTrace
    <2>2. BooksInv' /\ InternalInv'
      BY <1>2, <1>7, <2>1 DEF BooksInv, InternalInv
    <2>3. OwnerInv' /\ RecordInv'
      BY <1>1, <1>2, <1>3, <1>8, OwnerSame, RecordStep
    <2>4. \A u \in Threads \ {t} : CallOK(call[u], tails')
      BY <1>2, <1>7 DEF ThreadInv
    <2>5. ThreadInv'
      BY <1>2, <1>3, <1>5, <1>6, <1>7, <1>8, <2>4, ThreadStep DEF ThreadInv
    <2>6. ReportInv'
      BY <1>2, <1>7 DEF ReportInv
    <2> QED BY <1>9, <2>2, <2>3, <2>5, <2>6 DEF HeapInv
  <1> QED BY <1>10, <1>11

-----------------------------------------------------------------------------
(* Records.                                                                *)

\* RecordsOnce as a statement about sets: p is the pool, s the list, f the records
\* that are being filled.
Apart(p, s, f) ==
    /\ NoRepeat(p) /\ NoRepeat(s)
    /\ \A x, y \in Elems(s) : x.id = y.id => x = y
    /\ \A x \in Elems(s) : x.id \notin Elems(p)
    /\ \A t \in Threads : f[t] # None => /\ f[t] \notin Elems(p)
                                         /\ \A x \in Elems(s) : x.id # f[t]
                                         /\ \A u \in Threads : f[u] = f[t] => u = t
InUse(p, s, f) == Elems(p) \cup {x.id : x \in Elems(s)} \cup ({f[t] : t \in Threads} \ {None})

\* A pool that has no record twice.
LEMMA InjectiveIs ==
    ASSUME NEW p \in Seq(Ids)
    PROVE  IsInjective(p) <=> NoRepeat(p)
  BY DEF IsInjective, NoRepeat

\* Pool, list and the records in flight have no record in common.
LEMMA ApartIs ==
    ASSUME NEW p \in Seq(Ids), NEW s \in Seq(Entry), NEW f
    PROVE  /\ NoRepeat(p)
           /\ \A i, j \in 1..Len(s) : s[i].id = s[j].id => i = j
           /\ \A i \in 1..Len(s) : ~Contains(p, s[i].id)
           /\ \A t \in Threads : f[t] # None =>
                 /\ ~Contains(p, f[t])
                 /\ \A i \in 1..Len(s) : s[i].id # f[t]
                 /\ \A u \in Threads : f[u] = f[t] => u = t
           <=> Apart(p, s, f)
  <1>1. \A x : Contains(p, x) <=> x \in Elems(p)
    BY DEF Contains, Elems
  <1>2. /\ (\A i, j \in 1..Len(s) : s[i].id = s[j].id => i = j)
           <=> NoRepeat(s) /\ \A x, y \in Elems(s) : x.id = y.id => x = y
    <2>1. ASSUME \A i, j \in 1..Len(s) : s[i].id = s[j].id => i = j
          PROVE  NoRepeat(s) /\ \A x, y \in Elems(s) : x.id = y.id => x = y
      BY <2>1 DEF NoRepeat, Elems
    <2>2. ASSUME NoRepeat(s), \A x, y \in Elems(s) : x.id = y.id => x = y
          PROVE  \A i, j \in 1..Len(s) : s[i].id = s[j].id => i = j
      BY <2>2 DEF NoRepeat, Elems
    <2> QED BY <2>1, <2>2
  <1>3. \A x : (\A i \in 1..Len(s) : s[i].id # x) <=> (\A y \in Elems(s) : y.id # x)
    BY DEF Elems
  <1>4. (\A i \in 1..Len(s) : s[i].id \notin Elems(p)) <=> (\A y \in Elems(s) : y.id \notin Elems(p))
    BY DEF Elems
  <1> QED BY <1>1, <1>2, <1>3, <1>4 DEF Apart

\* The two statements about records, of the state before and after a step.
LEMMA RecordsAre ==
    /\ alloc_pool \in Seq(Ids) /\ allocs \in Seq(Entry) =>
          /\ RecordsOnce <=> Apart(alloc_pool, allocs, record)
          /\ Records = InUse(alloc_pool, allocs, record)
    /\ alloc_pool' \in Seq(Ids) /\ allocs' \in Seq(Entry) =>
          /\ RecordsOnce' <=> Apart(alloc_pool', allocs', record')
          /\ Records' = InUse(alloc_pool', allocs', record')
  <1>1. ASSUME alloc_pool \in Seq(Ids), allocs \in Seq(Entry)
        PROVE  /\ RecordsOnce <=> Apart(alloc_pool, allocs, record)
               /\ Records = InUse(alloc_pool, allocs, record)
    <2>1. RecordsOnce <=> Apart(alloc_pool, allocs, record)
      BY <1>1, InjectiveIs, ApartIs DEF RecordsOnce
    <2>2. {allocs[i].id : i \in 1..Len(allocs)} = {x.id : x \in Elems(allocs)}
      BY DEF Elems
    <2>3. Records = InUse(alloc_pool, allocs, record)
      BY <2>2 DEF Records, InUse, Elems
    <2> QED BY <2>1, <2>3
  <1>2. ASSUME alloc_pool' \in Seq(Ids), allocs' \in Seq(Entry)
        PROVE  /\ RecordsOnce' <=> Apart(alloc_pool', allocs', record')
               /\ Records' = InUse(alloc_pool', allocs', record')
    <2>1. RecordsOnce' <=> Apart(alloc_pool', allocs', record')
      BY <1>2, InjectiveIs, ApartIs DEF RecordsOnce
    <2>2. {allocs'[i].id : i \in 1..Len(allocs')} = {x.id : x \in Elems(allocs')}
      BY DEF Elems
    <2>3. Records' = InUse(alloc_pool', allocs', record')
      BY <2>2 DEF Records, InUse, Elems
    <2> QED BY <2>1, <2>3
  <1> QED BY <1>1, <1>2

\* The head of a pool and the rest.
LEMMA TailElems ==
    ASSUME NEW p \in Seq(Ids), p # <<>>, NoRepeat(p)
    PROVE  /\ Tail(p) \in Seq(Ids) /\ NoRepeat(Tail(p)) /\ Head(p) \in Elems(p)
           /\ Elems(Tail(p)) = Elems(p) \ {Head(p)}
  <1>1. /\ Tail(p) \in Seq(Ids) /\ Len(p) \in Nat /\ Len(p) >= 1 /\ Len(Tail(p)) = Len(p) - 1
        /\ \A i \in 1..(Len(p) - 1) : Tail(p)[i] = p[i + 1]
        /\ Head(p) = p[1]
    BY HeadTailProperties, EmptySeq, LenProperties
  <1>2. Head(p) \in Elems(p)
    BY <1>1 DEF Elems
  <1>3. NoRepeat(Tail(p))
    BY <1>1 DEF NoRepeat
  <1>4. \A x \in Elems(Tail(p)) : x \in Elems(p) /\ x # Head(p)
    <2>1. SUFFICES ASSUME NEW i \in 1..(Len(p) - 1)
                   PROVE  p[i + 1] \in Elems(p) /\ p[i + 1] # p[1]
      BY <1>1 DEF Elems
    <2>2. i + 1 \in 1..Len(p) /\ 1 \in 1..Len(p) /\ i + 1 # 1
      BY <1>1
    <2> QED BY <2>2 DEF Elems, NoRepeat
  <1>5. \A x \in Elems(p) : x # Head(p) => x \in Elems(Tail(p))
    <2>1. SUFFICES ASSUME NEW i \in 1..Len(p), p[i] # p[1]
                   PROVE  p[i] \in Elems(Tail(p))
      BY <1>1 DEF Elems
    <2>2. i - 1 \in 1..(Len(p) - 1) /\ Tail(p)[i - 1] = p[i]
      BY <1>1, <2>1
    <2> QED BY <1>1, <2>2 DEF Elems
  <1> QED BY <1>1, <1>2, <1>3, <1>4, <1>5

\* Only the outermost trace of a call takes a record.
LEMMA TraceIs ==
    ASSUME HeapInv, NEW t \in Threads, Doing(t, "trace"),
           Head(call[t].todo).depth # 2
    PROVE  /\ Head(call[t].todo) = Tr(call[t].new) /\ call[t].new \in Addrs /\ Own(call[t]) = call[t].new
           /\ GoesOn(call[t], Rest(call[t]), tails)
           /\ TracingOf(call[t]) = {call[t].new} /\ TracingOf(Rest(call[t])) = {}
           /\ UntracedOf(Rest(call[t])) = UntracedOf(call[t])
           /\ StaleOf(Rest(call[t])) = StaleOf(call[t])
  <1> DEFINE k == call[t]
  <1>1. Running(t) /\ k.todo # <<>> /\ HeadDo(k) = "trace" /\ CallOK(k, tails)
    BY DEF Doing, HeadDo, HeapInv, ThreadInv
  <1>2. GoesOn(k, Rest(k), tails)
    BY <1>1, TracingGoesOn
  <1>3. Head(k.todo) # Un(k.old)
    BY <1>1, StepIs DEF Un, HeadDo
  <1> QED BY <1>2, <1>3 DEF GoesOn, TraceStep, UntraceStep

\* A thread takes a record, from the pool or from a batch.
TakesNew(t, r) ==
    /\ record[t] = None /\ record' = [record EXCEPT ![t] = r] /\ r \in Ids
    /\ alloc_batch' \in [nth : Nat, used : 1..ALLOCATION_BATCH_SIZE]
    /\ Issued(r, alloc_batch') /\ \A q : Issued(q, alloc_batch) => Issued(q, alloc_batch')
    /\ alloc_pool' \in Seq(Ids) /\ NoRepeat(alloc_pool')
    /\ Elems(alloc_pool') = Elems(alloc_pool) \ {r}
    /\ r \notin Records \ Elems(alloc_pool) /\ \A x \in Elems(allocs) : x.id # r
    /\ \A u \in Threads : record[u] # r

\* The record a thread takes is in nobody's hands.
LEMMA TakesIs ==
    ASSUME RecordInv, NEW t \in Threads, TakeRecord(t)
    PROVE  TakesNew(t, record'[t])
  <1>1. /\ record[t] = None /\ alloc_pool \in Seq(Ids) /\ allocs \in Seq(Entry)
        /\ record \in [Threads -> Ids \cup {None}]
        /\ alloc_batch \in [nth : Nat, used : 1..ALLOCATION_BATCH_SIZE]
        /\ Apart(alloc_pool, allocs, record) /\ Records = InUse(alloc_pool, allocs, record)
        /\ \A q \in Records : Issued(q, alloc_batch)
    BY RecordsAre DEF RecordInv, TakeRecord
  <1>2. CASE alloc_pool # <<>>
    <2>1. /\ record' = [record EXCEPT ![t] = Head(alloc_pool)] /\ alloc_pool' = Tail(alloc_pool)
          /\ alloc_batch' = alloc_batch
      BY <1>2 DEF TakeRecord, PoolRest
    <2> DEFINE r == Head(alloc_pool)
    <2>2. NoRepeat(alloc_pool)
      BY <1>1 DEF Apart
    <2>3. /\ Tail(alloc_pool) \in Seq(Ids) /\ NoRepeat(Tail(alloc_pool)) /\ r \in Elems(alloc_pool)
          /\ Elems(Tail(alloc_pool)) = Elems(alloc_pool) \ {r}
      BY <1>1, <1>2, <2>2, TailElems
    <2>4. Issued(r, alloc_batch) /\ r \in Ids
      BY <1>1, <2>3 DEF InUse, Issued
    <2>5. (\A x \in Elems(allocs) : x.id # r) /\ \A u \in Threads : record[u] # r
      BY <1>1, <2>3, <2>4, NoneIs DEF Apart
    <2>6. record'[t] = r
      BY <1>1, <2>1
    <2> QED BY <1>1, <2>1, <2>3, <2>4, <2>5, <2>6 DEF TakesNew
  <1>3. CASE alloc_pool = <<>>
    <2> DEFINE b == alloc_batch  b2 == alloc_batch'  r == <<b2.nth, b2.used>>
    <2>1. /\ b2 = IF BatchFull THEN [nth |-> b.nth + 1, used |-> 1] ELSE [b EXCEPT !.used = @ + 1]
          /\ record' = [record EXCEPT ![t] = r] /\ alloc_pool' = alloc_pool
      BY <1>3 DEF TakeRecord
    <2>2. \/ b2 = [nth |-> b.nth + 1, used |-> 1]
          \/ b2 = [nth |-> b.nth, used |-> b.used + 1] /\ b.used < ALLOCATION_BATCH_SIZE
      <3>1. b.used \in 1..ALLOCATION_BATCH_SIZE /\ ALLOCATION_BATCH_SIZE \in Nat
        BY <1>1, BatchAssumption
      <3>2. ~BatchFull => b.used < ALLOCATION_BATCH_SIZE
        BY <3>1 DEF BatchFull
      <3>3. [b EXCEPT !.used = @ + 1] = [nth |-> b.nth, used |-> b.used + 1]
        BY <1>1
      <3> QED BY <2>1, <3>2, <3>3
    <2>3. /\ b.nth \in Nat /\ b.used \in 1..ALLOCATION_BATCH_SIZE /\ ALLOCATION_BATCH_SIZE \in Nat \ {0}
      BY <1>1, BatchAssumption
    <2>4. b2 \in [nth : Nat, used : 1..ALLOCATION_BATCH_SIZE]
      BY <2>2, <2>3
    <2>5. r \in Ids /\ r[1] = b2.nth /\ r[2] = b2.used
      BY <2>4 DEF Ids
    <2>6. Issued(r, b2)
      BY <2>4, <2>5 DEF Issued
    <2>7. \A q : Issued(q, b) => Issued(q, b2) /\ q # r
      <3>1. SUFFICES ASSUME NEW q \in Ids, q[1] < b.nth \/ (q[1] = b.nth /\ q[2] <= b.used)
                     PROVE  (q[1] < b2.nth \/ (q[1] = b2.nth /\ q[2] <= b2.used)) /\ q # r
        BY DEF Issued
      <3>2. q[1] \in Nat /\ q[2] \in Nat
        BY <2>3 DEF Ids
      <3>3. CASE b2 = [nth |-> b.nth + 1, used |-> 1]
        <4>1. b2.nth = b.nth + 1
          BY <3>3
        <4> QED BY <2>3, <2>5, <3>1, <3>2, <4>1
      <3>4. CASE b2 = [nth |-> b.nth, used |-> b.used + 1]
        <4>1. b2.nth = b.nth /\ b2.used = b.used + 1
          BY <3>4
        <4> QED BY <2>3, <2>5, <3>1, <3>2, <4>1
      <3> QED BY <2>2, <3>3, <3>4
    <2>8. r \notin Records
      BY <1>1, <2>7
    <2>9. /\ \A x \in Elems(allocs) : x.id # r
          /\ \A u \in Threads : record[u] # r
          /\ r \notin Elems(alloc_pool)
      BY <1>1, <2>5, <2>8, NoneIs DEF InUse
    <2>10. record'[t] = r /\ NoRepeat(alloc_pool)
      BY <1>1, <2>1 DEF Apart
    <2> HIDE DEF b2, r
    <2> QED BY <1>1, <2>1, <2>4, <2>5, <2>6, <2>7, <2>8, <2>9, <2>10 DEF TakesNew, b2
  <1> QED BY <1>2, <1>3

\* A thread takes a record from the pool or makes one.
LEMMA TakeRecordKeeps ==
    ASSUME HeapInv, NEW t \in Threads, TakeRecord(t)
    PROVE  HeapInv'
  <1> DEFINE k == call[t]  r == record'[t]
  <1>1. /\ Doing(t, "trace") /\ Running(t) /\ k.todo # <<>> /\ HeadDo(k) = "trace"
        /\ Head(k.todo).depth # 2
        /\ UNCHANGED <<allocs, alloc_count, lost, initVars, heapVars, exitVars, aborted, call, started,
                       reused>>
    BY DEF TakeRecord, Doing, HeadDo, Skipped
  <1>2. /\ k.op # "exit" /\ t \in started /\ aborted = FALSE /\ report = None /\ is_init_done
        /\ ThreadInv /\ OwnerInv /\ RecordInv /\ BooksInv /\ InternalInv /\ InitInv
    BY <1>1, Answered
  <1>3. /\ UNCHANGED <<is_init_done, init_lock, init_lock_count, is_exit_done, report, live, held, tails,
                       allocs, alloc_count, lost, aborted, call, started, reused>>
    BY <1>1 DEF initVars, heapVars, exitVars
  <1>4. AllTrace' = AllTrace
    BY <1>3 DEF AllTrace
  <1>5. SameTraces(t) /\ SameRole(k, call'[t])
    BY <1>2, <1>3 DEF SameTraces, SameOwner, OnlyCallOf, Alike, ThreadInv, SameRole
  <1>6. OwnerInv' /\ InternalInv'
    BY <1>2, <1>4, <1>5, OwnerSame, InternalSame DEF SameTraces
  <1>7. BooksInv'
    BY <1>2, <1>4, <1>5, BooksSame DEF SameTraces, SameOwner
  <1>8. InitInv' /\ ThreadInv' /\ ReportInv' /\ NeverAborts'
    BY <1>2, <1>3 DEF InitInv, ThreadInv, ReportInv, NeverAborts
  <1>9. TakesNew(t, r)
    BY <1>2, TakesIs
  <1>10. RecordInv'
    <2>1. /\ alloc_pool \in Seq(Ids) /\ allocs \in Seq(Entry) /\ record \in [Threads -> Ids \cup {None}]
          /\ Apart(alloc_pool, allocs, record) /\ Records = InUse(alloc_pool, allocs, record)
          /\ \A q \in Records : Issued(q, alloc_batch)
      BY <1>2, RecordsAre DEF RecordInv
    <2>2. /\ alloc_pool' \in Seq(Ids) /\ allocs' \in Seq(Entry)
          /\ record' \in [Threads -> Ids \cup {None}]
          /\ alloc_batch' \in [nth : Nat, used : 1..ALLOCATION_BATCH_SIZE]
      BY <1>3, <1>9, <2>1 DEF TakesNew
    <2>3. record'[t] = r /\ \A u \in Threads \ {t} : record'[u] = record[u]
      BY <1>9, <2>1 DEF TakesNew
    <2>4. Apart(alloc_pool', allocs', record')
      <3>1. ASSUME NEW u \in Threads, record'[u] # None
            PROVE  /\ record'[u] \notin Elems(alloc_pool')
                   /\ \A x \in Elems(allocs) : x.id # record'[u]
                   /\ \A v \in Threads : record'[v] = record'[u] => v = u
        <4>1. CASE u = t
          BY <1>9, <2>3, <4>1 DEF TakesNew
        <4>2. CASE u # t
          <5>1. record'[u] = record[u] /\ record[u] # r
            BY <1>9, <2>3, <4>2 DEF TakesNew
          <5> QED BY <1>9, <2>1, <2>3, <3>1, <5>1 DEF TakesNew, Apart
        <4> QED BY <4>1, <4>2
      <3> QED BY <1>3, <1>9, <2>1, <3>1 DEF TakesNew, Apart
    <2>5. \A q \in Records' : Issued(q, alloc_batch')
      <3>1. Records' = InUse(alloc_pool', allocs, record')
        BY <1>3, <2>2, RecordsAre
      <3>2. \A q \in InUse(alloc_pool', allocs, record') : q = r \/ q \in InUse(alloc_pool, allocs, record)
        BY <1>9, <2>3 DEF InUse, TakesNew
      <3> QED BY <1>9, <2>1, <3>1, <3>2 DEF TakesNew
    <2>6. RecordsOnce'
      BY <2>2, <2>4, RecordsAre
    <2>7. \A u \in Threads : record'[u] # None =>
             call'[u].todo # <<>> /\ Head(call'[u].todo) = Tr(call'[u].new)
      <3>1. Head(k.todo) = Tr(k.new)
        BY <1>1, TraceIs
      <3> QED BY <1>1, <1>2, <1>3, <2>3, <3>1 DEF RecordInv
    <2> QED BY <2>2, <2>5, <2>6, <2>7 DEF RecordInv
  <1> QED BY <1>6, <1>7, <1>8, <1>10 DEF HeapInv

\* A thread puts its record e in front of the list.
Grows(s, s2, e) == /\ s \in Seq(Entry) /\ s2 \in Seq(Entry) /\ e \in Entry /\ e \notin Elems(s)
                   /\ Elems(s2) = Elems(s) \cup {e}

\* A list with one entry more.
LEMMA OfMore ==
    ASSUME NEW s, NEW s2, NEW e, Grows(s, s2, e), NEW x
    PROVE  Cardinality(OfIn(s2, x)) = Cardinality(OfIn(s, x)) + In(x, {e.mem})
  <1>0. s \in Seq(Entry) /\ e \notin Elems(s) /\ Elems(s2) = Elems(s) \cup {e}
    BY DEF Grows
  <1>1. IsFiniteSet(OfIn(s, x)) /\ Cardinality(OfIn(s, x)) \in Nat
    BY <1>0, OfFinite
  <1>2. CASE x = e.mem
    <2>1. OfIn(s2, x) = OfIn(s, x) \cup {e} /\ e \notin OfIn(s, x)
      BY <1>0, <1>2 DEF OfIn
    <2>2. Cardinality(OfIn(s2, x)) = Cardinality(OfIn(s, x)) + 1
      BY <1>1, <2>1, FS_AddElement
    <2> QED BY <1>2, <2>2 DEF In
  <1>3. CASE x # e.mem
    <2>1. OfIn(s2, x) = OfIn(s, x) /\ In(x, {e.mem}) = 0
      BY <1>0, <1>3 DEF OfIn, In
    <2> QED BY <1>1, <2>1
  <1> QED BY <1>2, <1>3

\* The entry of a new block is inserted.
LEMMA InsertKeeps ==
    ASSUME HeapInv, NEW t \in Threads, Insert(t)
    PROVE  HeapInv'
  <1> DEFINE k == call[t]  k2 == call'[t]  a == call[t].new
             e == [id |-> record[t], mem |-> a, internal |-> k.op = "pthread_create"]
  <1>1. /\ Doing(t, "trace") /\ Running(t) /\ k.todo # <<>> /\ HeadDo(k) = "trace" /\ record[t] # None
        /\ allocs' = <<[id |-> record[t], mem |-> Head(k.todo).mem,
                        internal |-> k.op = "pthread_create"]>> \o allocs
        /\ alloc_count' = alloc_count + 1 /\ record' = [record EXCEPT ![t] = None]
        /\ call' = [call EXCEPT ![t].todo = Tail(k.todo)]
        /\ UNCHANGED <<alloc_pool, alloc_batch, lost, initVars, heapVars, exitVars, aborted, started,
                       reused>>
    BY DEF Insert, Doing, HeadDo, Advance
  <1>2. /\ k.op # "exit" /\ t \in started /\ aborted = FALSE /\ report = None /\ is_init_done
        /\ CallOK(k, tails)
        /\ ThreadInv /\ OwnerInv /\ RecordInv /\ BooksInv /\ InternalInv /\ InitInv
    BY <1>1, Answered
  <1>3. Head(k.todo) = Tr(a)
    BY <1>1, <1>2 DEF RecordInv
  <1>4. /\ a \in Addrs /\ Own(k) = a /\ TracingOf(k) = {a} /\ TracingOf(Rest(k)) = {}
        /\ UntracedOf(Rest(k)) = UntracedOf(k) /\ StaleOf(Rest(k)) = StaleOf(k)
        /\ GoesOn(k, Rest(k), tails)
    <2>1. Head(k.todo).depth # 2
      BY <1>3, StepIs DEF Tr
    <2> QED BY <1>1, <2>1, TraceIs
  <1>5. k2 = Rest(k) /\ OnlyCallOf(t) /\ k2.op = k.op /\ k2.old = k.old /\ k2.new = a
    BY <1>1, <1>2, TodoIs, RestIs DEF Rest, ThreadInv
  <1>6. /\ Own(k2) = a /\ TracingOf(k2) = {} /\ UntracedOf(k2) = UntracedOf(k)
        /\ StaleOf(k2) = StaleOf(k)
        /\ CallOK(k2, tails) /\ Past(k2) /\ a # None
    BY <1>4, <1>5, NoneIs, PastIs DEF GoesOn
  <1>7. /\ UNCHANGED <<is_init_done, init_lock, init_lock_count, is_exit_done, report, live, held, tails,
                       alloc_pool, alloc_batch, lost, aborted, started, reused>>
    BY <1>1 DEF initVars, heapVars, exitVars
  <1>8. \A u \in Threads \ {t} : call'[u] = call[u]
    BY <1>5 DEF OnlyCallOf, Alike
  <1>9. AllTrace' = AllTrace /\ SameOwner(t)
    BY <1>4, <1>5, <1>6, <1>7 DEF AllTrace, SameOwner
  <1>10. /\ alloc_pool \in Seq(Ids) /\ allocs \in Seq(Entry) /\ record \in [Threads -> Ids \cup {None}]
         /\ Apart(alloc_pool, allocs, record) /\ Records = InUse(alloc_pool, allocs, record)
    BY <1>2, RecordsAre DEF RecordInv
  <1>11. /\ e \in Entry /\ e \notin Elems(allocs) /\ e.id = record[t] /\ e.mem = a
         /\ allocs' = <<e>> \o allocs
    <2>1. e \in Entry /\ e.id = record[t] /\ e.mem = a
      BY <1>1, <1>4, <1>10 DEF Entry
    <2>2. allocs' = <<e>> \o allocs
      BY <1>1, <1>3, StepIs DEF Tr
    <2> QED BY <1>1, <1>10, <2>1, <2>2 DEF Apart
  <1>12. /\ allocs' \in Seq(Entry) /\ Elems(allocs') = Elems(allocs) \cup {e} /\ NoRepeat(allocs')
         /\ Len(allocs') = Len(allocs) + 1
    <2>1. NoRepeat(allocs)
      BY <1>10 DEF Apart
    <2>2. /\ <<e>> \o allocs \in Seq(Entry) /\ Elems(<<e>> \o allocs) = Elems(allocs) \cup {e}
          /\ NoRepeat(<<e>> \o allocs)
      BY <1>10, <1>11, <2>1, PrependElems
    <2>3. <<e>> \in Seq(Entry) /\ Len(<<e>>) = 1 /\ Len(allocs) \in Nat
      BY <1>10, <1>11, LenProperties
    <2>4. Len(<<e>> \o allocs) = Len(allocs) + 1
      BY <1>10, <2>3, ConcatProperties
    <2> QED BY <1>11, <2>2, <2>4
  <1> HIDE DEF e
  <1>13. InitInv' /\ OwnerInv' /\ ReportInv' /\ NeverAborts'
    <2>1. UNCHANGED initVars
      BY <1>1
    <2> QED BY <1>2, <1>5, <1>6, <1>7, <1>9, <2>1, InitStep, OwnerSame DEF ReportInv, NeverAborts
  <1>14. ThreadInv'
    <2>1. \A u \in Threads \ {t} : CallOK(call[u], tails')
      BY <1>2, <1>7 DEF ThreadInv
    <2> QED BY <1>2, <1>5, <1>6, <1>7, <2>1, ThreadStep DEF ThreadInv
  <1>15. RecordInv'
    <2>1. record'[t] = None /\ record' \in [Threads -> Ids \cup {None}]
          /\ \A u \in Threads \ {t} : record'[u] = record[u]
      BY <1>1, <1>10
    <2>2. Apart(alloc_pool, allocs', record')
      <3>1. \A x, y \in Elems(allocs') : x.id = y.id => x = y
        BY <1>1, <1>10, <1>11, <1>12 DEF Apart
      <3>2. \A x \in Elems(allocs') : x.id \notin Elems(alloc_pool)
        BY <1>1, <1>10, <1>11, <1>12 DEF Apart
      <3>3. ASSUME NEW u \in Threads, record'[u] # None
            PROVE  /\ record'[u] \notin Elems(alloc_pool)
                   /\ \A x \in Elems(allocs') : x.id # record'[u]
                   /\ \A v \in Threads : record'[v] = record'[u] => v = u
        <4>1. u # t /\ record'[u] = record[u] /\ record[u] # None
          BY <2>1, <3>3
        <4>2. record[u] # record[t]
          BY <1>10, <4>1 DEF Apart
        <4> QED BY <1>10, <1>11, <1>12, <2>1, <4>1, <4>2 DEF Apart
      <3> QED BY <1>10, <1>12, <3>1, <3>2, <3>3 DEF Apart
    <2>3. RecordsOnce' /\ Records' = InUse(alloc_pool, allocs', record')
      BY <1>7, <1>10, <1>12, <2>2, RecordsAre
    <2>4. InUse(alloc_pool, allocs', record') \subseteq InUse(alloc_pool, allocs, record)
      BY <1>1, <1>11, <1>12, <2>1 DEF InUse
    <2>5. \A u \in Threads : record'[u] # None =>
             call'[u].todo # <<>> /\ Head(call'[u].todo) = Tr(call'[u].new)
      BY <1>2, <1>8, <2>1 DEF RecordInv
    <2> QED BY <1>2, <1>7, <1>10, <1>12, <2>1, <2>3, <2>4, <2>5 DEF RecordInv
  <1>16. BooksInv'
    <2>1. alloc_count' = Len(allocs') /\ Traceable' = Traceable
      BY <1>1, <1>2, <1>7, <1>12 DEF BooksInv, Traceable
    <2>2. ASSUME NEW x \in Addrs
          PROVE  /\ Cardinality(OfIn(allocs', x)) - Cardinality(OfIn(allocs, x))
                    + In(x, TracingOf(k2)) - In(x, TracingOf(k))
                    + In(x, UntracedOf(k2)) - In(x, UntracedOf(k))
                    = In(x, Traceable') - In(x, Traceable)
                      + In(x, StaleOf(k2)) - In(x, StaleOf(k))
      <3>0. Cardinality(OfIn(allocs', x)) = Cardinality(OfIn(allocs, x)) + In(x, {e.mem})
        <4>1. Grows(allocs, allocs', e)
          BY <1>10, <1>11, <1>12 DEF Grows
        <4> QED BY <4>1, OfMore
      <3>1. /\ Cardinality(OfIn(allocs, x)) \in Int
            /\ Cardinality(OfIn(allocs', x)) = Cardinality(OfIn(allocs, x)) + In(x, {a})
        BY <1>10, <1>11, <3>0, OfFinite
      <3>2. In(x, {}) = 0 /\ \A S : In(x, S) \in Int
        BY DEF In
      <3> QED BY <1>4, <1>6, <2>1, <3>1, <3>2
    <2> QED BY <1>2, <1>5, <1>7, <1>9, <1>10, <1>12, <2>1, <2>2, BooksStep
  <1>17. InternalInv'
    <2>1. SUFFICES ASSUME AllTrace, ~reused
                   PROVE  /\ \A c \in Addrs : \A u, v \in Stale(c)' : c \notin live' /\ u = v
                          /\ \A r \in Elems(allocs') : Keeper(r)'
      BY <1>7, <1>9 DEF InternalInv
    <2>2. \A c \in Addrs : Stale(c)' = Stale(c)
      BY <1>5, <1>6, StaleSame
    <2>3. \A c \in Addrs : \A u, v \in Stale(c)' : c \notin live' /\ u = v
      BY <1>2, <1>7, <2>1, <2>2 DEF InternalInv
    <2>4. Traceable' = Traceable
      BY <1>7 DEF Traceable
    <2>5. \A u \in Threads : Own(call'[u]) = Own(call[u]) /\ call'[u].op = call[u].op
      BY <1>4, <1>5, <1>6, <1>8
    <2>6. ASSUME NEW r \in Elems(allocs) PROVE Keeper(r)'
      <3>1. Keeper(r) /\ r.mem \in Addrs
        BY <1>2, <2>1, EntryIs DEF InternalInv, RecordInv
      <3> QED BY <1>7, <2>2, <2>4, <2>5, <3>1 DEF Keeper
    <2>7. ASSUME NEW r, r = e PROVE Keeper(r)'
      <3>1. a \in Traceable \ held /\ \A u \in Threads : Own(call[u]) = a => u = t
        BY <1>2, <1>4, <1>6 DEF OwnerInv, Traceable, TailBlocks
      <3>2. r.mem = a /\ r.internal = (k.op = "pthread_create")
        BY <2>7 DEF e
      <3>3. CASE k.op = "pthread_create"
        BY <1>7, <2>4, <2>5, <3>1, <3>2, <3>3 DEF Keeper
      <3>4. CASE k.op # "pthread_create"
        <4>1. k2.op # "pthread_create" /\ Own(k2) = r.mem
          BY <1>5, <1>6, <3>2, <3>4
        <4> QED BY <3>2, <3>4, <4>1 DEF Keeper
      <3> QED BY <3>3, <3>4
    <2> QED BY <1>12, <2>3, <2>6, <2>7
  <1> QED BY <1>13, <1>14, <1>15, <1>16, <1>17 DEF HeapInv

\* Only the outermost untrace of a call removes a record: that of a block a realloc
\* has left, of the block that is being freed, or of the block of a failed realloc.
LEMMA UntraceIs ==
    ASSUME HeapInv, NEW t \in Threads, Doing(t, "untrace"),
           Head(call[t].todo).depth # 2
    PROVE  /\ Head(call[t].todo) = Un(call[t].old) /\ call[t].old \in Addrs
           /\ GoesOn(call[t], Rest(call[t]), tails) /\ TracingOf(Rest(call[t])) = TracingOf(call[t])
           /\ \/ /\ StaleOf(call[t]) = {call[t].old} /\ StaleOf(Rest(call[t])) = {}
                 /\ UntracedOf(Rest(call[t])) = UntracedOf(call[t]) /\ ~Failing(t)
              \/ /\ UntracedOf(call[t]) = {} /\ UntracedOf(Rest(call[t])) = {call[t].old}
                 /\ StaleOf(Rest(call[t])) = StaleOf(call[t]) /\ Own(call[t]) = call[t].old
                 /\ TracingOf(call[t]) = {} /\ ~Failing(t)
              \/ /\ UntracedOf(call[t]) = {} /\ UntracedOf(Rest(call[t])) = {}
                 /\ StaleOf(Rest(call[t])) = StaleOf(call[t]) /\ Own(call[t]) = call[t].old
                 /\ TracingOf(call[t]) = {} /\ Failing(t)
  <1> DEFINE k == call[t]
  <1>1. Running(t) /\ k.todo # <<>> /\ HeadDo(k) = "untrace" /\ CallOK(k, tails)
    BY DEF Doing, HeadDo, HeapInv, ThreadInv
  <1>2. GoesOn(k, Rest(k), tails)
    BY <1>1, TracingGoesOn
  <1>3. Head(k.todo) # Tr(k.new)
    BY <1>1, StepIs DEF Tr, HeadDo
  <1>4. UntraceStep(k, Rest(k)) /\ CallOK(Rest(k), tails)
    BY <1>2, <1>3 DEF GoesOn, TraceStep
  <1>5. TracingOf(Rest(k)) = {} \/ UntracedOf(Rest(k)) = {}
    BY <1>4, Shape
  <1>6. (k.new # k.old => ~Failing(t)) /\ (Refused(k) => Failing(t))
    BY DEF Failing, Refused
  <1>7. Head(k.todo).depth # 2
    OBVIOUS
  <1> QED BY <1>2, <1>4, <1>5, <1>6, <1>7 DEF UntraceStep

\* The threads that are counted for the block that t untraces, before exit.
LEMMA UntraceBooks ==
    ASSUME HeapInv, NEW t \in Threads, Doing(t, "untrace"), Head(call[t].todo).depth # 2, ~is_exit_done
    PROVE  LET a == call[t].old
           IN  /\ OfIn(allocs, a) # {} \/ lost[a] > 0
               /\ StaleOf(call[t]) = {a} /\ ~reused => Cardinality(OfIn(allocs, a)) + lost[a] = 1
  <1> DEFINE k == call[t]  a == call[t].old
             C == Cardinality(OfIn(allocs, a))       T == Cardinality(TracingIn(call, a))
             U == Cardinality(UntracedIn(call, a))   S == Cardinality(StaleIn(call, a))
             F == lost[a]
  <1>1. Running(t) /\ k.todo # <<>> /\ HeadDo(k) = "untrace"
    BY DEF Doing, HeadDo
  <1>2. /\ AllTrace /\ ThreadInv /\ OwnerInv /\ RecordInv /\ BooksInv /\ InternalInv
    BY <1>1, Answered
  <1>3. /\ a \in Addrs /\ a # None
        /\ \/ StaleOf(k) = {a}
           \/ UntracedOf(k) = {} /\ TracingOf(k) = {} /\ Own(k) = a
    BY UntraceIs, NoneIs
  <1>4. C + T + U + F = In(a, Traceable) + S /\ F \in Nat
    BY <1>2, <1>3, SetsAre DEF BooksInv, Of, OfIn, In
  <1>5. IsFiniteSet(OfIn(allocs, a)) /\ C \in Nat
    BY <1>2, OfFinite DEF RecordInv
  <1>6. IsFiniteSet(StaleIn(call, a)) /\ S \in Nat /\ T \in Nat /\ U \in Nat
    <2>1. /\ StaleIn(call, a) \in SUBSET Threads /\ TracingIn(call, a) \in SUBSET Threads
          /\ UntracedIn(call, a) \in SUBSET Threads
      BY DEF StaleIn, TracingIn, UntracedIn
    <2> QED BY <2>1, ThreadsFinite, FS_Subset, FS_CardinalityType
  <1>7. \A u \in Threads : Own(call[u]) = a => a \in Traceable /\ a \in live
    BY <1>2, <1>3 DEF OwnerInv, Traceable, TailBlocks
  <1>8. \/ T = 0 /\ U = 0
        \/ T + U = 1 /\ a \in Traceable /\ a \in live /\ \E u \in Threads :
              Own(call[u]) = a /\ (TracingIn(call, a) = {u} \/ UntracedIn(call, a) = {u})
    <2>1. CASE TracingIn(call, a) = {} /\ UntracedIn(call, a) = {}
      BY <2>1, FS_EmptySet
    <2>2. ASSUME NEW u \in Threads, Own(call[u]) = a,
                 \/ TracingIn(call, a) = {u} /\ UntracedIn(call, a) = {}
                 \/ TracingIn(call, a) = {} /\ UntracedIn(call, a) = {u}
          PROVE  T + U = 1 /\ a \in Traceable /\ a \in live
      BY <1>7, <2>2, FS_EmptySet, FS_Singleton
    <2> QED BY <1>2, <1>3, <2>1, <2>2, Holders
  <1>9. CASE StaleOf(k) = {a}
    <2>1. t \in StaleIn(call, a)
      BY <1>9 DEF StaleIn
    <2>2. S # 0
      BY <1>6, <2>1, FS_EmptySet
    <2>3. In(a, Traceable) \in {0, 1} /\ (a \in Traceable => In(a, Traceable) = 1)
      BY DEF In
    <2>4. C # 0 \/ F > 0
      <3>1. T + U = 0 \/ (T + U = 1 /\ In(a, Traceable) = 1)
        BY <1>8, <2>3
      <3> HIDE DEF C, T, U, S, F
      <3> QED BY <1>4, <1>5, <1>6, <2>2, <2>3, <3>1
    <2>5. OfIn(allocs, a) # {} \/ lost[a] > 0
      BY <2>4, FS_EmptySet
    <2>6. ASSUME ~reused PROVE C + F = 1
      <3>1. a \notin live /\ StaleIn(call, a) = {t}
        BY <1>2, <1>3, <2>1, <2>6, SetsAre DEF InternalInv
      <3>2. S = 1 /\ In(a, Traceable) = 0
        BY <3>1, FS_Singleton DEF In, Traceable
      <3> HIDE DEF C, T, U, S, F
      <3> QED BY <1>4, <1>5, <1>8, <3>1, <3>2
    <2> QED BY <2>5, <2>6
  <1>10. CASE UntracedOf(k) = {} /\ TracingOf(k) = {} /\ Own(k) = a /\ StaleOf(k) # {a}
    <2>1. \A u \in Threads : Own(call[u]) = a => u = t
      BY <1>2, <1>3, <1>10 DEF OwnerInv
    <2>2. t \notin TracingIn(call, a) /\ t \notin UntracedIn(call, a)
      BY <1>10 DEF TracingIn, UntracedIn
    <2>3. T = 0 /\ U = 0
      BY <1>8, <2>1, <2>2
    <2>4. In(a, Traceable) = 1
      BY <1>7, <1>10 DEF In
    <2>5. C # 0 \/ F > 0
      <3> HIDE DEF C, T, U, S, F
      <3> QED BY <1>4, <1>5, <1>6, <2>3, <2>4
    <2> QED BY <1>10, <2>5, FS_EmptySet
  <1> QED BY <1>3, <1>9, <1>10

\* alloc_free finds a record r of the block, before exit, and takes it out.
Removes(t, r) ==
    /\ r \in Elems(allocs) /\ r.mem = call[t].old
    /\ allocs' \in Seq(Entry) /\ NoRepeat(allocs') /\ Elems(allocs') = Elems(allocs) \ {r}
    /\ Len(allocs') = Len(allocs) - 1 /\ alloc_count' = Len(allocs')
    /\ alloc_pool' = <<r.id>> \o alloc_pool /\ alloc_batch' = alloc_batch /\ aborted' = FALSE
    /\ lost' = IF Failing(t) THEN [lost EXCEPT ![call[t].old] = @ + 1] ELSE lost

\* Or it finds none, because a failing realloc has removed it.
BadMemory(t) == aborted' = TRUE /\ UNCHANGED tracker /\ lost[call[t].old] > 0

\* The entry that is looked for is there, unless a failing realloc has removed it.
LEMMA RemovesIs ==
    ASSUME HeapInv, NEW t \in Threads, alloc_free(t)
    PROVE  (\E r : Removes(t, r)) \/ BadMemory(t)
  <1> DEFINE a == call[t].old
             hits == {i \in 1..Len(allocs) : allocs[i].mem = a}
             i == CHOOSE j \in hits : \A l \in hits : j <= l
  <1>1. Doing(t, "untrace") /\ Head(call[t].todo).depth # 2 /\ ~is_exit_done
    BY SMTT(40) DEF alloc_free, Skipped
  <1>2. Head(call[t].todo).mem = a
    BY <1>1, UntraceIs, StepIs DEF Un
  <1>3. /\ aborted' = (hits = {} \/ alloc_count < 1)
        /\ hits # {} => /\ allocs' = RemoveAt(allocs, i)
                        /\ alloc_pool' = <<allocs[i].id>> \o alloc_pool
                        /\ alloc_count' = alloc_count - 1 /\ alloc_batch' = alloc_batch
                        /\ lost' = IF Failing(t) THEN [lost EXCEPT ![a] = @ + 1] ELSE lost
        /\ hits = {} => UNCHANGED tracker
    BY <1>2 DEF alloc_free
  <1>4. allocs \in Seq(Entry) /\ NoRepeat(allocs) /\ alloc_count = Len(allocs) /\ Len(allocs) \in Nat
    BY RecordsAre, LenProperties DEF HeapInv, RecordInv, BooksInv, Apart
  <1>13. CASE hits = {}
    <2>1. OfIn(allocs, a) = {}
      BY <1>13 DEF OfIn, Elems
    <2>2. lost[a] > 0
      BY <1>1, <2>1, UntraceBooks
    <2> QED BY <1>3, <1>13, <2>2 DEF BadMemory
  <1> SUFFICES ASSUME hits # {} PROVE \E r : Removes(t, r)
    BY <1>13
  <1>5. hits # {} /\ hits \subseteq Nat
    OBVIOUS
  <1>6. i \in hits
    BY <1>5, Least
  <1> HIDE DEF i
  <1>7. i \in 1..Len(allocs) /\ allocs[i].mem = a
    BY <1>6
  <1>8. /\ RemoveAt(allocs, i) \in Seq(Entry) /\ NoRepeat(RemoveAt(allocs, i))
        /\ Elems(RemoveAt(allocs, i)) = Elems(allocs) \ {allocs[i]}
        /\ Len(RemoveAt(allocs, i)) = Len(allocs) - 1
    BY <1>4, <1>7, RemoveAtElems, RemoveAtIs
  <1>9. allocs[i] \in Elems(allocs)
    BY <1>7 DEF Elems
  <1>10. aborted' = FALSE
    <2>1. ~(alloc_count < 1)
      BY <1>4, <1>7
    <2> QED BY <1>3, <1>5, <2>1
  <1>11. /\ allocs' = RemoveAt(allocs, i) /\ alloc_pool' = <<allocs[i].id>> \o alloc_pool
         /\ alloc_count' = alloc_count - 1 /\ alloc_batch' = alloc_batch
         /\ lost' = IF Failing(t) THEN [lost EXCEPT ![a] = @ + 1] ELSE lost
    BY <1>3, <1>5
  <1> HIDE DEF hits
  <1>12. Removes(t, allocs[i])
    BY <1>4, <1>7, <1>8, <1>9, <1>10, <1>11 DEF Removes
  <1> QED BY <1>12

\* A list with one entry less.
LEMMA OfLess ==
    ASSUME NEW s \in Seq(Entry), NEW s2 \in Seq(Entry), NEW e \in Elems(s),
           Elems(s2) = Elems(s) \ {e}, NEW x
    PROVE  Cardinality(OfIn(s2, x)) = Cardinality(OfIn(s, x)) - In(x, {e.mem})
  <1>1. Grows(s2, s, e)
    BY EntryIs DEF Grows
  <1>2. Cardinality(OfIn(s, x)) = Cardinality(OfIn(s2, x)) + In(x, {e.mem})
    BY <1>1, OfMore
  <1>3. In(x, {e.mem}) \in Int /\ Cardinality(OfIn(s2, x)) \in Int
    BY OfFinite DEF In
  <1> QED BY <1>2, <1>3

\* The record that is taken out goes to the pool.
LEMMA PoolGrows ==
    ASSUME RecordInv, NEW t \in Threads, OnlyCallOf(t), record' = record, record[t] = None,
           NEW r, Removes(t, r)
    PROVE  RecordInv'
  <1>1. /\ alloc_pool \in Seq(Ids) /\ allocs \in Seq(Entry) /\ record \in [Threads -> Ids \cup {None}]
        /\ Apart(alloc_pool, allocs, record) /\ Records = InUse(alloc_pool, allocs, record)
    BY RecordsAre DEF RecordInv
  <1>2. /\ r \in Elems(allocs) /\ allocs' \in Seq(Entry) /\ NoRepeat(allocs')
        /\ Elems(allocs') = Elems(allocs) \ {r}
        /\ alloc_pool' = <<r.id>> \o alloc_pool /\ alloc_batch' = alloc_batch
    BY DEF Removes
  <1>3. r.id \in Ids /\ r.id \notin Elems(alloc_pool) /\ NoRepeat(alloc_pool)
    BY <1>1, <1>2, EntryIs DEF Apart
  <1>4. /\ alloc_pool' \in Seq(Ids) /\ NoRepeat(alloc_pool')
        /\ Elems(alloc_pool') = Elems(alloc_pool) \cup {r.id}
    <2>1. /\ <<r.id>> \o alloc_pool \in Seq(Ids) /\ NoRepeat(<<r.id>> \o alloc_pool)
          /\ Elems(<<r.id>> \o alloc_pool) = Elems(alloc_pool) \cup {r.id}
      BY <1>1, <1>3, PrependElems
    <2> QED BY <1>2, <2>1
  <1>5. Apart(alloc_pool', allocs', record)
    <2>1. \A x, y \in Elems(allocs') : x.id = y.id => x = y
      BY <1>1, <1>2 DEF Apart
    <2>2. \A x \in Elems(allocs') : x.id \notin Elems(alloc_pool')
      <3>1. SUFFICES ASSUME NEW x \in Elems(allocs), x # r
                     PROVE  x.id \notin Elems(alloc_pool) /\ x.id # r.id
        BY <1>2, <1>4
      <3> QED BY <1>1, <1>2, <3>1 DEF Apart
    <2>3. ASSUME NEW u \in Threads, record[u] # None
          PROVE  /\ record[u] \notin Elems(alloc_pool')
                 /\ \A x \in Elems(allocs') : x.id # record[u]
                 /\ \A v \in Threads : record[v] = record[u] => v = u
      BY <1>1, <1>2, <1>4, <2>3 DEF Apart
    <2> QED BY <1>2, <1>4, <2>1, <2>2, <2>3 DEF Apart
  <1>6. RecordsOnce' /\ Records' = InUse(alloc_pool', allocs', record)
    BY <1>2, <1>4, <1>5, RecordsAre
  <1>7. InUse(alloc_pool', allocs', record) \subseteq InUse(alloc_pool, allocs, record)
    BY <1>2, <1>4 DEF InUse
  <1>8. \A u \in Threads : record'[u] # None =>
           call'[u].todo # <<>> /\ Head(call'[u].todo) = Tr(call'[u].new)
    BY DEF RecordInv, OnlyCallOf, Alike
  <1> QED BY <1>1, <1>2, <1>4, <1>6, <1>7, <1>8 DEF RecordInv

\* The entry of a block is removed.
LEMMA alloc_freeKeeps ==
    ASSUME HeapInv, NEW t \in Threads, alloc_free(t)
    PROVE  HeapInv'
  <1> DEFINE k == call[t]  k2 == call'[t]  a == call[t].old
  <1>1. /\ Doing(t, "untrace") /\ Running(t) /\ k.todo # <<>> /\ HeadDo(k) = "untrace"
        /\ Head(k.todo).depth # 2 /\ ~is_exit_done
        /\ call' = [call EXCEPT ![t].todo = Tail(k.todo)]
        /\ UNCHANGED <<initVars, heapVars, exitVars, record, started, reused>>
    <2>1. /\ Doing(t, "untrace") /\ ~Skipped(Head(k.todo).depth) /\ Advance(t)
          /\ UNCHANGED <<initVars, heapVars, exitVars, record, started, reused>>
      BY Zenon DEF alloc_free
    <2>2. Running(t) /\ k.todo # <<>> /\ HeadDo(k) = "untrace"
      BY <2>1 DEF Doing, HeadDo
    <2>3. Head(k.todo).depth # 2 /\ ~is_exit_done
      BY <2>1 DEF Skipped
    <2>4. call' = [call EXCEPT ![t].todo = Tail(k.todo)]
      BY <2>1 DEF Advance
    <2> QED BY ONLY <2>1, <2>2, <2>3, <2>4
  <1>2. /\ k.op # "exit" /\ t \in started /\ aborted = FALSE /\ report = None /\ is_init_done
        /\ AllTrace /\ CallOK(k, tails)
        /\ ThreadInv /\ OwnerInv /\ RecordInv /\ BooksInv /\ InternalInv /\ InitInv
    BY <1>1, Answered
  <1>4. /\ a \in Addrs /\ a # None
        /\ GoesOn(k, Rest(k), tails) /\ TracingOf(Rest(k)) = TracingOf(k)
        /\ \/ /\ StaleOf(k) = {a} /\ StaleOf(Rest(k)) = {} /\ UntracedOf(Rest(k)) = UntracedOf(k)
              /\ ~Failing(t)
           \/ /\ UntracedOf(k) = {} /\ UntracedOf(Rest(k)) = {a} /\ StaleOf(Rest(k)) = StaleOf(k)
              /\ ~Failing(t)
           \/ /\ UntracedOf(k) = {} /\ UntracedOf(Rest(k)) = {} /\ StaleOf(Rest(k)) = StaleOf(k)
              /\ Failing(t)
    BY <1>1, UntraceIs, NoneIs
  <1>5. k2 = Rest(k) /\ OnlyCallOf(t) /\ k2.op = k.op /\ k2.old = a /\ k2.new = k.new
    BY <1>1, <1>2, TodoIs, RestIs DEF Rest, ThreadInv
  <1>6. /\ Own(k2) = Own(k) /\ TracingOf(k2) = TracingOf(k) /\ CallOK(k2, tails) /\ Past(k2)
        /\ \/ /\ StaleOf(k) = {a} /\ StaleOf(k2) = {} /\ UntracedOf(k2) = UntracedOf(k) /\ ~Failing(t)
           \/ /\ UntracedOf(k) = {} /\ UntracedOf(k2) = {a} /\ StaleOf(k2) = StaleOf(k) /\ ~Failing(t)
           \/ /\ UntracedOf(k) = {} /\ UntracedOf(k2) = {} /\ StaleOf(k2) = StaleOf(k) /\ Failing(t)
    BY <1>4, <1>5, PastIs DEF GoesOn
  <1>7. /\ UNCHANGED <<is_init_done, init_lock, init_lock_count, is_exit_done, report, live, held, tails,
                       record, started, reused>>
    BY <1>1 DEF initVars, heapVars, exitVars
  <1>8. \A u \in Threads \ {t} : call'[u] = call[u]
    BY <1>5 DEF OnlyCallOf, Alike
  <1>9. SameOwner(t) /\ record[t] = None
    BY <1>1, <1>2, <1>5, <1>6, <1>7, NoRecord DEF SameOwner
  <1>18. OwnerInv' /\ InitInv'
    <2>1. UNCHANGED initVars
      BY <1>1
    <2> QED BY <1>2, <1>5, <1>6, <1>9, <2>1, InitStep, OwnerSame
  <1>19. aborted' \in BOOLEAN => ThreadInv'
    <2>1. \A u \in Threads \ {t} : CallOK(call[u], tails')
      BY <1>2, <1>7 DEF ThreadInv
    <2> QED BY <1>2, <1>5, <1>6, <1>7, <2>1, ThreadStep DEF ThreadInv
  <1>20. ReportInv'
    BY <1>2, <1>7 DEF ReportInv
  \* The block has lost its record, and the program is over.
  <1>21. CASE BadMemory(t)
    <2>1. aborted' = TRUE /\ UNCHANGED tracker /\ allocs' = allocs /\ alloc_count' = alloc_count /\ lost' = lost
      BY <1>21 DEF BadMemory, tracker
    <2>2. BooksInv' /\ InternalInv'
      BY <1>2, <2>1 DEF BooksInv, InternalInv, AllTrace
    <2>3. RecordInv'
      BY <1>2, <1>5, <1>7, <1>9, <2>1, RecordStep
    <2>4. NeverAborts'
      <3>1. call'[t].old \in Addrs /\ lost'[call'[t].old] > 0
        BY <1>4, <1>5, <1>21, <2>1 DEF BadMemory
      <3> QED BY <3>1 DEF NeverAborts
    <2> QED BY <1>18, <1>19, <1>20, <2>1, <2>2, <2>3, <2>4 DEF HeapInv
  <1> SUFFICES ASSUME NEW r, Removes(t, r) PROVE HeapInv'
    BY <1>21, RemovesIs
  <1>3. Removes(t, r) /\ AllTrace'
    BY <1>2, <1>7 DEF AllTrace, Removes
  <1>10. /\ r \in Elems(allocs) /\ r.mem = a /\ allocs \in Seq(Entry)
         /\ allocs' \in Seq(Entry) /\ Elems(allocs') = Elems(allocs) \ {r}
         /\ alloc_count' = Len(allocs') /\ aborted' = FALSE
    BY <1>2, <1>3 DEF Removes, RecordInv
  <1>11. ThreadInv' /\ NeverAborts'
    BY <1>10, <1>19 DEF NeverAborts
  <1>13. RecordInv'
    BY <1>2, <1>3, <1>5, <1>7, <1>9, PoolGrows
  <1>14. Traceable' = Traceable
    BY <1>7 DEF Traceable
  <1>15. BooksInv'
    <2>1. /\ lost \in [Addrs -> Nat] /\ lost' \in [Addrs -> Nat]
          /\ \A x \in Addrs : lost'[x] = lost[x] + (IF Failing(t) THEN In(x, {a}) ELSE 0)
      <3>1. lost \in [Addrs -> Nat] /\ lost' = IF Failing(t) THEN [lost EXCEPT ![a] = @ + 1] ELSE lost
        BY <1>2, <1>3 DEF BooksInv, Removes
      <3>2. CASE Failing(t)
        BY <1>4, <3>1, <3>2 DEF In
      <3>3. CASE ~Failing(t)
        BY <3>1, <3>3
      <3> QED BY <3>2, <3>3
    <2>2. ASSUME NEW x \in Addrs
          PROVE  /\ Cardinality(OfIn(allocs', x)) - Cardinality(OfIn(allocs, x))
                    + In(x, TracingOf(k2)) - In(x, TracingOf(k))
                    + In(x, UntracedOf(k2)) - In(x, UntracedOf(k)) + lost'[x] - lost[x]
                    = In(x, Traceable') - In(x, Traceable)
                      + In(x, StaleOf(k2)) - In(x, StaleOf(k))
      <3>1. Cardinality(OfIn(allocs', x)) = Cardinality(OfIn(allocs, x)) - In(x, {r.mem})
        BY <1>10, OfLess
      <3>2. /\ Cardinality(OfIn(allocs, x)) \in Int
            /\ Cardinality(OfIn(allocs', x)) = Cardinality(OfIn(allocs, x)) - In(x, {a})
        BY <1>10, <3>1, OfFinite
      <3>3. In(x, {}) = 0 /\ (\A S : In(x, S) \in Int) /\ lost[x] \in Int
        BY <2>1 DEF In
      <3>4. CASE ~Failing(t)
        <4>1. lost'[x] = lost[x]
          BY <2>1, <3>3, <3>4
        <4>2. CASE StaleOf(k) = {a} /\ StaleOf(k2) = {} /\ UntracedOf(k2) = UntracedOf(k)
          BY <1>6, <1>14, <3>2, <3>3, <4>1, <4>2
        <4>3. CASE UntracedOf(k) = {} /\ UntracedOf(k2) = {a} /\ StaleOf(k2) = StaleOf(k)
          BY <1>6, <1>14, <3>2, <3>3, <4>1, <4>3
        <4> QED BY <1>6, <3>4, <4>2, <4>3
      <3>5. CASE Failing(t)
        <4>1. lost'[x] = lost[x] + In(x, {a})
          BY <2>1, <3>5
        <4>2. UntracedOf(k2) = UntracedOf(k) /\ StaleOf(k2) = StaleOf(k) /\ TracingOf(k2) = TracingOf(k)
          BY <1>6, <3>5
        <4> QED BY <1>14, <3>2, <3>3, <4>1, <4>2
      <3> QED BY <3>4, <3>5
    <2> QED BY <1>2, <1>5, <1>10, <2>1, <2>2, BooksMove
  <1>16. InternalInv'
    <2>1. SUFFICES ASSUME ~reused
                   PROVE  /\ \A c \in Addrs : \A u, v \in Stale(c)' : c \notin live' /\ u = v
                          /\ \A q \in Elems(allocs') : Keeper(q)'
      BY <1>7 DEF InternalInv
    <2>2. \A c \in Addrs : \A u \in Threads :
             u \in Stale(c)' <=> u \in Stale(c) /\ ~(u = t /\ c \in StaleOf(k) \ StaleOf(k2))
      BY <1>6, <1>8, StaleIs
    <2>3. \A c \in Addrs : \A u, v \in Stale(c)' : c \notin live' /\ u = v
      BY <1>2, <1>7, <2>1, <2>2 DEF InternalInv, Stale
    <2>4. \A u \in Threads : Own(call'[u]) = Own(call[u]) /\ call'[u].op = call[u].op
      BY <1>5, <1>6, <1>8
    <2>5. ASSUME NEW q \in Elems(allocs), q # r PROVE Keeper(q)'
      <3>1. Keeper(q) /\ q.mem \in Addrs
        BY <1>2, <2>1, EntryIs DEF InternalInv, RecordInv
      <3>2. CASE q.internal
        BY <1>7, <1>14, <2>4, <3>1, <3>2 DEF Keeper
      <3>3. CASE ~q.internal
        <4>1. CASE q.mem \in held
          BY <1>7, <3>3, <4>1 DEF Keeper
        <4>2. CASE q.mem \notin held
          <5>1. PICK u \in Threads : /\ call[u].op # "pthread_create"
                                     /\ Own(call[u]) = q.mem \/ u \in Stale(q.mem)
            BY <3>1, <3>3, <4>2 DEF Keeper
          \* The record of the old block is its only one.
          <5>2. ~(u = t /\ q.mem \in StaleOf(k) \ StaleOf(k2))
            <6>1. SUFFICES ASSUME u = t, q.mem \in StaleOf(k) \ StaleOf(k2) PROVE FALSE
              OBVIOUS
            <6>2. StaleOf(k) = {a} /\ q.mem = a
              BY <1>6, <6>1
            <6>3. Cardinality(OfIn(allocs, a)) + lost[a] = 1 /\ lost[a] \in Nat
              BY <1>1, <1>2, <1>4, <2>1, <6>2, UntraceBooks DEF BooksInv
            <6>4. q \in OfIn(allocs, a) /\ r \in OfIn(allocs, a)
              BY <1>10, <6>2 DEF OfIn
            <6>5. IsFiniteSet(OfIn(allocs, a)) /\ Cardinality(OfIn(allocs, a)) \in Nat
              BY <1>10, OfFinite
            <6>7. Cardinality(OfIn(allocs, a)) # 0
              BY <6>4, <6>5, FS_EmptySet
            <6>8. Cardinality(OfIn(allocs, a)) = 1
              BY <6>3, <6>5, <6>7
            <6>6. \E x : OfIn(allocs, a) = {x}
              BY <6>5, <6>8, FS_Singleton
            <6> QED BY <2>5, <6>4, <6>6
          <5>3. /\ call'[u].op # "pthread_create"
                /\ Own(call'[u]) = q.mem \/ u \in Stale(q.mem)'
            BY <2>2, <2>4, <3>1, <5>1, <5>2
          <5> QED BY <3>3, <5>3 DEF Keeper
        <4> QED BY <4>1, <4>2
      <3> QED BY <3>2, <3>3
    <2> QED BY <1>10, <2>3, <2>5
  <1> QED BY <1>11, <1>13, <1>15, <1>16, <1>18, <1>20 DEF HeapInv

-----------------------------------------------------------------------------
(* The invariant holds.                                                    *)

\* The invariant holds when the program starts.
LEMMA InitHolds == Init => HeapInv
  <1> SUFFICES ASSUME Init PROVE HeapInv
    OBVIOUS
  <1>1. /\ is_init_done = FALSE /\ init_lock = FALSE /\ init_lock_count = [t \in Threads |-> 0]
        /\ allocs = <<>> /\ alloc_count = 0 /\ alloc_pool = <<>>
        /\ alloc_batch = [nth |-> 0, used |-> ALLOCATION_BATCH_SIZE]
        /\ is_exit_done = FALSE /\ report = None /\ aborted = FALSE
        /\ call = [t \in Threads |-> Idle] /\ record = [t \in Threads |-> None]
        /\ started = {Main} /\ live = {} /\ held = {} /\ tails = <<>> /\ reused = FALSE
        /\ lost = [a \in Addrs |-> 0]
    BY DEF Init
  <1>2. Main \in Threads /\ Others \subseteq Threads
    BY DEF Threads
  <1>3. /\ NoBlock(Idle) /\ DOMAIN Idle = CallFields /\ Idle.op = "idle" /\ Resting(Idle)
        /\ ~BeforeLock(Idle) /\ InInit(Idle) = FALSE
    BY FirstIs DEF Idle, NoBlock, CallFields, Resting
  <1>4. Has(Idle, None, {}, {}, {})
    BY <1>3, HasNothing
  <1>5. DOMAIN tails = {} /\ TailBlocks = {} /\ Traceable = {}
    BY <1>1 DEF TailBlocks, Traceable
  <1>6. InitInv
    <2>1. (init_lock_count[Main] = 1) = FALSE
      BY <1>1, <1>2
    <2>2. init_lock = InInit(call[Main]) /\ (init_lock_count[Main] = 1) = init_lock
      BY <1>1, <1>2, <1>3, <2>1
    <2>3. \A t \in Others : ~BeforeLock(call[t]) /\ ~InInit(call[t]) /\ init_lock_count[t] = 0
      BY <1>1, <1>2, <1>3
    <2>4. init_lock_count \in [Threads -> 0..1] /\ call[Main] = Idle
      BY <1>1, <1>2
    <2> QED BY <1>1, <2>2, <2>3, <2>4 DEF InitInv
  <1>7. ThreadInv
    <2>1. CallOK(Idle, tails)
      BY <1>3 DEF CallOK
    <2> QED BY <1>1, <1>2, <1>3, <2>1 DEF ThreadInv
  <1>8. OwnerInv
    BY <1>1, <1>4, <1>5 DEF OwnerInv, Has
  <1>9. RecordInv
    <2>1. /\ alloc_pool \in Seq(Ids) /\ allocs \in Seq(Entry) /\ Elems(allocs) = {}
          /\ Elems(alloc_pool) = {}
          /\ NoRepeat(allocs) /\ NoRepeat(alloc_pool)
      BY <1>1, EmptyList
    <2>2. Apart(alloc_pool, allocs, record) /\ InUse(alloc_pool, allocs, record) = {}
      BY <1>1, <2>1 DEF Apart, InUse
    <2>3. RecordsOnce /\ Records = {}
      BY <2>1, <2>2, RecordsAre
    <2>4. alloc_batch \in [nth : Nat, used : 1..ALLOCATION_BATCH_SIZE]
      BY <1>1, BatchAssumption
    <2> QED BY <1>1, <2>1, <2>3, <2>4 DEF RecordInv
  <1>10. BooksInv
    <2>1. alloc_count = Len(allocs) /\ Elems(allocs) = {}
      BY <1>1, EmptyList
    <2>2. ASSUME NEW a \in Addrs
          PROVE  Of(a) = {} /\ Tracing(a) = {} /\ Untraced(a) = {} /\ Stale(a) = {}
      BY <1>1, <1>4, <2>1, SetsAre DEF Of, TracingIn, UntracedIn, StaleIn, Has
    <2>3. \A a \in Addrs : Cardinality(Of(a)) + Cardinality(Tracing(a)) + Cardinality(Untraced(a))
                           + lost[a] = (IF a \in Traceable THEN 1 ELSE 0) + Cardinality(Stale(a))
      <3>1. SUFFICES ASSUME NEW a \in Addrs
                     PROVE  Cardinality(Of(a)) + Cardinality(Tracing(a)) + Cardinality(Untraced(a))
                            + lost[a] = (IF a \in Traceable THEN 1 ELSE 0) + Cardinality(Stale(a))
        OBVIOUS
      <3>2. /\ Cardinality(Of(a)) = 0 /\ Cardinality(Tracing(a)) = 0 /\ Cardinality(Untraced(a)) = 0
            /\ Cardinality(Stale(a)) = 0 /\ lost[a] = 0
        BY <1>1, <2>2, FS_EmptySet
      <3>3. (IF a \in Traceable THEN 1 ELSE 0) = 0
        BY <1>5
      <3> QED BY <3>2, <3>3
    <2>4. lost \in [Addrs -> Nat]
      BY <1>1
    <2> QED BY <2>1, <2>3, <2>4 DEF BooksInv
  <1>11. InternalInv
    <2>1. \A a \in Addrs : Stale(a) = {}
      BY <1>1, <1>4, SetsAre DEF StaleIn, Has
    <2> QED BY <1>1, <2>1, EmptyList DEF InternalInv
  <1>12. ReportInv /\ NeverAborts
    BY <1>1 DEF ReportInv, NeverAborts
  <1> QED BY <1>6, <1>7, <1>8, <1>9, <1>10, <1>11, <1>12 DEF HeapInv

\* A step that changes nothing.
LEMMA StutterKeeps ==
    ASSUME HeapInv, UNCHANGED vars
    PROVE  HeapInv'
  <1>1. /\ UNCHANGED <<is_init_done, init_lock, init_lock_count, started, is_exit_done, report, call,
                       tails, live, reused, aborted, allocs, alloc_count, lost>>
        /\ Calm
    BY DEF vars, Calm, tracker, initVars, exitVars, heapVars
  <1>2. AllTrace' = AllTrace
    BY <1>1 DEF AllTrace
  <1>3. InitInv' /\ ThreadInv' /\ NeverAborts'
    BY <1>1 DEF HeapInv, InitInv, ThreadInv, NeverAborts, LateThread
  <1>4. ReportInv'
    BY <1>1 DEF HeapInv, ReportInv, Internals, trace_is_internal
  <1> QED BY <1>1, <1>2, <1>3, <1>4, CalmKeeps DEF HeapInv

\* A step within a call.
LEMMA ContinueKeeps ==
    ASSUME HeapInv, NEW t \in Threads, Continue(t)
    PROVE  HeapInv'
  BY InitBeginKeeps, NestedTouchKeeps, StaticKeeps, InitEndKeeps, AllocKeeps, GetaddrinfoKeeps,
     FailsKeeps, ReallocKeeps, LibcFreeKeeps, SkipKeeps, TakeRecordKeeps, InsertKeeps,
     alloc_freeKeeps, ReturnKeeps
     DEF Continue

\* Every step keeps the invariant.
LEMMA NextKeeps == HeapInv /\ [Next]_vars => HeapInv'
  <1> SUFFICES ASSUME HeapInv, [Next]_vars PROVE HeapInv'
    OBVIOUS
  <1>1. /\ {"malloc", "strdup", "getaddrinfo", "pthread_create", "getline", "realloc"} \subseteq AllocOps
        /\ Main \in Threads
    BY DEF AllocOps, Ops, Threads
  <1>2. ASSUME NEW t \in Threads, malloc(t) \/ calloc(t) PROVE HeapInv'
    BY <1>1, <1>2, AllocateKeeps DEF malloc, calloc
  <1>3. ASSUME NEW t \in Threads, strdup(t) PROVE HeapInv'
    BY <1>1, <1>3, AllocateKeeps DEF strdup
  <1>4. ASSUME NEW t \in Threads, getaddrinfo(t) PROVE HeapInv'
    BY <1>1, <1>4, AllocateKeeps DEF getaddrinfo
  <1>5. ASSUME NEW t \in Threads, getline(t) PROVE HeapInv'
    BY <1>1, <1>5, AllocateKeeps, ResizeKeeps DEF getline
  <1>6. ASSUME NEW t \in Threads, realloc(t) PROVE HeapInv'
    <2>1. CASE Resize(t, "realloc")
      BY <2>1, ResizeKeeps
    <2>2. CASE Allocate(t, "realloc") /\ held' = held \ {Static}
      BY <1>1, <2>2, AllocateKeeps
    <2> QED BY <1>6, <2>1, <2>2 DEF realloc
  <1>7. ASSUME NEW t \in Threads, free(t) \/ FreeStatic(t) \/ freeaddrinfo(t) PROVE HeapInv'
    BY <1>7, FreeKeeps, FreeStaticKeeps, FreeaddrinfoKeeps
  <1>8. ASSUME NEW t \in Threads, InitCalls(t) \/ ThreadEnds(t) \/ Continue(t) PROVE HeapInv'
    BY <1>8, InitCallsKeeps, ThreadEndsKeeps, ContinueKeeps
  <1>9. CASE pthread_create
    BY <1>1, <1>9, AllocateKeeps DEF pthread_create
  <1>10. CASE Exit \/ heaph_atexit
    BY <1>10, ExitKeeps, AtexitKeeps
  <1>11. CASE UNCHANGED vars
    BY <1>11, StutterKeeps
  <1> QED BY <1>2, <1>3, <1>4, <1>5, <1>6, <1>7, <1>8, <1>9, <1>10, <1>11 DEF Next

\* Whatever the threads do, the state of the initialisation, the calls, the owners of
\* the blocks, the records and the books fit together.
THEOREM HeapInvariant == Spec => []HeapInv
  BY InitHolds, NextKeeps, PTL DEF Spec

\* An assertion of the tracker fails in a correct program only where a block is handed
\* back whose record a failing realloc has removed (556), or a strdup is refused after
\* exit (511).  Elsewhere alloc_free finds the block it is given (234), alloc_count never
\* passes zero (227), and the initialisation happens once (251, 252, 482).
THEOREM NeverAbortsCorrectly == Spec => []NeverAborts
  <1>1. HeapInv => NeverAborts
    BY DEF HeapInv
  <1> QED BY <1>1, HeapInvariant, PTL

\* No call waits for init_lock for ever: it is free when somebody asks for it, as only
\* main is running before the end of heaph_init, and main does not ask again (475).
THEOREM InitNeverStuck == Spec => []NeverStuck
  <1>1. HeapInv => NeverStuck
    <2> SUFFICES ASSUME HeapInv, NEW t \in Threads, Doing(t, "touch"), ~Reentrant(t)
                 PROVE  ~init_lock
      BY DEF NeverStuck
    <2>1. InitInv /\ CallOK(call[t], tails) /\ call[t].todo # <<>> /\ HeadDo(call[t]) = "touch"
      BY DEF HeapInv, ThreadInv, Doing, HeadDo
    <2>2. BeforeLock(call[t]) \/ InInit(call[t])
      BY <2>1, KindIs
    <2>3. t = Main
      BY <2>1, <2>2, FirstIsMain
    <2>4. init_lock => init_lock_count[Main] = 1
      BY <2>1 DEF InitInv
    <2> QED BY <2>3, <2>4 DEF Reentrant
  <1> QED BY <1>1, HeapInvariant, PTL

-----------------------------------------------------------------------------
(* What the invariant means for the counts.                                *)

\* A list without repetitions has as many elements as places.
LEMMA PlacesAre ==
    ASSUME NEW s \in Seq(Entry), NoRepeat(s), NEW D \in SUBSET (1..Len(s)), NEW T, T = {s[i] : i \in D}
    PROVE  IsFiniteSet(D) /\ IsFiniteSet(T) /\ Cardinality(D) = Cardinality(T)
  <1>1. IsFiniteSet(1..Len(s))
    <2>1. Len(s) \in Int
      BY LenProperties
    <2> QED BY <2>1, FS_Interval
  <1>2. IsFiniteSet(D)
    BY <1>1, FS_Subset
  <1> DEFINE f == [i \in D |-> s[i]]
  <1>3. f \in Bijection(D, T)
    BY DEF Bijection, Injection, Surjection, IsInjective, NoRepeat
  <1>4. ExistsBijection(D, T)
    BY <1>3 DEF ExistsBijection
  <1> HIDE DEF f
  <1> QED BY <1>2, <1>4, FS_Bijection

\* The list and the sets of its records.
LEMMA ListIs ==
    ASSUME RecordInv
    PROVE  /\ allocs \in Seq(Entry) /\ NoRepeat(allocs) /\ Len(allocs) \in Nat
           /\ Cardinality(Elems(allocs)) = Len(allocs)
           /\ \A a : Cardinality({i \in 1..Len(allocs) : allocs[i].mem = a}) = Cardinality(Of(a))
           /\ IsFiniteSet({r \in Elems(allocs) : ~r.internal}) /\ Cardinality(Internals) \in Nat
           /\ Cardinality({r \in Elems(allocs) : ~r.internal}) = Len(allocs) - Cardinality(Internals)
  <1> DEFINE n == Len(allocs)
  <1>1. allocs \in Seq(Entry) /\ NoRepeat(allocs) /\ n \in Nat
    BY RecordsAre, LenProperties DEF RecordInv, Apart
  <1>2. IsFiniteSet(1..n) /\ Cardinality(1..n) = n
    BY <1>1, FS_Interval
  <1>3. Cardinality(Elems(allocs)) = n
    BY <1>1, <1>2, PlacesAre DEF Elems
  <1>4. ASSUME NEW a
        PROVE  Cardinality({i \in 1..n : allocs[i].mem = a}) = Cardinality(Of(a))
    <2> DEFINE D == {i \in 1..n : allocs[i].mem = a}
    <2>1. Of(a) = {allocs[i] : i \in D} /\ D \in SUBSET (1..n)
      BY DEF Of, Elems
    <2> HIDE DEF D
    <2>2. Cardinality(D) = Cardinality(Of(a))
      BY <1>1, <2>1, PlacesAre
    <2> QED BY <2>2 DEF D
  <1>5. Internals \in SUBSET (1..n) /\ Cardinality(Internals) \in Nat
    <2>1. Internals \in SUBSET (1..n)
      BY DEF Internals
    <2> QED BY <1>2, <2>1, FS_Subset, FS_CardinalityType
  <1> DEFINE D == (1..n) \ Internals  E == {r \in Elems(allocs) : ~r.internal}
  <1>6. Cardinality(D) = n - Cardinality(Internals)
    <2>1. (1..n) \cap Internals = Internals
      BY <1>5
    <2>2. Cardinality(D) = Cardinality(1..n) - Cardinality((1..n) \cap Internals)
      BY <1>2, FS_Difference
    <2> QED BY ONLY <1>2, <2>1, <2>2
  <1>7. E = {allocs[i] : i \in D} /\ D \in SUBSET (1..n)
    BY DEF Internals, trace_is_internal, Elems
  <1> HIDE DEF D, E
  <1>8. IsFiniteSet(E) /\ Cardinality(D) = Cardinality(E)
    BY <1>1, <1>7, PlacesAre
  <1> QED BY <1>1, <1>3, <1>4, <1>5, <1>6, <1>8 DEF E

\* The blocks a call has are blocks.
LEMMA CallHas ==
    ASSUME NEW k, NEW T, CallOK(k, T)
    PROVE  k.old \in Blocks /\ k.new \in Blocks
  BY DEF CallOK, BeforeLock, InInit, Resting, Asking, Finished, Got, Resizing, HasMoved, Emptied,
         Refused, Freeing, FreeingTail, FreeingHead, NoBlock, Idle, Blocks

\* The list, alloc_count and the records agree with the heap, whatever steps of other
\* threads come between libc's work and the tracker's (187-201, 203-235, 545-563): until
\* exit or a failed assertion there is one entry for every block in use, but for those
\* that a thread has still to trace or has just untraced and those that a failing realloc
\* has made the tracker forget (556), and one more for each that a realloc has left.
THEOREM BooksAgree == Spec => []BooksBalance
  <1>1. HeapInv => BooksBalance
    <2> SUFFICES ASSUME HeapInv PROVE BooksBalance
      OBVIOUS
    <2>1. ThreadInv /\ OwnerInv /\ RecordInv /\ BooksInv /\ InitInv
      BY DEF HeapInv
    <2>2. TypeOK
      <3>1. \A t \in Threads : call[t].old \in Blocks /\ call[t].new \in Blocks
        BY <2>1, CallHas DEF ThreadInv
      <3>2. alloc_count \in Int
        BY <2>1, ListIs DEF BooksInv
      <3>3. Records \subseteq Nat \X (1..ALLOCATION_BATCH_SIZE)
        BY <2>1 DEF RecordInv, Issued, Ids
      <3>4. held \subseteq live \cup {Static}
        BY <2>1 DEF OwnerInv
      <3> QED BY <2>1, <3>1, <3>2, <3>3, <3>4 DEF TypeOK, InitInv, ThreadInv, OwnerInv, BooksInv, Blocks
    <2>3. Balance
      <3> SUFFICES ASSUME ~is_exit_done, ~aborted
                   PROVE  /\ alloc_count = Len(allocs)
                          /\ \A a \in Addrs :
                                Cardinality({i \in 1..Len(allocs) : allocs[i].mem = a})
                                  + Cardinality(Tracing(a)) + Cardinality(Untraced(a)) + lost[a]
                                = (IF a \in Traceable THEN 1 ELSE 0) + Cardinality(Stale(a))
        BY DEF Balance
      <3>1. AllTrace
        BY DEF AllTrace
      <3>2. \A a : Cardinality({i \in 1..Len(allocs) : allocs[i].mem = a}) = Cardinality(Of(a))
        BY <2>1, ListIs
      <3> QED BY <2>1, <3>1, <3>2 DEF BooksInv
    <2> QED BY <2>1, <2>2, <2>3 DEF BooksBalance, RecordInv
  <1> QED BY <1>1, HeapInvariant, PTL

\* When main reports and no other thread runs, there is no call in progress.
LEMMA AllQuiet ==
    ASSUME HeapInv, report # None, started = {Main}
    PROVE  /\ AllTrace
           /\ \A t \in Threads : Own(call[t]) = None
           /\ \A a \in Addrs : /\ Stale(a) = {} /\ lost[a] \in Nat
                               /\ Cardinality(Of(a)) + lost[a] = In(a, Traceable)
  <1>1. ThreadInv /\ BooksInv /\ RecordInv /\ AllTrace
    BY DEF HeapInv, AllTrace, ThreadInv
  <1>2. ASSUME NEW t \in Threads PROVE Has(call[t], None, {}, {}, {})
    <2>1. t \in Others => call[t] = Idle
      BY <1>1, ThreadAssumption DEF ThreadInv
    <2>2. t = Main => call[t].op = "exit"
      BY <1>1 DEF ThreadInv
    <2>3. CallOK(call[t], tails)
      BY <1>1 DEF ThreadInv
    <2>4. call[t] = Idle \/ call[t] = [Idle EXCEPT !.op = "exit"]
      BY <2>1, <2>2, <2>3
         DEF Threads, CallOK, BeforeLock, InInit, Resting, Asking, Finished, Got, Resizing, HasMoved, Emptied,
             Refused, Freeing, FreeingTail, FreeingHead, AllocOps, Ops, Idle
    <2>5. NoBlock(call[t])
      BY <2>4 DEF NoBlock, Idle
    <2> QED BY <2>4, <2>5, HasNothing
  <1>3. ASSUME NEW a \in Addrs PROVE /\ Stale(a) = {} /\ lost[a] \in Nat
                                      /\ Cardinality(Of(a)) + lost[a] = In(a, Traceable)
    <2>1. Tracing(a) = {} /\ Untraced(a) = {} /\ Stale(a) = {}
      BY <1>2, SetsAre DEF TracingIn, UntracedIn, StaleIn, Has
    <2>2. /\ Cardinality(Of(a)) + Cardinality(Tracing(a)) + Cardinality(Untraced(a)) + lost[a]
             = In(a, Traceable) + Cardinality(Stale(a))
          /\ lost[a] \in Nat
      BY <1>1 DEF BooksInv, In
    <2>3. Cardinality(Tracing(a)) = 0 /\ Cardinality(Untraced(a)) = 0 /\ Cardinality(Stale(a)) = 0
      BY <2>1, FS_EmptySet
    <2>4. Cardinality(Of(a)) \in Int /\ In(a, Traceable) \in Int
      <3>1. Of(a) = OfIn(allocs, a) /\ In(a, Traceable) \in Int
        BY DEF Of, OfIn, In
      <3> QED BY <1>1, <3>1, OfFinite DEF RecordInv
    <2> QED BY <2>1, <2>2, <2>3, <2>4
  <1> QED BY <1>1, <1>2, <1>3 DEF Has

\* Then every traceable block the tracker knows has one record and no other block has any.
LEMMA OneRecord ==
    ASSUME HeapInv, report # None, started = {Main}
    PROVE  /\ \A r, q \in Elems(allocs) : r.mem = q.mem => r = q
           /\ \A r \in Elems(allocs) : r.mem \in Known(Traceable)
           /\ \A a \in Known(Traceable) : \E r \in Elems(allocs) : r.mem = a
  <1>1. allocs \in Seq(Entry) /\ live \subseteq Addrs
    BY DEF HeapInv, RecordInv, OwnerInv
  <1>2. ASSUME NEW a \in Addrs
        PROVE  /\ a \in Known(Traceable) => \E r : Of(a) = {r}
               /\ a \notin Known(Traceable) => Of(a) = {}
    <2>1. IsFiniteSet(Of(a)) /\ Cardinality(Of(a)) \in Nat
      <3>1. IsFiniteSet(Of(a))
        BY <1>1, OfFinite DEF Of, OfIn
      <3> QED BY <3>1, FS_CardinalityType
    <2>2. /\ Cardinality(Of(a)) + lost[a] = IF a \in Traceable THEN 1 ELSE 0
          /\ lost[a] \in Nat /\ (a \in Known(Traceable) <=> a \in Traceable /\ lost[a] = 0)
      BY AllQuiet DEF In, Known
    <2>3. /\ a \in Known(Traceable) => Cardinality(Of(a)) = 1
          /\ a \notin Known(Traceable) => Cardinality(Of(a)) = 0
      BY <2>1, <2>2
    <2> QED BY <2>1, <2>3, FS_Singleton, FS_EmptySet
  <1>3. \A r \in Elems(allocs) : r.mem \in Addrs /\ r \in Of(r.mem)
    BY <1>1, EntryIs DEF Of
  <1>4. \A r \in Elems(allocs) : r.mem \in Known(Traceable)
    BY <1>2, <1>3
  <1>5. ASSUME NEW r \in Elems(allocs), NEW q \in Elems(allocs), r.mem = q.mem PROVE r = q
    <2>1. r \in Of(r.mem) /\ q \in Of(r.mem) /\ r.mem \in Known(Traceable) /\ r.mem \in Addrs
      BY <1>3, <1>4, <1>5
    <2>2. PICK x : Of(r.mem) = {x}
      BY <1>2, <2>1
    <2> QED BY <2>1, <2>2
  <1>6. ASSUME NEW a \in Known(Traceable) PROVE \E r \in Elems(allocs) : r.mem = a
    <2>1. a \in Addrs
      BY <1>1 DEF Traceable, Known
    <2>2. PICK x : Of(a) = {x}
      BY <1>2, <2>1
    <2> QED BY <2>2 DEF Of
  <1> QED BY <1>4, <1>5, <1>6

\* Records R and blocks B that correspond one to one are equally many.
LEMMA MemsAre ==
    ASSUME NEW R, IsFiniteSet(R), NEW B, \A r, q \in R : r.mem = q.mem => r = q,
           \A r \in R : r.mem \in B, \A a \in B : \E r \in R : r.mem = a
    PROVE  Cardinality(B) = Cardinality(R)
  <1> DEFINE f == [r \in R |-> r.mem]
  <1>1. f \in [R -> B] /\ IsInjective(f) /\ \A a \in B : \E r \in R : f[r] = a
    BY DEF IsInjective
  <1>2. f \in Bijection(R, B)
    BY <1>1 DEF Bijection, Injection, Surjection
  <1>3. ExistsBijection(R, B)
    BY <1>2 DEF ExistsBijection
  <1> QED BY <1>3, FS_Bijection

\* The report of a program whose threads have ended counts exactly the blocks in use, but
\* for those a failing realloc has made the tracker forget (556), and as long as no address
\* was reused under a realloc the blocks counted as leaks are those the program has not
\* freed, without those of pthread_create (heaph_atexit, 359-427).
THEOREM ReportIsExact == Spec => []ReportExact
  <1>1. HeapInv => ReportExact
    <2> SUFFICES ASSUME HeapInv, report # None, started = {Main}
                 PROVE  /\ report.count + report.suppressed = Cardinality(Known(Traceable))
                        /\ ~reused => report.count = Cardinality(Known(held \ {Static}))
      BY DEF ReportExact
    <2> DEFINE n == Len(allocs)  m == Cardinality(Internals)  E == {r \in Elems(allocs) : ~r.internal}
    <2>1. /\ RecordInv /\ OwnerInv /\ InternalInv /\ alloc_count = n /\ allocs \in Seq(Entry)
          /\ report = [count |-> alloc_count - m, suppressed |-> m]
      BY DEF HeapInv, BooksInv, ReportInv, RecordInv
    <2>2. /\ n \in Nat /\ m \in Nat /\ Cardinality(Elems(allocs)) = n
          /\ IsFiniteSet(E) /\ Cardinality(E) = n - m
      BY <2>1, ListIs
    <2>3. /\ \A r, q \in Elems(allocs) : r.mem = q.mem => r = q
          /\ \A r \in Elems(allocs) : r.mem \in Known(Traceable)
          /\ \A a \in Known(Traceable) : \E r \in Elems(allocs) : r.mem = a
      BY OneRecord
    <2>4. IsFiniteSet(Elems(allocs))
      BY <2>1, ElemsFinite
    <2>5. Cardinality(Known(Traceable)) = n
      BY <2>2, <2>3, <2>4, MemsAre
    <2>6. ASSUME ~reused PROVE Cardinality(Known(held \ {Static})) = Cardinality(E)
      <3>1. /\ \A r \in Elems(allocs) : Keeper(r) /\ r.mem \in Addrs
            /\ \A t \in Threads : Own(call[t]) = None
            /\ \A a \in Addrs : Stale(a) = {}
        BY <2>1, <2>6, AllQuiet, EntryIs DEF InternalInv
      <3>2. \A r \in E : r.mem \in Known(held \ {Static})
        BY <2>3, <3>1, NoneIs DEF Keeper, Known
      <3>3. \A a \in Known(held \ {Static}) : \E r \in E : r.mem = a
        <4>1. SUFFICES ASSUME NEW a \in held, a # Static, lost[a] = 0
                       PROVE  \E r \in Elems(allocs) : ~r.internal /\ r.mem = a
          BY DEF Known
        <4>2. a \in Known(Traceable)
          BY <2>1, <4>1 DEF OwnerInv, Traceable, TailBlocks, Known
        <4>3. PICK r \in Elems(allocs) : r.mem = a
          BY <2>3, <4>2
        <4>4. ~r.internal
          BY <3>1, <4>1, <4>3 DEF Keeper
        <4> QED BY <4>3, <4>4
      <3>4. \A r, q \in E : r.mem = q.mem => r = q
        BY <2>3
      <3> HIDE DEF E
      <3> QED BY <2>2, <3>2, <3>3, <3>4, MemsAre
    <2>7. report.count = n - m /\ report.suppressed = m
      BY <2>1
    <2> HIDE DEF n, m, E
    <2> QED BY <2>2, <2>5, <2>6, <2>7
  <1> QED BY <1>1, HeapInvariant, PTL
=============================================================================
