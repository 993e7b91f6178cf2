--------------------------- MODULE HeapHelpProps ---------------------------
(***************************************************************************)
(* What the leak tracker guarantees to a correct program, and what becomes *)
(* of it when a realloc fails.                                             *)
(***************************************************************************)
EXTENDS HeapHelp

Records == {alloc_pool[i] : i \in 1..Len(alloc_pool)} \cup {allocs[i].id : i \in 1..Len(allocs)}
           \cup ({record[t] : t \in Threads} \ {None})

\* Every variable has its type; no record lies outside its batch (line 183).
TypeOK ==
    /\ is_init_done \in BOOLEAN /\ init_lock \in BOOLEAN /\ is_exit_done \in BOOLEAN
    /\ aborted \in BOOLEAN /\ reused \in BOOLEAN
    /\ init_lock_count \in [Threads -> 0..1]
    /\ alloc_count \in Int /\ lost \in [Addrs -> Nat]
    /\ Records \subseteq Nat \X (1..ALLOCATION_BATCH_SIZE)
    /\ started \subseteq Threads /\ live \subseteq Addrs /\ held \subseteq live \cup {Static}
    /\ \A t \in Threads : /\ call[t].old \in Addrs \cup {None}
                          /\ call[t].new \in Addrs \cup {None}

\* Some thread was running when main exited.
LateThread == is_exit_done /\ started # {Main}

\* No assertion of the tracker fails in a correct program, with two exceptions:
\* some call hands back a block whose record a failing realloc has removed (556),
\* or a thread that outlives main's exit calls strdup (511).  No other block is
\* "bad memory" to alloc_free (234) although blocks move between threads, inner
\* calls are not traced and addresses are reused; the initialisation, reached from
\* many places, happens once and finds the static allocator (251, 482).
NeverAborts ==
    aborted => \/ LateThread
               \/ \E t \in Threads : call[t].old \in Addrs /\ lost[call[t].old] > 0

\* What the assertion "freeing bad memory" (234) says: only bad memory trips it,
\* so a program that frees what it got never does while its threads are joined.
\* The code breaks it: after a failing realloc the block has no record.
BadMemoryOnly == aborted => LateThread

\* Thread t still has to do the step `what' on block a at the outermost depth.
Due(t, what, a) == Step(what, a, 1) \in ToSet(call[t].todo)

\* Threads that have got a from libc and have not traced it yet.
Tracing(a) == {t \in Threads : Due(t, "trace", a)}

\* Threads that are freeing a and have untraced it.
Untraced(a) == {t \in Threads : /\ call[t].op \in {"free", "freeaddrinfo"} /\ call[t].old = a
                                /\ ~Due(t, "untrace", a)
                                /\ \E d \in {1, 2} : Step("dealloc", a, d) \in ToSet(call[t].todo)}

\* Threads whose realloc has moved away from a and that have not untraced it.
Stale(a) == {t \in Threads : /\ call[t].op \in {"realloc", "getline"} /\ call[t].new # a
                             /\ Due(t, "untrace", a)}

Traceable == live \ {tails[x] : x \in DOMAIN tails}

\* Until exit the list has one entry for every block in use, but for those a
\* thread is just about to trace or has just untraced and those a failing realloc
\* has made the tracker forget, and one more for every block that a realloc has
\* left behind; alloc_count is its length.  So the count of heaph_get_alloc_count
\* is the number of blocks, without the forgotten ones, when no call runs.
Balance ==
    ~is_exit_done /\ ~aborted =>
        /\ alloc_count = Len(allocs)
        /\ \A a \in Addrs :
              Cardinality({i \in 1..Len(allocs) : allocs[i].mem = a})
                + Cardinality(Tracing(a)) + Cardinality(Untraced(a)) + lost[a]
              = (IF a \in Traceable THEN 1 ELSE 0) + Cardinality(Stale(a))

\* A record is in one place: in the pool, in the list, or with the one thread
\* that fills it outside the lock (187-193).
RecordsOnce ==
    /\ IsInjective(alloc_pool)
    /\ \A i, j \in 1..Len(allocs) : allocs[i].id = allocs[j].id => i = j
    /\ \A i \in 1..Len(allocs) : ~Contains(alloc_pool, allocs[i].id)
    /\ \A t \in Threads : record[t] # None =>
          /\ ~Contains(alloc_pool, record[t])
          /\ \A i \in 1..Len(allocs) : allocs[i].id # record[t]
          /\ \A u \in Threads : record[u] = record[t] => u = t

\* The list, the count and the records agree with the heap, whichever steps of
\* concurrent calls lie between libc's work and the tracker's (187-201, 203-235,
\* 545-563).
BooksBalance == TypeOK /\ Balance /\ RecordsOnce

\* The blocks that a failing realloc has not made the tracker forget.
Known(S) == {a \in S : lost[a] = 0}

\* The report of a program whose threads have ended counts the blocks the program
\* did not free, those without a record since a failing realloc (556) left out.
\* An address that was reused under a realloc may have cost the wrong record of
\* two: then a leak may pass for an internal one or the other way round, and only
\* the sum of both is right.
ReportExact ==
    report # None /\ started = {Main} =>
        /\ report.count + report.suppressed = Cardinality(Known(Traceable))
        /\ ~reused => report.count = Cardinality(Known(held \ {Static}))

\* No call gets stuck on init_lock, the one thing a call waits for outside the
\* short sections: whoever asks for it finds it free, and the first call, in which
\* the tracker itself calls malloc while it holds the lock, does not ask (475, 284).
NeverStuck == \A t \in Threads : Doing(t, "touch") /\ ~Reentrant(t) => ~init_lock
=============================================================================
