----------------------------- MODULE HeapHelp -----------------------------
(***************************************************************************)
(* The leak tracker of utils/heap_help: wrappers around malloc, free and   *)
(* their relatives that keep a list of the blocks in use and report what   *)
(* is left of it at exit.  Threads call them concurrently.                 *)
(*                                                                         *)
(* A call is a sequence of steps (todo): what libc does to the heap, and   *)
(* the calls of alloc_trace_new ("trace") and alloc_free ("untrace") with  *)
(* the depth at which they are made, 2 in a wrapper that libc calls inside *)
(* another one.  The sections under allocs_lock are one step each, the     *)
(* test of is_exit_done in front of them included.                         *)
(*                                                                         *)
(* The program is correct: it frees what it got, once, with the function   *)
(* that belongs to it.  The heap is the addresses in Addrs; any malloc and *)
(* any realloc may fail.  After a failing realloc the program still has    *)
(* the block, whose record the tracker has removed (556); lost counts such *)
(* records, for the properties only.                                       *)
(***************************************************************************)
EXTENDS Integers, Sequences, FiniteSets, SequencesExt

CONSTANTS
    Addrs,                   \* addresses of heap blocks
    Static,                  \* a block of the static allocator
    None,                    \* NULL
    Main, Others,            \* the threads
    ALLOCATION_BATCH_SIZE

ASSUME ThreadAssumption == Main \notin Others /\ IsFiniteSet(Others)
ASSUME AddrAssumption   == /\ IsFiniteSet(Addrs) /\ Static \notin Addrs
                           /\ None \notin Addrs \cup {Static} /\ None \notin Nat \X Nat
ASSUME BatchAssumption  == ALLOCATION_BATCH_SIZE \in Nat \ {0}

Threads == {Main} \cup Others

VARIABLES
    is_init_done, init_lock, init_lock_count,
    allocs,        \* the list, newest first: [id, mem, internal]; internal: the
                   \* backtrace goes through pthread_create
    alloc_count,
    alloc_pool,    \* ids of unused records, a stack
    alloc_batch,   \* [nth, used]: which batch, and how many records of it are used
    is_exit_done,
    report,        \* None, or what heaph_atexit printed
    aborted,       \* heaph_assert failed
    call,          \* call[t] = [op, old, new, todo]: the call thread t is in
    record,        \* record[t]: the record thread t is filling, or None
    started,       \* the threads that run
    live,          \* blocks that libc has handed out
    held,          \* blocks the program has, and nobody is freeing
    tails,         \* tails[a]: the rest of the address list that starts at a
    lost,          \* lost[a]: records of a that failing reallocs have removed
    reused         \* a block moved by realloc was handed out again before its
                   \* trace was removed
tracker == <<allocs, alloc_count, alloc_pool, alloc_batch, lost>>
initVars == <<is_init_done, init_lock, init_lock_count>>
heapVars == <<live, held, tails>>
exitVars == <<is_exit_done, report>>
vars == <<tracker, initVars, heapVars, exitVars, aborted, call, record, started, reused>>

Idle == [op |-> "idle", old |-> None, new |-> None, todo |-> <<>>]

Init ==
    /\ is_init_done = FALSE /\ init_lock = FALSE /\ init_lock_count = [t \in Threads |-> 0]
    /\ allocs = <<>> /\ alloc_count = 0 /\ alloc_pool = <<>>
    /\ alloc_batch = [nth |-> 0, used |-> ALLOCATION_BATCH_SIZE]
    /\ is_exit_done = FALSE /\ report = None /\ aborted = FALSE
    /\ call = [t \in Threads |-> Idle] /\ record = [t \in Threads |-> None]
    /\ started = {Main}
    /\ live = {} /\ held = {} /\ tails = <<>> /\ reused = FALSE
    /\ lost = [a \in Addrs |-> 0]

Running(t) == t \in started /\ ~aborted /\ report = None
Step(what, a, d) == [do |-> what, mem |-> a, depth |-> d]
Doing(t, what) == Running(t) /\ call[t].todo # <<>> /\ Head(call[t].todo).do = what
Advance(t) == call' = [call EXCEPT ![t].todo = Tail(@)]

-----------------------------------------------------------------------------
(* Calls.                                                                  *)

\* Every wrapper starts with heaph_touch, which reads is_init_done once (473).
Begin(t, op, a, todo) ==
    /\ Running(t) /\ call[t].op = "idle"
    /\ call' = [call EXCEPT ![t] = [op |-> op, old |-> a, new |-> None,
                                    todo |-> (IF is_init_done THEN <<>> ELSE <<Step("touch", None, 0)>>)
                                             \o todo]]
    /\ UNCHANGED <<tracker, initVars, exitVars, live, tails, aborted, record, started, reused>>

\* Wrappers whose libc function calls the wrapper of malloc again.
Nesting == {"strdup", "getline", "getaddrinfo"}

Allocate(t, op) == Begin(t, op, None, <<Step("alloc", None, 1)>>)

malloc(t) == Allocate(t, "malloc") /\ UNCHANGED held
\* calloc differs in the size only, which is printed and not used.
calloc(t) == Allocate(t, "malloc") /\ UNCHANGED held
strdup(t) == Allocate(t, "strdup") /\ UNCHANGED held
getaddrinfo(t) == Allocate(t, "getaddrinfo") /\ UNCHANGED held

\* pthread_create allocates for the new thread, in the thread that calls it.
pthread_create == /\ started # Threads
                  /\ Allocate(Main, "pthread_create") /\ UNCHANGED held

\* The blocks the program got from malloc and its like.
Plain == held \ (DOMAIN tails \cup {Static})

\* libc's realloc of the block a, or what stands for it in getline.
Resize(t, op) == \E a \in Plain : /\ Begin(t, op, a, <<Step("resize", a, 1)>>)
                                  /\ held' = held \ {a}

\* getline with *linep = NULL, or with a buffer.
getline(t) == \/ Allocate(t, "getline") /\ UNCHANGED held
              \/ Resize(t, "getline")

\* realloc of NULL is malloc; of a static block, too (550), whose content is lost.
realloc(t) == \/ Resize(t, "realloc")
              \/ Static \in held /\ Allocate(t, "realloc") /\ held' = held \ {Static}

free(t) ==
    \E a \in Plain : /\ Begin(t, "free", a, <<Step("untrace", a, 1), Step("dealloc", a, 1)>>)
                     /\ held' = held \ {a}

\* free of NULL or of a static block returns at once (568-571).
FreeStatic(t) ==
    /\ Running(t) /\ call[t].op = "idle" /\ Static \in held
    /\ held' = held \ {Static}
    /\ UNCHANGED <<tracker, initVars, exitVars, live, tails, aborted, call, record, started, reused>>

\* libc frees the elements of the list with the wrapper of free.
freeaddrinfo(t) ==
    \E a \in held \cap DOMAIN tails :
        /\ Begin(t, "freeaddrinfo", a,
                 << Step("untrace", a, 1), Step("untrace", tails[a], 2), Step("dealloc", tails[a], 2),
                    Step("untrace", a, 2), Step("dealloc", a, 2) >>)
        /\ held' = held \ {a}

-----------------------------------------------------------------------------
(* Initialisation.                                                         *)

\* Line 475.
Reentrant(t) == init_lock_count[t] > 0

\* Mutant: the thread does not count its holds of the lock.
heaph_lock_uncounted(t) == /\ init_lock_count[t] > 0 \/ ~init_lock
                           /\ init_lock' = TRUE
                           /\ UNCHANGED init_lock_count

\* A thread that has the lock already does not wait for it.
heaph_lock(t) == /\ init_lock_count[t] > 0 \/ ~init_lock
                 /\ init_lock' = TRUE
                 /\ init_lock_count' = [init_lock_count EXCEPT ![t] = @ + 1]
heaph_unlock(t) == /\ init_lock' = (init_lock /\ init_lock_count[t] # 1)
                   /\ init_lock_count' = [init_lock_count EXCEPT ![t] = @ - 1]

\* heaph_lock and the first lines of heaph_init, whoever else has been here in
\* the meantime: from here to InitEnd the static allocator is in use.
InitBegin(t) ==
    /\ Doing(t, "touch") /\ ~Reentrant(t) /\ heaph_lock(t)
    /\ call' = [call EXCEPT ![t].todo = <<Step("init", None, 0)>> \o Tail(@)]
    /\ UNCHANGED <<tracker, is_init_done, heapVars, exitVars, aborted, record, started, reused>>

\* dlsym allocates: a wrapper is called inside heaph_init.
InitCalls(t) ==
    /\ Doing(t, "init") /\ Static \notin held
    /\ call' = [call EXCEPT ![t].todo = <<Step("touch", None, 0), Step("static", None, 1)>> \o @]
    /\ UNCHANGED <<tracker, initVars, heapVars, exitVars, aborted, record, started, reused>>

\* Its heaph_touch returns at line 476 ...
NestedTouch(t) ==
    /\ Doing(t, "touch") /\ Reentrant(t)
    /\ Advance(t)
    /\ UNCHANGED <<tracker, initVars, heapVars, exitVars, aborted, record, started, reused>>

\* ... and the block is a static one, which is not traced (156).
static_malloc(t) ==
    /\ Doing(t, "static")
    /\ aborted' = (is_init_done \/ ~init_lock)
    /\ held' = held \cup {Static}
    /\ Advance(t)
    /\ UNCHANGED <<tracker, initVars, live, tails, exitVars, record, started, reused>>

\* The rest of heaph_init, the exchange and heaph_unlock (449-482).
InitEnd(t) ==
    /\ Doing(t, "init")
    /\ is_init_done' = TRUE /\ heaph_unlock(t)
    /\ aborted' = (is_init_done \/ init_lock_count[t] < 1)
    /\ Advance(t)
    /\ UNCHANGED <<tracker, heapVars, exitVars, record, started, reused>>

-----------------------------------------------------------------------------
(* libc.                                                                   *)

Free == Addrs \ live
Then(t, new, todo) == call' = [call EXCEPT ![t].new = new, ![t].todo = todo]

\* The address a was freed by a realloc whose thread still has to untrace it.
Moved(a) == \E t \in Threads : call[t].old = a /\ a # call[t].new
                                /\ Step("untrace", a, 1) \in ToSet(call[t].todo)
                                /\ call[t].op \in {"realloc", "getline"}

\* malloc and the functions that call it.  strdup asserts first that the
\* program is not exiting (511).
LibcAlloc(t) ==
    /\ Doing(t, "alloc")
    /\ aborted' = (call[t].op = "strdup" /\ is_exit_done)
    /\ \E a \in Free :
          /\ live' = live \cup {a}
          /\ reused' = (reused \/ Moved(a))
          /\ Then(t, a, IF call[t].op \in Nesting THEN <<Step("trace", a, 2), Step("trace", a, 1)>>
                        ELSE <<Step("trace", a, 1)>>)
    /\ call[t].op # "getaddrinfo"
    /\ UNCHANGED <<tracker, initVars, held, tails, exitVars, record, started>>

\* A list of two addresses, of which the caller frees the first.
LibcGetaddrinfo(t) ==
    /\ Doing(t, "alloc") /\ call[t].op = "getaddrinfo"
    /\ \E a, b \in Free :
          /\ a # b
          /\ live' = live \cup {a, b}
          /\ reused' = (reused \/ Moved(a) \/ Moved(b))
          /\ tails' = [x \in DOMAIN tails \cup {a} |-> IF x = a THEN b ELSE tails[x]]
          /\ Then(t, a, <<Step("trace", a, 2), Step("trace", b, 2), Step("trace", a, 1)>>)
    /\ UNCHANGED <<tracker, initVars, held, exitVars, aborted, record, started>>

\* No memory, or no such name: the wrapper has nothing to trace.
LibcFails(t) ==
    /\ Doing(t, "alloc")
    /\ aborted' = (call[t].op = "strdup" /\ is_exit_done)
    /\ Then(t, None, <<>>)
    /\ UNCHANGED <<tracker, initVars, heapVars, exitVars, record, started, reused>>

\* Mutant: the old block is not untraced.
Retrace_only(t, a) == <<Step("trace", a, 1)>>

\* What realloc (557-560) and getline (497-499) do when the block has moved.
Retrace(t, a) == <<Step("untrace", call[t].old, 1), Step("trace", a, 1)>>

\* realloc, and getline with a buffer of the caller's: the block stays or moves;
\* or realloc returns NULL, because the size is 0 and the block is freed, or
\* because there is no memory and the program still has the block.  The wrapper
\* takes both for the first (555-556).  A realloc that fails in getline is nested
\* and not untraced: the block stays.
LibcRealloc(t) ==
    /\ Doing(t, "resize")
    /\ LET old == call[t].old
       IN  \/ /\ Then(t, old, <<>>)
              /\ UNCHANGED <<live, reused>>
           \/ \E a \in Free :
                 /\ live' = (live \ {old}) \cup {a}
                 /\ reused' = (reused \/ Moved(a))
                 /\ Then(t, a, IF call[t].op = "realloc" THEN Retrace(t, a)
                               ELSE <<Step("untrace", old, 2), Step("trace", a, 2)>> \o Retrace(t, a))
           \/ /\ call[t].op = "realloc"
              /\ live' = live \ {old}
              /\ Then(t, None, <<Step("untrace", old, 1)>>)
              /\ UNCHANGED reused
           \/ /\ call[t].op = "realloc"
              /\ Then(t, old, <<Step("untrace", old, 1)>>)
              /\ UNCHANGED <<live, reused>>
    /\ UNCHANGED <<tracker, initVars, held, tails, exitVars, aborted, record, started>>

LibcFree(t) ==
    /\ Doing(t, "dealloc")
    /\ LET a == Head(call[t].todo).mem
       IN  /\ live' = live \ {a}
           /\ tails' = [x \in {h \in DOMAIN tails : tails[h] # a} |-> tails[x]]
    /\ Advance(t)
    /\ UNCHANGED <<tracker, initVars, held, exitVars, aborted, record, started, reused>>

\* The call returns its block, or the new thread is running.
Return(t) ==
    /\ Running(t) /\ call[t].op \notin {"idle", "exit"} /\ call[t].todo = <<>>
    /\ call' = [call EXCEPT ![t] = Idle]
    /\ IF call[t].new = None THEN UNCHANGED <<held, started>>
       ELSE IF call[t].op = "pthread_create"
       THEN (\E u \in Others \ started : started' = started \cup {u}) /\ UNCHANGED held
       ELSE held' = held \cup {call[t].new} /\ UNCHANGED started
    /\ UNCHANGED <<tracker, initVars, live, tails, exitVars, aborted, record, reused>>

\* A thread ends, of which main knows (it joins it) before it exits; what
\* pthread_create allocated for it stays.
ThreadEnds(t) ==
    /\ t \in Others /\ Running(t) /\ call[t].op = "idle" /\ ~is_exit_done
    /\ started' = started \ {t}
    /\ UNCHANGED <<tracker, initVars, heapVars, exitVars, aborted, call, record, reused>>

-----------------------------------------------------------------------------
(* The list of allocations.                                                *)

\* Mutant: calls inside calls are traced, too.
Skipped_never(d) == is_exit_done

\* The returns in front of the lock (156-167 and 206-212).
Skipped(d) == d > 1 \/ is_exit_done

Skip(t) ==
    /\ Doing(t, "trace") \/ Doing(t, "untrace")
    /\ record[t] = None /\ Skipped(Head(call[t].todo).depth)
    /\ Advance(t)
    /\ UNCHANGED <<tracker, initVars, heapVars, exitVars, aborted, record, started, reused>>

PoolRest == Tail(alloc_pool)

BatchFull == alloc_batch.used = ALLOCATION_BATCH_SIZE

\* The first half of alloc_trace_new: a record from the pool, or from the
\* batch, or from a new batch.
TakeRecord(t) ==
    /\ Doing(t, "trace") /\ record[t] = None /\ ~Skipped(Head(call[t].todo).depth)
    /\ IF alloc_pool # <<>>
       THEN /\ record' = [record EXCEPT ![t] = Head(alloc_pool)]
            /\ alloc_pool' = PoolRest /\ UNCHANGED alloc_batch
       ELSE /\ alloc_batch' = IF BatchFull THEN [nth |-> alloc_batch.nth + 1, used |-> 1]
                              ELSE [alloc_batch EXCEPT !.used = @ + 1]
            /\ record' = [record EXCEPT ![t] = <<alloc_batch'.nth, alloc_batch'.used>>]
            /\ UNCHANGED alloc_pool
    /\ UNCHANGED <<allocs, alloc_count, lost, initVars, heapVars, exitVars, aborted, call, started, reused>>

\* The second half: the filled record goes in front of the list.
Insert(t) ==
    /\ Doing(t, "trace") /\ record[t] # None
    /\ allocs' = <<[id |-> record[t], mem |-> Head(call[t].todo).mem,
                    internal |-> call[t].op = "pthread_create"]>> \o allocs
    /\ alloc_count' = alloc_count + 1
    /\ record' = [record EXCEPT ![t] = None]
    /\ Advance(t)
    /\ UNCHANGED <<alloc_pool, alloc_batch, lost, initVars, heapVars, exitVars, aborted, started, reused>>

\* Thread t is in a realloc that has failed: its block is still in use.
Failing(t) == call[t].op = "realloc" /\ call[t].old \in Addrs /\ call[t].new = call[t].old

\* The newest record of the block goes to the pool; without one, "freeing bad
\* memory".
alloc_free(t) ==
    LET hits == {i \in 1..Len(allocs) : allocs[i].mem = Head(call[t].todo).mem}
        i    == CHOOSE i \in hits : \A j \in hits : i <= j
    IN  /\ Doing(t, "untrace") /\ ~Skipped(Head(call[t].todo).depth)
        /\ aborted' = (hits = {} \/ alloc_count < 1)
        /\ IF hits = {} THEN UNCHANGED tracker
           ELSE /\ allocs' = RemoveAt(allocs, i)
                /\ alloc_pool' = <<allocs[i].id>> \o alloc_pool
                /\ alloc_count' = alloc_count - 1
                /\ lost' = IF Failing(t) THEN [lost EXCEPT ![call[t].old] = @ + 1] ELSE lost
                /\ UNCHANGED alloc_batch
        /\ Advance(t)
        /\ UNCHANGED <<initVars, heapVars, exitVars, record, started, reused>>

-----------------------------------------------------------------------------
(* Exit.                                                                   *)

\* exit runs heaph_atexit while other threads may go on.
Exit == /\ Running(Main) /\ call[Main].op = "idle" /\ is_init_done
        /\ is_exit_done' = TRUE
        /\ call' = [call EXCEPT ![Main] = [Idle EXCEPT !.op = "exit"]]
        /\ UNCHANGED <<tracker, initVars, heapVars, report, aborted, record, started, reused>>

\* Mutant: no record is internal.
trace_is_internal_never(i) == FALSE

trace_is_internal(i) == allocs[i].internal

\* What is counted at exit; HHREPORT and the limit of ten reports only decide
\* how much of it is printed.
heaph_atexit ==
    LET internal == Cardinality({i \in 1..Len(allocs) : trace_is_internal(i)})
    IN  /\ Running(Main) /\ call[Main].op = "exit"
        /\ report' = [count |-> alloc_count - internal, suppressed |-> internal]
        /\ UNCHANGED <<tracker, initVars, heapVars, is_exit_done, aborted, call, record, started, reused>>

-----------------------------------------------------------------------------

\* What a thread does once it is in a call.
Continue(t) == \/ InitBegin(t) \/ NestedTouch(t) \/ static_malloc(t) \/ InitEnd(t)
               \/ LibcAlloc(t) \/ LibcGetaddrinfo(t) \/ LibcFails(t) \/ LibcRealloc(t) \/ LibcFree(t)
               \/ Skip(t) \/ TakeRecord(t) \/ Insert(t) \/ alloc_free(t) \/ Return(t)

Next == \/ \E t \in Threads : \/ malloc(t) \/ calloc(t) \/ strdup(t) \/ getaddrinfo(t)
                              \/ getline(t) \/ realloc(t) \/ free(t) \/ FreeStatic(t)
                              \/ freeaddrinfo(t) \/ InitCalls(t) \/ ThreadEnds(t) \/ Continue(t)
        \/ pthread_create \/ Exit \/ heaph_atexit

Spec == Init /\ [][Next]_vars
=============================================================================
