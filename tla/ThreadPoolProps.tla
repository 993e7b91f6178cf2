--------------------------- MODULE ThreadPoolProps ---------------------------
(***************************************************************************)
(* What the thread pool guarantees: the properties the runs check, the     *)
(* refinement of TaskPool, and the inductive invariant of the proofs.      *)
(***************************************************************************)
EXTENDS ThreadPool

\* Every variable has its type; the threads array is never overrun (line 182).
TypeOK ==
    /\ pool \in {"none", "live"} /\ shutdown \in BOOLEAN
    /\ max_threads \in 0..TPOOL_MAX_THREADS
    /\ cnt_threads \in 0..max_threads
    /\ run_threads \in Int /\ run0 \in Int
    /\ queue \in Seq(Tasks) /\ Len(queue) <= TPOOL_MAX_TASKS
    /\ allocated \subseteq Tasks /\ pushed \subseteq Tasks /\ finished \subseteq Tasks
    /\ joined \subseteq Tasks /\ delete \subseteq Tasks
    /\ result \in [Tasks -> 0..MaxPush]
    /\ gen \in [Tasks -> 0..MaxPush]
    /\ runs \in [Tasks -> Nat]
    /\ wpc \in [Workers -> WorkerPCs]
    /\ wtask \in [Workers -> Tasks \cup {None}]
    /\ wres \in [Workers -> 0..MaxPush]
    /\ upc \in [Users -> UserPCs]
    /\ utask \in [Users -> Tasks \cup {None}]
    /\ ret \in [Users -> Codes]
    /\ got \in [Users -> 0..MaxPush]

\* Worker w has popped a task and is not done with its memory.
Holding   == {"load", "run", "dec", "publish", "signal"}
Holds(w, t) == wpc[w] \in Holding /\ wtask[w] = t

\* Workers counted by run_threads: from the increment (86) to the decrement (99).
Counted == {w \in Workers : wpc[w] \in {"load", "run", "dec"}}

\* run_threads always differs from its start value by exactly the number of
\* workers between lines 86 and 99, across every interleaving of workers.
RunCountExact == pool = "live" => run_threads = run0 + Cardinality(Counted)

\* A task is in at most one place: once in the queue, or with one worker.  So
\* queue_pop never hands one push to two workers, however pushes, pops and
\* re-pushes of a joined task interleave.
TaskInOnePlace ==
    /\ Distinct(queue)
    /\ \A w \in Workers, t \in Tasks : Holds(w, t) => ~Queued(t)
    /\ \A w, x \in Workers, t \in Tasks : Holds(w, t) /\ Holds(x, t) => w = x

\* No thread works on freed memory: a queued task, a task a worker still has
\* to lock, write or unlock, and the task of a call in progress are allocated,
\* and a worker that has not exited has its pool.
NoUseAfterFree ==
    /\ \A t \in Tasks : Queued(t) => t \in allocated
    /\ \A w \in Workers, t \in Tasks : Holds(w, t) => t \in allocated
    /\ \A u \in Users, t \in Tasks : InCall(u, t) => t \in allocated
    /\ \A w \in Workers : wpc[w] \notin {"none", "exited"} => pool = "live"

\* Every push is executed exactly once: never more often than pushed, and a
\* task that says it is finished has run its latest push.
ExactlyOnce ==
    \A t \in allocated : /\ runs[t] <= gen[t]
                         /\ t \in finished => runs[t] = gen[t]

\* thread_task_is_finished: "finished and its result can be obtained"
\* (thread_pool.h:101): the stored result is the one of the latest push.
FinishedHasResult ==
    \A t \in allocated : thread_task_is_finished(t) => result[t] = gen[t]

\* A successful thread_pool_delete loses no task: once the pool is gone every
\* task that was pushed into it has run and has been published.
DeleteLosesNoTask ==
    pool = "none" => \A t \in allocated \cap pushed : t \in finished

\* The wake-ups on pool->cond are never lost: when run_threads started at 0, a
\* queued task has a worker that is awake and comes back to the queue.
NoLostWakeup ==
    pool = "live" /\ run0 = 0 /\ queue # <<>> =>
        \E w \in Workers : wpc[w] \notin {"none", "wait", "exited"}

\* A joiner that returns 0 hands out the result of the latest push of the
\* task, although line 229 reads it after the unlock.
FreshResult ==
    \A u \in Users : upc[u] \in {"join_result", "tjoin_lock"} /\ upc'[u] = "idle"
                       /\ ret'[u] = "0"
                    => got'[u] = gen[utask[u]]
JoinReturnsFresh == [][FreshResult]_vars

\* thread_pool_delete refuses only when the pool "still has tasks"
\* (thread_pool.h:69), provided run_threads started at 0: some pushed task is
\* not finished yet.
RefusalsJustified ==
    [][\A u \in Users : run0 = 0 /\ ret[u] # "HAS_TASKS" /\ ret'[u] = "HAS_TASKS"
                       => \E t \in pushed : t \notin finished]_vars

\* The same without the proviso.  The code breaks it: thread_pool_new (113-135)
\* leaves run_threads as malloc has returned it.
RefusesOnlyTasks ==
    [][\A u \in Users : ret[u] # "HAS_TASKS" /\ ret'[u] = "HAS_TASKS"
                       => \E t \in pushed : t \notin finished]_vars

\* A queued task is eventually executed and published.
PushedTaskFinishes == \A t \in Tasks : Queued(t) ~> t \in finished

\* Every call returns: joins ("wait until it is" finished, thread_pool.h:115)
\* and the deletion of a pool, which waits for its workers.
CallsReturn == \A u \in Users : upc[u] # "idle" ~> upc[u] = "idle"

-----------------------------------------------------------------------------
(* The pool implements TaskPool.                                           *)

PhaseOf(t) ==
    CASE t \notin allocated                    -> "free"
      [] t \in allocated /\ t \notin pushed    -> "new"
      [] OTHER -> IF t \in joined THEN "joined"
                  ELSE IF t \in finished THEN "finished"
                  ELSE IF Queued(t) THEN "queued" ELSE "running"

Promise == INSTANCE TaskPool WITH open    <- pool = "live",
                                  pending <- queue,
                                  phase   <- [t \in Tasks |-> PhaseOf(t)]

\* Under every interleaving of workers and callers the pool behaves like
\* TaskPool: FIFO starts, one run per push, no task freed or pool closed early.
ImplementsTaskPool == Promise!TaskPoolSpec

-----------------------------------------------------------------------------
(* The inductive invariant behind the safety properties (ThreadPoolProofs).*)

\* The local variables of threads that are inside the pool's code.
LocalsInv ==
    /\ \A w \in Workers : wpc[w] \in Holding <=> wtask[w] # None
    /\ \A u \in Users : upc[u] \in {"idle", "pool_join"} <=> utask[u] = None

\* A queued task, and a task in the hands of a worker, is pushed, not yet
\* finished (but for the worker about to signal), joined or detached.
QueuedInv == \A t \in Tasks : Queued(t) =>
    t \in (allocated \cap pushed) \ (finished \cup joined \cup delete)
HeldInv == \A w \in Workers : wpc[w] \in Holding =>
    /\ wtask[w] \in (allocated \cap pushed) \ (joined \cup delete)
    /\ wtask[w] \in finished <=> wpc[w] = "signal"

\* The order in which the flags of a task are set, and where a pushed task is
\* until it is finished.
FlagsInv ==
    /\ \A t \in allocated : t \in joined \/ t \in delete => t \in finished
    /\ \A t \in allocated : t \in finished => t \in pushed
PushedInv == \A t \in allocated \cap pushed :
    t \in finished \/ Queued(t) \/ \E w \in Workers : Holds(w, t)

\* The task of a call in progress; a detaching caller is alone with its task.
CallInv == \A u \in Users : utask[u] # None =>
    /\ utask[u] \in allocated \cap pushed
    /\ upc[u] = "join_result" => utask[u] \in joined
    /\ utask[u] \in delete <=> upc[u] = "detach_check"
DetachInv ==
    /\ \A u, v \in Users : upc[u] = "detach_check" /\ utask[v] = utask[u] => v = u
    /\ \A t \in allocated \cap delete : \E u \in Users : utask[u] = t

\* What was executed: one run is missing exactly while a push waits for it,
\* and a worker's result is that of the latest push of its task.
NotRunYet(t) == Queued(t) \/ \E w \in Workers : wpc[w] \in {"load", "run"} /\ wtask[w] = t
RunsInv == \A t \in Tasks : /\ NotRunYet(t) => runs[t] + 1 = gen[t]
                            /\ ~NotRunYet(t) => runs[t] = gen[t]
ResultInv ==
    /\ \A w \in Workers : wpc[w] \in Holding \ {"load"} => wres[w] = gen[wtask[w]]
    /\ FinishedHasResult

\* The pool's threads, and its deletion by one caller.
ThreadsInv ==
    /\ \A w \in Workers : wpc[w] = "none" <=> w > cnt_threads
    /\ \A w \in Workers : wpc[w] = "exited" => shutdown
    /\ pool = "none" => cnt_threads = 0
DeletionInv ==
    /\ shutdown <=> \E u \in Users : upc[u] = "pool_join"
    /\ \A u, v \in Users : upc[u] = "pool_join" /\ upc[v] = "pool_join" => u = v
    /\ shutdown => pool = "live"
    /\ shutdown \/ pool = "none" => queue = <<>>

\* Together they hold in every reachable state, whatever run_threads started
\* as, when callers detach finished tasks only.
IInv == /\ TypeOK /\ LocalsInv /\ TaskInOnePlace /\ QueuedInv /\ HeldInv
        /\ FlagsInv /\ PushedInv /\ CallInv /\ DetachInv /\ RunsInv /\ ResultInv
        /\ ThreadsInv /\ DeletionInv
=============================================================================
