----------------------------- MODULE ThreadPool -----------------------------
(***************************************************************************)
(* The thread pool of 4/thread_pool.c: a FIFO queue of tasks, worker       *)
(* threads created on demand up to max_threads, and the task handles the   *)
(* callers create, push, join, detach and delete.                          *)
(*                                                                         *)
(* Granularity. All fields of struct thread_pool are read and written with *)
(* pool->mutex held and nothing blocks inside such a section (a            *)
(* pthread_cond_wait ends it), so each section is one action.  The mutex   *)
(* of a task is visible: a worker holds it between "finished = true" and   *)
(* the unlock (pc "signal"), and the callers' unlocked reads of finished,  *)
(* pushed, joined and delete fall between any two actions.                 *)
(*                                                                         *)
(* Callers. A caller keeps to the contract of 4/thread_pool.h: it pushes a *)
(* task that is new or joined, does not touch a detached task, does not    *)
(* push, detach or delete a task another caller is inside a call on, and   *)
(* does not use a pool that is being deleted.                              *)
(***************************************************************************)
EXTENDS Integers, Sequences, FiniteSets

CONSTANTS
    Tasks,              \* addresses of struct thread_task
    Users,              \* application threads that call the API
    Handles,            \* Handles[u]: the task handles user u works with
    TPOOL_MAX_THREADS,  \* limit on the size of a pool
    TPOOL_MAX_TASKS,    \* limit on the length of the queue
    MaxPush,            \* bound: pushes of one task address
    GarbageInts,        \* what malloc() may leave in run_threads
    DetachWhen,         \* when callers detach: "never", "finished" or "any" time
    None                \* no task

ASSUME HandlesAssumption == Handles \in [Users -> SUBSET Tasks]
ASSUME LimitsAssumption  == /\ TPOOL_MAX_THREADS \in Nat \ {0}
                            /\ TPOOL_MAX_TASKS \in Nat \ {0}
                            /\ MaxPush \in Nat
ASSUME GarbageAssumption == GarbageInts \subseteq Int
ASSUME DetachAssumption  == DetachWhen \in {"never", "finished", "any"}
ASSUME NoneAssumption    == None \notin Tasks

VARIABLES
    pool,         \* "none" or "live": whether struct thread_pool exists
    max_threads, run_threads, cnt_threads, shutdown,
    queue,        \* the tasks of struct tasks_queue, oldest first
    run0,         \* ghost: the value run_threads had when malloc returned
    allocated,    \* the tasks whose memory is allocated
    pushed, finished, joined, delete,   \* the tasks with that flag set
    result,       \* result[t]: the push whose execution wrote t->result
    gen,          \* ghost, gen[t]: how often t was pushed
    runs,         \* ghost, runs[t]: how often t->function was called
    wpc, wtask,   \* worker w: where it is, the task it works on
    wres,         \* worker w: the push its local arguments / result are from
    upc, utask,   \* user u: where it is, the task of its call
    ret, got      \* user u: its last return code, its last *result

poolVars   == <<pool, max_threads, run_threads, cnt_threads, shutdown, queue, run0>>
taskVars   == <<allocated, pushed, finished, joined, delete, result, gen, runs>>
workerVars == <<wpc, wtask, wres>>
userVars   == <<upc, utask, ret, got>>
vars       == <<poolVars, taskVars, workerVars, userVars>>

Workers == 1..TPOOL_MAX_THREADS

\* Worker pcs: "none" no such thread, "lock" before line 75, "wait" in line 77,
\* "load" before 91, "run" before 96, "dec" before 98, "publish" before 102,
\* "signal" before 105 with the task mutex held, "exited" after 109.
WorkerPCs == {"none", "lock", "wait", "load", "run", "dec",
              "publish", "signal", "exited"}
UserPCs   == {"idle", "join_lock", "join_wait", "join_result", "tjoin_lock",
              "tjoin_wait", "detach_check", "pool_join"}
Codes     == {"0", "-1", "INVALID_ARGUMENT", "TOO_MANY_TASKS", "HAS_TASKS",
              "TASK_NOT_PUSHED", "TASK_IN_POOL", "TIMEOUT"}

InSeq(q, t)      == \E i \in 1..Len(q) : q[i] = t
Distinct(q)      == \A i, j \in 1..Len(q) : q[i] = q[j] => i = j
Queued(t)        == InSeq(queue, t)
TaskMutexHeld(t) == \E w \in Workers : wpc[w] = "signal" /\ wtask[w] = t
InCall(u, t)     == upc[u] # "idle" /\ utask[u] = t

-----------------------------------------------------------------------------
Init ==
    /\ pool = "none" /\ max_threads = 0 /\ run_threads = 0 /\ cnt_threads = 0
    /\ shutdown = FALSE /\ queue = <<>> /\ run0 = 0
    /\ allocated = {} /\ pushed = {} /\ finished = {} /\ joined = {} /\ delete = {}
    /\ result = [t \in Tasks |-> 0]
    /\ gen = [t \in Tasks |-> 0]
    /\ runs = [t \in Tasks |-> 0]
    /\ wpc = [w \in Workers |-> "none"]
    /\ wtask = [w \in Workers |-> None]
    /\ wres = [w \in Workers |-> 0]
    /\ upc = [u \in Users |-> "idle"]
    /\ utask = [u \in Users |-> None]
    /\ ret = [u \in Users |-> "0"]
    /\ got = [u \in Users |-> 0]

-----------------------------------------------------------------------------
(* struct tasks_queue as the sequence of its tasks.                        *)

queue_add(tq, ts) == Append(tq, ts)

\* Mutant: `first' is not advanced.
queue_pop_keeps(tq) == [task |-> Head(tq), rest |-> tq]

queue_pop(tq) == [task |-> Head(tq), rest |-> Tail(tq)]

-----------------------------------------------------------------------------
(* Worker threads: tpool_worker.                                           *)

\* Lines 75-88: one hold of the pool mutex.  Shutdown wins over a non-empty
\* queue; an empty queue means waiting on pool->cond.
Fetch(w) ==
    /\ wpc[w] = "lock"
    /\ \/ /\ shutdown
          /\ wpc' = [wpc EXCEPT ![w] = "exited"]
          /\ UNCHANGED <<queue, run_threads, wtask>>
       \/ /\ ~shutdown /\ queue = <<>>
          /\ wpc' = [wpc EXCEPT ![w] = "wait"]
          /\ UNCHANGED <<queue, run_threads, wtask>>
       \/ /\ ~shutdown /\ queue # <<>>
          /\ wpc' = [wpc EXCEPT ![w] = "load"]
          /\ wtask' = [wtask EXCEPT ![w] = queue_pop(queue).task]
          /\ queue' = queue_pop(queue).rest
          /\ run_threads' = run_threads + 1
    /\ UNCHANGED <<pool, max_threads, cnt_threads, shutdown, run0, wres,
                   taskVars, userVars>>

\* pthread_cond_wait may return without a signal (line 77).
SpuriousWake(w) ==
    /\ wpc[w] = "wait"
    /\ wpc' = [wpc EXCEPT ![w] = "lock"]
    /\ UNCHANGED <<poolVars, taskVars, wtask, wres, userVars>>

\* Lines 91-94: function and arg are copied under the task mutex.
Load(w) ==
    /\ wpc[w] = "load" /\ ~TaskMutexHeld(wtask[w])
    /\ wpc' = [wpc EXCEPT ![w] = "run"]
    /\ wres' = [wres EXCEPT ![w] = gen[wtask[w]]]
    /\ UNCHANGED <<poolVars, taskVars, wtask, userVars>>

\* Line 96, with no lock held: the task's function runs and returns.
Run(w) ==
    /\ wpc[w] = "run"
    /\ wpc' = [wpc EXCEPT ![w] = "dec"]
    /\ runs' = [runs EXCEPT ![wtask[w]] = @ + 1]
    /\ UNCHANGED <<poolVars, allocated, pushed, finished, joined, delete,
                   result, gen, wtask, wres, userVars>>

\* Mutant: the counter is not decremented.
Decrement_missing(w) ==
    /\ wpc[w] = "dec"
    /\ wpc' = [wpc EXCEPT ![w] = "publish"]
    /\ UNCHANGED <<poolVars, taskVars, wtask, wres, userVars>>

\* Lines 98-100: the worker stops counting as running before it publishes.
Decrement(w) ==
    /\ wpc[w] = "dec"
    /\ wpc' = [wpc EXCEPT ![w] = "publish"]
    /\ run_threads' = run_threads - 1
    /\ UNCHANGED <<pool, max_threads, cnt_threads, shutdown, queue, run0,
                   taskVars, wtask, wres, userVars>>

\* Lines 102-104; the task mutex stays held.
Publish(w) ==
    /\ wpc[w] = "publish" /\ ~TaskMutexHeld(wtask[w])
    /\ wpc' = [wpc EXCEPT ![w] = "signal"]
    /\ result' = [result EXCEPT ![wtask[w]] = wres[w]]
    /\ finished' = finished \cup {wtask[w]}
    /\ UNCHANGED <<poolVars, allocated, pushed, joined, delete, gen, runs,
                   wtask, wres, userVars>>

\* Users blocked on t->task_cond, and what waking one of them does.
TaskWaiters(t) == {u \in Users : upc[u] \in {"join_wait", "tjoin_wait"} /\ utask[u] = t}
Woken_lost(u)  == upc[u]   \* mutant: the signal reaches nobody
Woken(u)       == IF upc[u] = "join_wait" THEN "join_lock" ELSE "tjoin_lock"

\* Lines 105-106: wake one waiter, if there is one, and unlock.
Signal(w) ==
    /\ wpc[w] = "signal"
    /\ \/ /\ TaskWaiters(wtask[w]) = {}
          /\ upc' = upc
       \/ \E u \in TaskWaiters(wtask[w]) : upc' = [upc EXCEPT ![u] = Woken(u)]
    /\ wpc' = [wpc EXCEPT ![w] = "lock"]
    /\ wtask' = [wtask EXCEPT ![w] = None]
    /\ wres' = [wres EXCEPT ![w] = 0]
    /\ UNCHANGED <<poolVars, taskVars, utask, ret, got>>

WorkerStep(w) ==
    Fetch(w) \/ Load(w) \/ Run(w) \/ Decrement(w) \/ Publish(w) \/ Signal(w)

-----------------------------------------------------------------------------
(* The pool's functions.                                                   *)

Return(u, code) == /\ upc' = [upc EXCEPT ![u] = "idle"]
                   /\ utask' = [utask EXCEPT ![u] = None]
                   /\ ret' = [ret EXCEPT ![u] = code]

\* run_threads is not assigned (lines 118-126): it keeps what malloc returned.
thread_pool_new(u, max_thread_count) ==
    /\ upc[u] = "idle" /\ pool = "none"
    /\ \/ /\ max_thread_count > TPOOL_MAX_THREADS \/ max_thread_count <= 0
          /\ Return(u, "INVALID_ARGUMENT")
          /\ UNCHANGED poolVars
       \/ /\ max_thread_count \in Workers
          /\ Return(u, "-1")
          /\ UNCHANGED poolVars
       \/ /\ max_thread_count \in Workers
          /\ pool' = "live" /\ max_threads' = max_thread_count
          /\ cnt_threads' = 0 /\ shutdown' = FALSE /\ queue' = <<>>
          /\ run_threads' \in GarbageInts /\ run0' = run_threads'
          /\ Return(u, "0")
    /\ UNCHANGED <<taskVars, workerVars, got>>

thread_pool_thread_count == cnt_threads

\* Mutant: a queued task does not count (line 146).
HasTasks_ignores_queue == run_threads # 0

\* The test of line 146.
HasTasks == run_threads # 0 \/ queue # <<>>

PoolBeingDeleted == \E v \in Users : upc[v] = "pool_join"

\* Lines 145-152: refuse, or set shutdown and wake every waiting worker.
thread_pool_delete(u) ==
    /\ upc[u] = "idle" /\ pool = "live" /\ ~PoolBeingDeleted
    /\ \/ /\ HasTasks
          /\ Return(u, "HAS_TASKS")
          /\ UNCHANGED <<shutdown, wpc>>
       \/ /\ ~HasTasks
          /\ shutdown' = TRUE
          /\ wpc' = [w \in Workers |-> IF wpc[w] = "wait" THEN "lock" ELSE wpc[w]]
          /\ upc' = [upc EXCEPT ![u] = "pool_join"]
          /\ UNCHANGED <<utask, ret>>
    /\ UNCHANGED <<pool, max_threads, run_threads, cnt_threads, queue, run0,
                   taskVars, wtask, wres, got>>

\* Lines 154-162: when every created thread has been joined, free the pool
\* (the fields of a freed pool are set to 0, the queue is left to be seen).
PoolFree(u) ==
    /\ upc[u] = "pool_join"
    /\ \A w \in 1..cnt_threads : wpc[w] = "exited"
    /\ pool' = "none" /\ shutdown' = FALSE
    /\ max_threads' = 0 /\ run_threads' = 0 /\ cnt_threads' = 0 /\ run0' = 0
    /\ wpc' = [w \in Workers |-> "none"]
    /\ Return(u, "0")
    /\ UNCHANGED <<queue, taskVars, wtask, wres, got>>

\* Mutant: an off-by-one in the limit.
NeedsThread_off_by_one == cnt_threads <= max_threads /\ cnt_threads = run_threads

\* Lines 181-183: a thread is created when all existing ones are running.
NeedsThread == cnt_threads < max_threads /\ cnt_threads = run_threads

\* Mutant: no pthread_cond_signal.
SignalOne_missing(pc) == {pc}

\* Line 184 applied to the workers `pc' that exist by then: one waiting
\* worker, if there is one, is woken.
SignalOne(pc) == IF \E w \in Workers : pc[w] = "wait"
                 THEN {[pc EXCEPT ![w] = "lock"] : w \in {x \in Workers : pc[x] = "wait"}}
                 ELSE {pc}

\* Mutant: the flags survive a second push.
Cleared_missing(flag, t) == flag

\* Lines 177-179: a flag is reset for the new life of the task.
Cleared(flag, t) == flag \ {t}

\* Lines 174-186: the task is queued, a thread created if all are busy, one
\* waiting worker woken.
Enqueue(u, t) ==
    /\ Len(queue) # TPOOL_MAX_TASKS
    /\ queue' = queue_add(queue, t)
    /\ pushed' = pushed \cup {t}
    /\ joined' = Cleared(joined, t)
    /\ delete' = Cleared(delete, t)
    /\ finished' = Cleared(finished, t)
    /\ gen' = [gen EXCEPT ![t] = @ + 1]
    /\ \/ /\ NeedsThread
          /\ cnt_threads' = cnt_threads + 1
          /\ wpc' \in SignalOne([wpc EXCEPT ![cnt_threads + 1] = "lock"])
       \/ /\ ~NeedsThread
          /\ cnt_threads' = cnt_threads
          /\ wpc' \in SignalOne(wpc)
    /\ Return(u, "0")

\* Lines 170-173.
QueueFull(u) ==
    /\ Len(queue) = TPOOL_MAX_TASKS
    /\ Return(u, "TOO_MANY_TASKS")
    /\ UNCHANGED <<queue, pushed, joined, delete, finished, gen, cnt_threads, wpc>>

thread_pool_push_task(u, t) ==
    /\ upc[u] = "idle" /\ pool = "live" /\ ~PoolBeingDeleted
    /\ t \in Handles[u] \cap allocated
    /\ t \notin pushed \/ t \in joined
    /\ t \notin delete
    /\ ~\E v \in Users : InCall(v, t)
    /\ gen[t] < MaxPush
    /\ QueueFull(u) \/ Enqueue(u, t)
    /\ UNCHANGED <<pool, max_threads, run_threads, shutdown, run0, allocated,
                   result, runs, wtask, wres, got>>

-----------------------------------------------------------------------------
(* The task's functions.                                                   *)

\* malloc may return an address freed before; the result field keeps garbage.
thread_task_new(u, t) ==
    /\ upc[u] = "idle" /\ t \in Handles[u] \ allocated
    /\ allocated' = allocated \cup {t}
    /\ delete' = delete \ {t} /\ finished' = finished \ {t}
    /\ joined' = joined \ {t} /\ pushed' = pushed \ {t}
    /\ Return(u, "0")
    /\ UNCHANGED <<poolVars, result, gen, runs, workerVars, got>>

thread_task_is_finished(t) == t \in finished

thread_task_is_running(t) == t \in pushed

\* A user may pass t to a task function: it has the handle, t was not detached.
MayUse(u, t) == upc[u] = "idle" /\ t \in (Handles[u] \cap allocated) \ delete

\* Line 222, before the lock.
thread_task_join(u, t) ==
    /\ MayUse(u, t)
    /\ \/ /\ t \notin pushed
          /\ Return(u, "TASK_NOT_PUSHED")
       \/ /\ t \in pushed
          /\ upc' = [upc EXCEPT ![u] = "join_lock"]
          /\ utask' = [utask EXCEPT ![u] = t]
          /\ ret' = ret
    /\ UNCHANGED <<poolVars, taskVars, workerVars, got>>

\* Lines 223-228: one hold of the task mutex.
JoinLocked(u) ==
    /\ upc[u] = "join_lock" /\ ~TaskMutexHeld(utask[u])
    /\ \/ /\ utask[u] \notin finished
          /\ upc' = [upc EXCEPT ![u] = "join_wait"]
          /\ joined' = joined
       \/ /\ utask[u] \in finished
          /\ upc' = [upc EXCEPT ![u] = "join_result"]
          /\ joined' = joined \cup {utask[u]}
    /\ UNCHANGED <<poolVars, allocated, pushed, finished, delete, result, gen,
                   runs, workerVars, utask, ret, got>>

\* Lines 229-230: the result is read after the unlock.
JoinResult(u) ==
    /\ upc[u] = "join_result"
    /\ got' = [got EXCEPT ![u] = result[utask[u]]]
    /\ Return(u, "0")
    /\ UNCHANGED <<poolVars, taskVars, workerVars>>

\* Lines 246-252; a timeout that is not positive never looks at the task.
thread_task_timed_join(u, t, timeout) ==
    /\ MayUse(u, t)
    /\ \/ /\ timeout <= 0
          /\ Return(u, "TIMEOUT")
       \/ /\ timeout > 0 /\ t \notin pushed
          /\ Return(u, "TASK_NOT_PUSHED")
       \/ /\ timeout > 0 /\ t \in pushed
          /\ upc' = [upc EXCEPT ![u] = "tjoin_lock"]
          /\ utask' = [utask EXCEPT ![u] = t]
          /\ ret' = ret
    /\ UNCHANGED <<poolVars, taskVars, workerVars, got>>

\* Lines 254-267: finished beats the clock; a task that is not finished is
\* waited for or given up, as bigger(now, timeout_time) says (module TimedJoin).
TimedJoinLocked(u) ==
    /\ upc[u] = "tjoin_lock" /\ ~TaskMutexHeld(utask[u])
    /\ \/ /\ utask[u] \in finished
          /\ got' = [got EXCEPT ![u] = result[utask[u]]]
          /\ joined' = joined \cup {utask[u]}
          /\ Return(u, "0")
       \/ /\ utask[u] \notin finished
          /\ Return(u, "TIMEOUT")
          /\ UNCHANGED <<joined, got>>
       \/ /\ utask[u] \notin finished
          /\ upc' = [upc EXCEPT ![u] = "tjoin_wait"]
          /\ UNCHANGED <<joined, got, utask, ret>>
    /\ UNCHANGED <<poolVars, allocated, pushed, finished, delete, result, gen,
                   runs, workerVars>>

\* pthread_cond_timedwait returns when its time is over (line 262).
TimedWake(u) ==
    /\ upc[u] = "tjoin_wait"
    /\ upc' = [upc EXCEPT ![u] = "tjoin_lock"]
    /\ UNCHANGED <<poolVars, taskVars, workerVars, utask, ret, got>>

\* pthread_cond_wait may return without a signal (line 225).
SpuriousJoinWake(u) ==
    /\ upc[u] = "join_wait"
    /\ upc' = [upc EXCEPT ![u] = "join_lock"]
    /\ UNCHANGED <<poolVars, taskVars, workerVars, utask, ret, got>>

\* Mutant: a finished task may be deleted before it is joined.
Deletable_finished(t) == ~(t \in pushed /\ ~(t \in finished \/ t \in delete))

\* Line 277.
Deletable(t) == ~(t \in pushed /\ ~(t \in joined \/ t \in delete))

thread_task_delete(u, t) ==
    /\ MayUse(u, t) /\ ~\E v \in Users : InCall(v, t)
    /\ \/ /\ ~Deletable(t)
          /\ Return(u, "TASK_IN_POOL")
          /\ allocated' = allocated
       \/ /\ Deletable(t)
          /\ allocated' = allocated \ {t}
          /\ Return(u, "0")
    /\ UNCHANGED <<poolVars, pushed, finished, joined, delete, result, gen, runs,
                   workerVars, got>>

\* Lines 292-295.
thread_task_detach(u, t) ==
    /\ DetachWhen = "any" \/ (DetachWhen = "finished" /\ thread_task_is_finished(t))
    /\ MayUse(u, t) /\ ~\E v \in Users : InCall(v, t)
    /\ \/ /\ t \notin pushed
          /\ Return(u, "TASK_NOT_PUSHED")
          /\ delete' = delete
       \/ /\ t \in pushed /\ ~TaskMutexHeld(t)
          /\ delete' = delete \cup {t}
          /\ upc' = [upc EXCEPT ![u] = "detach_check"]
          /\ utask' = [utask EXCEPT ![u] = t]
          /\ ret' = ret
    /\ UNCHANGED <<poolVars, allocated, pushed, finished, joined, result, gen,
                   runs, workerVars, got>>

\* Lines 296-298: finished is read without the task mutex; the call of
\* thread_task_delete frees the task, whose delete flag is set.
DetachCheck(u) ==
    /\ upc[u] = "detach_check"
    /\ allocated' = IF utask[u] \in finished /\ Deletable(utask[u])
                    THEN allocated \ {utask[u]} ELSE allocated
    /\ Return(u, "0")
    /\ UNCHANGED <<poolVars, pushed, finished, joined, delete, result, gen, runs,
                   workerVars, got>>

\* The steps inside a call that has begun.
CallStep(u) == \/ PoolFree(u) \/ JoinLocked(u) \/ JoinResult(u)
               \/ TimedJoinLocked(u) \/ TimedWake(u) \/ DetachCheck(u)

\* The calls a user may begin.
Call(u) == \/ \E n \in 0..(TPOOL_MAX_THREADS + 1) : thread_pool_new(u, n)
           \/ thread_pool_delete(u)
           \/ \E t \in Tasks : \/ thread_task_new(u, t)
                               \/ thread_pool_push_task(u, t)
                               \/ thread_task_join(u, t)
                               \/ \E timeout \in 0..1 : thread_task_timed_join(u, t, timeout)
                               \/ thread_task_delete(u, t)
                               \/ thread_task_detach(u, t)

Next == \/ \E w \in Workers : WorkerStep(w) \/ SpuriousWake(w)
        \/ \E u \in Users : CallStep(u) \/ SpuriousJoinWake(u) \/ Call(u)

Spec == Init /\ [][Next]_vars

\* The operating system schedules every thread that can run, and task
\* functions return: workers keep going and a begun call keeps going.  No
\* user has to begin a call.
FairSpec == /\ Spec
            /\ \A w \in Workers : WF_vars(WorkerStep(w))
            /\ \A u \in Users : WF_vars(CallStep(u))
=============================================================================
