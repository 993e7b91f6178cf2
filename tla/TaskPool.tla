------------------------------ MODULE TaskPool ------------------------------
(***************************************************************************)
(* What the thread pool of 4/thread_pool.h promises its callers, without   *)
(* threads, mutexes or condition variables: tasks are started in the order *)
(* they were pushed, each push runs once, a result is handed out only      *)
(* after the run, a task is freed only when it is outside the pool, and a  *)
(* pool goes away only when nothing is left in it.                         *)
(***************************************************************************)
EXTENDS Naturals, Sequences

CONSTANT Tasks

VARIABLES
    open,      \* whether there is a pool
    pending,   \* pushed and not started, oldest first
    phase      \* phase[t]: where t is in its life

tpVars == <<open, pending, phase>>

Phases == {"free", "new", "queued", "running", "finished", "joined"}

TaskPoolInit ==
    /\ open = FALSE
    /\ pending = <<>>
    /\ phase = [t \in Tasks |-> "free"]

Move(t, from, to) == /\ phase[t] \in from
                     /\ phase' = [phase EXCEPT ![t] = to]

Open == /\ ~open /\ open' = TRUE
        /\ pending = <<>>
        /\ UNCHANGED <<pending, phase>>

\* A pool is closed only when no task is queued or running.
Close == /\ open /\ open' = FALSE
         /\ pending = <<>>
         /\ \A t \in Tasks : phase[t] \notin {"queued", "running"}
         /\ UNCHANGED <<pending, phase>>

Create(t) == Move(t, {"free"}, "new") /\ UNCHANGED <<open, pending>>

Push(t) == /\ open
           /\ Move(t, {"new", "joined"}, "queued")
           /\ pending' = Append(pending, t)
           /\ UNCHANGED open

Start(t) == /\ pending # <<>> /\ t = Head(pending)
            /\ Move(t, {"queued"}, "running")
            /\ pending' = Tail(pending)
            /\ UNCHANGED open

Finish(t) == Move(t, {"running"}, "finished") /\ UNCHANGED <<open, pending>>

Join(t) == Move(t, {"finished"}, "joined") /\ UNCHANGED <<open, pending>>

\* "finished" covers a task that its owner detached after it had finished.
Free(t) == Move(t, {"new", "finished", "joined"}, "free") /\ UNCHANGED <<open, pending>>

TaskPoolNext ==
    \/ Open \/ Close
    \/ \E t \in Tasks : \/ Create(t) \/ Push(t) \/ Start(t) \/ Finish(t)
                        \/ Join(t) \/ Free(t)

TaskPoolSpec == TaskPoolInit /\ [][TaskPoolNext]_tpVars
=============================================================================
