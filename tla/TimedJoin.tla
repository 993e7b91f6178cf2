------------------------------ MODULE TimedJoin ------------------------------
(***************************************************************************)
(* The clock arithmetic of thread_task_timed_join (4/thread_pool.c:233-270)*)
(* which ThreadPool leaves open: one call with its deadline, the monotonic *)
(* clock it reads and the real-time clock pthread_cond_timedwait goes by.  *)
(* Time is counted in ticks, NSEC of them in a second (1000000000 in the   *)
(* code); a struct timespec keeps its two fields.                          *)
(***************************************************************************)
EXTENDS Integers

CONSTANTS
    NSEC,       \* ticks in a second
    Timeouts,   \* the timeouts callers pass, in ticks; Huge means e.g. DBL_MAX
    Huge,       \* a timeout whose conversion to long overflows
    LONG_MIN,   \* what that conversion gives (cvttsd2si)
    Offsets,    \* real-time clock minus monotonic clock
    MaxTime     \* bound on the monotonic clock

ASSUME NsecAssumption == NSEC \in Nat \ {0}
ASSUME ClockAssumption == /\ MaxTime \in Nat /\ Offsets \subseteq Int
                          /\ LONG_MIN \in Int /\ LONG_MIN < -MaxTime
                          /\ Huge \in Nat /\ Huge > MaxTime
                          /\ Timeouts \subseteq Int

VARIABLES mono,      \* CLOCK_MONOTONIC
          offset,
          finished,  \* task->finished
          pc,        \* "idle", "check" before line 255, "wait" in line 262
          timeout, start,   \* of the call
          timeout_time,     \* the struct timespec of line 249
          ret
tjVars == <<mono, offset, finished, pc, timeout, start, timeout_time, ret>>

Timespec(t) == [tv_sec |-> t \div NSEC, tv_nsec |-> t % NSEC]
Ticks(ts)   == ts.tv_sec * NSEC + ts.tv_nsec

\* Mutant: the deadline itself is not reached yet.
bigger_strict(a, b) == IF a.tv_sec = b.tv_sec THEN a.tv_nsec > b.tv_nsec
                                              ELSE a.tv_sec > b.tv_sec

bigger(a, b) == IF a.tv_sec = b.tv_sec THEN a.tv_nsec >= b.tv_nsec
                                       ELSE a.tv_sec > b.tv_sec

\* Mutant: the fraction of a second is dropped.
Deadline_no_nsec(now, t) == [tv_sec |-> now.tv_sec + (t \div NSEC), tv_nsec |-> 0]

\* Lines 250-252: no carry from tv_nsec into tv_sec, and (long) timeout of a
\* value that does not fit is LONG_MIN.
Deadline(now, t) ==
    IF t = Huge
    THEN [tv_sec |-> now.tv_sec + LONG_MIN, tv_nsec |-> now.tv_nsec - ((0 - LONG_MIN) % NSEC)]
    ELSE [tv_sec |-> now.tv_sec + (t \div NSEC), tv_nsec |-> now.tv_nsec + (t % NSEC)]

Init == /\ mono \in 0..(NSEC - 1) /\ offset \in Offsets /\ finished = FALSE
        /\ pc = "idle" /\ timeout = 0 /\ start = 0
        /\ timeout_time = Timespec(0) /\ ret = "none"

Tick == /\ mono < MaxTime /\ mono' = mono + 1
        /\ UNCHANGED <<offset, finished, pc, timeout, start, timeout_time, ret>>

\* A worker publishes the task; the wait of line 262 sees its signal.
Finish == /\ ~finished /\ finished' = TRUE
          /\ UNCHANGED <<mono, offset, pc, timeout, start, timeout_time, ret>>

\* Lines 246-252 for a pushed task.
thread_task_timed_join(t) ==
    /\ pc = "idle" /\ ret = "none"
    /\ t = Huge \/ mono + t + NSEC <= MaxTime   \* bound: the clock gets past the deadline
    /\ \/ /\ t <= 0
          /\ ret' = "TIMEOUT"
          /\ UNCHANGED <<pc, timeout_time>>
       \/ /\ t > 0
          /\ pc' = "check"
          /\ timeout_time' = Deadline(Timespec(mono), t)
          /\ ret' = ret
    /\ timeout' = t /\ start' = mono
    /\ UNCHANGED <<mono, offset, finished>>

\* Lines 255-261 and 264-267.
Check == /\ pc = "check"
         /\ \/ /\ finished
               /\ pc' = "idle" /\ ret' = "0"
            \/ /\ ~finished /\ bigger(Timespec(mono), timeout_time)
               /\ pc' = "idle" /\ ret' = "TIMEOUT"
            \/ /\ ~finished /\ ~bigger(Timespec(mono), timeout_time)
               /\ pc' = "wait" /\ ret' = ret
         /\ UNCHANGED <<mono, offset, finished, timeout, start, timeout_time>>

\* Mutant: an untimed wait, pthread_cond_wait.
CondTimedwaitReturns_untimed ==
    /\ pc = "wait" /\ finished
    /\ pc' = "check"
    /\ UNCHANGED <<mono, offset, finished, timeout, start, timeout_time, ret>>

\* pthread_cond_timedwait has a reason to return: a signal, EINVAL for a tv_nsec
\* outside its range, or ETIMEDOUT when the REAL-TIME clock has reached the deadline.
WaitIsOver == \/ finished
              \/ timeout_time.tv_nsec \notin 0..(NSEC - 1)
              \/ mono + offset >= Ticks(timeout_time)

\* (Wake-ups without any reason are in ThreadPool: TimedWake.)
CondTimedwaitReturns ==
    /\ pc = "wait" /\ WaitIsOver
    /\ pc' = "check"
    /\ UNCHANGED <<mono, offset, finished, timeout, start, timeout_time, ret>>

\* The application does something else.
Idle == pc = "idle" /\ UNCHANGED tjVars

Next == Tick \/ Finish \/ (\E t \in Timeouts : thread_task_timed_join(t))
        \/ Check \/ CondTimedwaitReturns \/ Idle

\* Time passes, and the calling thread runs.
Spec == /\ Init /\ [][Next]_tjVars
        /\ WF_tjVars(Tick) /\ WF_tjVars(Check) /\ WF_tjVars(CondTimedwaitReturns)

-----------------------------------------------------------------------------
\* "wait no longer than the timeout" (thread_pool.h:132): a caller that looks at
\* the clock when its time is over does not wait again, carry or no carry.
TimeoutNotMissed ==
    [][pc = "check" /\ mono >= start + timeout => pc' # "wait"]_tjVars

\* Whatever the timeout, a timeout is reported early for two causes only: it is
\* huge, and (long) timeout (251) has overflowed; or the deadline has no carry from
\* tv_nsec into tv_sec (252) where the two fractions of a second add up to one,
\* and then it is early by less than a second.
EarlyHasACause ==
    ret = "TIMEOUT" /\ mono < start + timeout =>
        \/ timeout = Huge
        \/ /\ (start % NSEC) + (timeout % NSEC) >= NSEC
           /\ mono > start + timeout - NSEC

\* What 4/test.c:269 expects of a timeout, "didn't exit too early", and what
\* thread_pool.h:134 promises of a huge one, to be infinite.  The code breaks it for
\* the two causes above.
NotTooEarly == ret = "TIMEOUT" => mono >= start + timeout

\* "wait no longer than the timeout" (thread_pool.h:132): when the time is over, the
\* wait of line 262 returns.  The code breaks it where the real-time clock, which
\* that wait goes by, is behind the monotonic one of the deadline.
NotTooLate == pc = "wait" /\ mono >= start + timeout => WaitIsOver

\* The call returns, whatever the offset between the two clocks: the task
\* finishes or the monotonic clock reaches the deadline.
TimedJoinReturns == pc # "idle" ~> pc = "idle"
=============================================================================
