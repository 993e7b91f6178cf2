---------------------------- MODULE Coroutines ----------------------------
(***************************************************************************)
(* The cooperative scheduler of 1/libcoro.c: coroutines in a list, the     *)
(* scheduler that starts a round at its head and reaps the finished ones.  *)
(*                                                                         *)
(* A context saved by sigsetjmp is the point at which the program of the   *)
(* coroutine goes on; programs keep it in variables of their own.  How a   *)
(* new coroutine gets its stack (SIGUSR2 on an alternate stack, lines      *)
(* 199-253) leaves no trace but that context and the old value of          *)
(* coro_this_ptr, so here a new coroutine is only put into the list.       *)
(***************************************************************************)
EXTENDS Integers, Sequences, FiniteSets, SequencesExt

CONSTANT num_cor   \* how many coroutines the program creates

ASSUME CoroAssumption == num_cor \in Nat

Coros == 1..num_cor   \* in the order of their creation
Sched == 0            \* coro_sched

VARIABLES
    coro_list,         \* the list, newest coroutine first
    coro_this,         \* coro_this_ptr
    is_finished,       \* the coroutines whose is_finished is set
    is_sched_waiting,
    switch_count,      \* of the scheduler, too
    reaped             \* coroutines coro_sched_wait has returned, in that order
coVars == <<coro_list, coro_this, is_finished, is_sched_waiting, switch_count, reaped>>

InList(c) == c \in ToSet(coro_list)
Place(c)  == CHOOSE i \in 1..Len(coro_list) : coro_list[i] = c

CoroInit == /\ coro_list = <<>> /\ coro_this = Sched
            /\ is_finished = {} /\ is_sched_waiting = FALSE
            /\ switch_count = [c \in Coros \cup {Sched} |-> 0]
            /\ reaped = <<>>

coro_list_add(c) == <<c>> \o coro_list

\* The list gets the new coroutine in front; the caller goes on running.
coro_new(c) ==
    /\ coro_list' = coro_list_add(c)
    /\ UNCHANGED <<coro_this, is_finished, is_sched_waiting, switch_count, reaped>>

\* The running coroutine stops and `to' goes on.
coro_yield_to(to) == /\ switch_count' = [switch_count EXCEPT ![coro_this] = @ + 1]
                     /\ coro_this' = to

\* Mutant: every coroutine gives way to the first one.
Successor_head(c) == IF Place(c) = Len(coro_list) THEN Sched ELSE coro_list[1]

Successor(c) == IF Place(c) = Len(coro_list) THEN Sched ELSE coro_list[Place(c) + 1]

\* The scheduler that is resumed by a yield clears its flag (142) before it
\* does anything else.
coro_yield ==
    /\ coro_this # Sched
    /\ coro_yield_to(Successor(coro_this))
    /\ is_sched_waiting' = (Successor(coro_this) # Sched)
    /\ UNCHANGED <<coro_list, is_finished, reaped>>

\* The end of a coroutine's function: it jumps into the scheduler, without
\* counting a switch.  Were the scheduler not waiting, the process would exit
\* with "no place to return" (179-182); here it would be stuck.
coro_return ==
    /\ coro_this # Sched /\ is_sched_waiting
    /\ is_finished' = is_finished \cup {coro_this}
    /\ coro_this' = Sched
    /\ is_sched_waiting' = FALSE
    /\ UNCHANGED <<coro_list, switch_count, reaped>>

FinishedAt == {i \in 1..Len(coro_list) : coro_list[i] \in is_finished}

\* Mutant: the coroutine stays in the list.
coro_list_delete_keeps(i) == coro_list

coro_list_delete(i) == RemoveAt(coro_list, i)

\* coro_sched_wait returns the first finished coroutine of the list ...
SchedReturns(c) ==
    /\ coro_this = Sched /\ FinishedAt # {}
    /\ LET i == CHOOSE i \in FinishedAt : \A j \in FinishedAt : i <= j
       IN  c = coro_list[i] /\ coro_list' = coro_list_delete(i)
    /\ reaped' = Append(reaped, c)
    /\ UNCHANGED <<coro_this, is_finished, is_sched_waiting, switch_count>>

\* Mutant: the flag is set after the switch.
SchedSwitches_unflagged ==
    /\ coro_this = Sched /\ FinishedAt = {} /\ coro_list # <<>>
    /\ coro_yield_to(Head(coro_list))
    /\ UNCHANGED <<coro_list, is_finished, is_sched_waiting, reaped>>

\* ... or starts a round at the head of the list ...
SchedSwitches ==
    /\ coro_this = Sched /\ FinishedAt = {} /\ coro_list # <<>>
    /\ is_sched_waiting' = TRUE
    /\ coro_yield_to(Head(coro_list))
    /\ UNCHANGED <<coro_list, is_finished, reaped>>

\* ... or returns NULL.
SchedEmpty == coro_this = Sched /\ coro_list = <<>> /\ UNCHANGED coVars
=============================================================================
