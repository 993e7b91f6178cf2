----------------------------- MODULE CoroSort -----------------------------
(***************************************************************************)
(* 1/solution.c: coroutines share the files to be sorted, each sorts the   *)
(* files it claims and gives way when its quantum is over, and main merges *)
(* the sorted files.                                                       *)
(*                                                                         *)
(* sorting(arr, l, r) has an inclusive bound and is called with r = size   *)
(* (182): the int behind the array takes part.  It is the last element of  *)
(* the array here; what it holds at first is up to the heap.  Files are    *)
(* there and hold numbers: for others fopen is not checked and the loops   *)
(* of lines 58 and 63 do not end.                                          *)
(***************************************************************************)
EXTENDS Coroutines

CONSTANTS
    Inputs,     \* the sequences of files' contents the program is started with
    Behind,     \* the values the int behind an array may have
    MaxSize     \* bound: ints in a file

\* main asks for at least one coroutine and one file (226, 238).
ASSUME InputAssumption == /\ Inputs \subseteq Seq(Seq(Int)) \ {<<>>} /\ Behind \subseteq Int
                          /\ MaxSize \in Nat /\ num_cor >= 1

VARIABLES
    input,      \* input[i] = [numbers, behind]: what file i contains, and the heap
                \* behind its array
    files,      \* files[i] = [arr, size, sorted]
    job,        \* job[c] = [i, plan]: coroutine c has looked at files 1..i and has to
                \* do plan, step by step, for file i
    main,       \* where main is: "create", "wait", "combine" or "done"
    merged      \* files 1..merged are combined in file merged
sortVars == <<input, files, job, main, merged>>
vars == <<coVars, sortVars>>

-----------------------------------------------------------------------------
(* The algorithms.                                                         *)

\* Two sorted runs become one: the element of x goes first when it is
\* smaller, that of y otherwise.
MergeRuns(x, y) ==
    LET Take(st, k) ==
            IF st.p < Len(x) /\ (st.q = Len(y) \/ x[st.p + 1] < y[st.q + 1])
            THEN [st EXCEPT !.p = @ + 1, !.out = Append(@, x[st.p + 1])]
            ELSE [st EXCEPT !.q = @ + 1, !.out = Append(@, y[st.q + 1])]
    IN  FoldLeft(Take, [p |-> 0, q |-> 0, out |-> <<>>], [k \in 1..(Len(x) + Len(y)) |-> k]).out

\* merge(arr, l, r), with C's indices from 0.
merge(arr, l, r) ==
    LET mid == (l + r) \div 2
        run == MergeRuns(SubSeq(arr, l + 1, mid + 1), SubSeq(arr, mid + 2, r + 1))
    IN  [k \in 1..Len(arr) |-> IF k \in (l + 1)..(r + 1) THEN run[k - l] ELSE arr[k]]

\* combine(first, second).
combine(first, second) ==
    LET all == MergeRuns(SubSeq(first.arr, 1, first.size), SubSeq(second.arr, 1, second.size))
    IN  [first EXCEPT !.arr = all, !.size = first.size + second.size]

\* What sorting(arr, l, r) does, in order: merges, and "pause" where it calls
\* to_yield.
sorting[l \in 0..MaxSize, r \in 0..MaxSize] ==
    IF r = l THEN <<>>
    ELSE LET mid == (l + r) \div 2
         IN  sorting[l, mid] \o <<"pause">> \o sorting[mid + 1, r] \o <<"pause", <<l, r>> >>

-----------------------------------------------------------------------------

my_context_new(f) ==
    [arr |-> Append(f.numbers, f.behind), size |-> Len(f.numbers), sorted |-> FALSE]

works_new(in) == [i \in DOMAIN in |-> my_context_new(in[i])]

\* The arguments were good and the files have been read.
Init ==
    /\ CoroInit
    /\ \E numbers \in Inputs : \E behind \in [DOMAIN numbers -> Behind] :
          input = [i \in DOMAIN numbers |-> [numbers |-> numbers[i], behind |-> behind[i]]]
    /\ files = works_new(input)
    /\ job = [c \in Coros |-> [i |-> 0, plan |-> <<>>]]
    /\ main = "create" /\ merged = 1

\* The loop of main that creates the coroutines.
Create ==
    /\ main = "create"
    /\ coro_new(Len(coro_list) + 1)
    /\ main' = IF Len(coro_list') = num_cor THEN "wait" ELSE main
    /\ UNCHANGED <<input, files, job, merged>>

\* Coroutine c runs and the next thing it does is `what'.
Working(c, what) == /\ coro_this = c /\ job[c].plan # <<>>
                    /\ (what = "pause") <=> (Head(job[c].plan) = "pause")
Looking(c) == coro_this = c /\ job[c].plan = <<>>

\* The files from i on that nobody has claimed.
Unclaimed(i) == {k \in i..Len(files) : ~files[k].sorted}

\* Mutant: the file is not marked before the yield.
Marked_missing(k) == files

Marked(k) == [files EXCEPT ![k].sorted = TRUE]

\* The next file nobody has claimed is claimed, and the coroutine gives way
\* before it sorts it.  The to_yield of line 184 ends the plan.
Claim(c) ==
    /\ Looking(c)
    /\ \E k \in Unclaimed(job[c].i + 1) :
          /\ \A j \in Unclaimed(job[c].i + 1) : k <= j
          /\ files' = Marked(k)
          /\ job' = [job EXCEPT ![c] = [i |-> k, plan |-> Append(sorting[0, files[k].size], "pause")]]
    /\ coro_yield
    /\ UNCHANGED <<input, main, merged>>

\* No file is left: the coroutine's function returns.
Finish(c) == /\ Looking(c) /\ Unclaimed(job[c].i + 1) = {}
             /\ coro_return
             /\ UNCHANGED sortVars

Advance(c) == job' = [job EXCEPT ![c].plan = Tail(@)]

\* The quantum is over, or it is not.
to_yield(c) == /\ Working(c, "pause") /\ Advance(c)
               /\ coro_yield \/ UNCHANGED coVars
               /\ UNCHANGED <<input, files, main, merged>>

\* A part of the claimed file is merged.
MergePart(c) ==
    /\ Working(c, "merge") /\ Advance(c)
    /\ LET part == Head(job[c].plan)
       IN  files' = [files EXCEPT ![job[c].i].arr = merge(@, part[1], part[2])]
    /\ UNCHANGED <<coVars, input, main, merged>>

\* main runs the coroutines and deletes those that are finished.
Wait == /\ main = "wait"
        /\ \/ SchedSwitches /\ UNCHANGED main
           \/ \E c \in Coros : SchedReturns(c) /\ UNCHANGED main
           \/ SchedEmpty /\ main' = "combine"
        /\ UNCHANGED <<input, files, job, merged>>

Combined == Len(files)

\* Each file is combined with the one before it; the last one is written out.
Combine ==
    /\ main = "combine"
    /\ IF merged >= Combined THEN main' = "done" /\ UNCHANGED <<files, merged>>
       ELSE /\ files' = [files EXCEPT ![merged + 1] = combine(@, files[merged])]
            /\ merged' = merged + 1 /\ UNCHANGED main
    /\ UNCHANGED <<coVars, input, job>>

Next == \/ Create \/ Wait \/ Combine
        \/ \E c \in Coros : Claim(c) \/ Finish(c) \/ to_yield(c) \/ MergePart(c)

\* One process: as long as it can go on, it does.
Spec == Init /\ [][Next]_vars /\ WF_vars(Next)

-----------------------------------------------------------------------------

\* Every variable has its type.
TypeOK ==
    /\ coro_list \in Seq(Coros) /\ IsInjective(coro_list)
    /\ coro_this \in Coros \cup {Sched}
    /\ is_finished \subseteq Coros /\ is_sched_waiting \in BOOLEAN
    /\ switch_count \in [Coros \cup {Sched} -> Nat]
    /\ reaped \in Seq(Coros)
    /\ main \in {"create", "wait", "combine", "done"}
    /\ merged \in 1..Len(files)
    /\ \A c \in Coros : job[c].i \in 0..Len(files)

\* A coroutine that runs is alive, in the list and finds the scheduler waiting
\* when it ends: "no place to return" (libcoro.c:180) is not reached, and
\* nobody is resumed on the stack of a finished or deleted coroutine.
PlaceToReturn ==
    coro_this # Sched => /\ is_sched_waiting
                         /\ InList(coro_this) /\ coro_this \notin is_finished

\* Every coroutine is in the list or was returned by coro_sched_wait, once and
\* finished; the scheduler gets control before a second one can finish.
ReapedOnce ==
    /\ IsInjective(reaped) /\ ToSet(reaped) \cap ToSet(coro_list) = {}
    /\ ToSet(reaped) \subseteq is_finished
    /\ main # "create" => ToSet(reaped) \cup ToSet(coro_list) = Coros
    /\ Cardinality(is_finished \ ToSet(reaped)) <= 1

\* The scheduler and the coroutines never lose each other, through all the
\* switches and reapings of coro_sched_wait and coro_body.
SchedulerSound == TypeOK /\ PlaceToReturn /\ ReapedOnce

\* Rounds start at the head of the list, also after one that a finished
\* coroutine cut short: a coroutine is ahead of one behind it by at most one
\* switch and one for every coroutine that has finished, and never behind it.
RoundRobin ==
    \A i, j \in 1..Len(coro_list) : i < j =>
        switch_count[coro_list[i]] - switch_count[coro_list[j]] \in 0..(1 + Cardinality(is_finished))

\* A file is sorted by one coroutine, although they give way between finding a
\* file and sorting it, and in the middle of sorting it.
SortedByOne ==
    \A c, d \in Coros : c # d /\ job[c].i = job[d].i => job[c].plan = <<>> \/ job[d].plan = <<>>

AllInput == FoldLeft(LAMBDA x, f : x \o f.numbers, <<>>, input)
Count(s, v) == Cardinality({k \in DOMAIN s : s[k] = v})
Result == SubSeq(files[Len(files)].arr, 1, files[Len(files)].size)

\* "Each file should be sorted, and then results should be merged" (1/task_eng.txt
\* 8-9): the result has the numbers of all files, each as often as they have.  The
\* code breaks it when the int behind an array is smaller than a number (182).
KeepsNumbers ==
    main = "done" => /\ Len(Result) = Len(AllInput)
                     /\ \A v \in ToSet(AllInput) : Count(Result, v) = Count(AllInput, v)

\* No file has two sorters, the program's result is sorted, and when no int behind an array is smaller
\* than a number of the file, it has the numbers of all files.
SortsAll ==
    /\ SortedByOne
    /\ main = "done" => \A k \in 1..(Len(Result) - 1) : Result[k] <= Result[k + 1]
    /\ (\A i \in DOMAIN input : \A v \in ToSet(input[i].numbers) : v <= input[i].behind) => KeepsNumbers

\* The program ends, whichever quanta are over when.
Ends == <>(main = "done")
=============================================================================
