# sysprog: TLA+ models, checks and proofs

The repository holds five programs of a systems-programming course and the
tools they share: coroutines and a merge sort (directory `1`), a shell (`2`), an
in-memory file system (`3`), a thread pool (`4`) and a TCP chat (`5`); the
allocation tracker `utils/heap_help` is linked into their tests. This directory
models them in TLA+, checks the models with TLC on small instances and proves with
TLAPS, for every value of the constants, the safety of the thread pool and that it
implements its abstract specification, what makes a timed join early, the bookkeeping
of the file system and that it behaves like flat files, the soundness and fairness of
the coroutine scheduler, that the chat attributes every message to its author and
keeps all messages in one order without gaps, and that the leak tracker keeps exact
books and writes an exact report, up to the blocks whose `realloc` has failed. Where the
code breaks what its documents, comments and tests say, a run shows it (section 5).

All paths below are relative to the repository. "Line n" is a line of the source
file the section is about; `PROJECT.json` maps every definition to its lines.

## 1. Inventory

| component | state | operations | talks to |
|---|---|---|---|
| thread pool, `4/thread_pool.c` | queue, counters `run_threads`, `cnt_threads`, `shutdown`, the threads; per task `pushed`, `finished`, `joined`, `delete`, `result` | `thread_pool_new`, `_delete`, `_push_task`, `_thread_count`; `thread_task_new`, `_is_finished`, `_is_running`, `_join`, `_timed_join`, `_delete`, `_detach`; the worker loop | application threads and workers share pool and tasks under two kinds of mutex and two kinds of condition variable |
| timed join, `4/thread_pool.c:233-270` | a deadline | the arithmetic on `struct timespec`, the wait | two clocks of the kernel, the worker's signal |
| user-level file system, `3/userfs.c` | list of files, each a list of blocks with a reference count and a deletion mark; table of descriptors and its count | `ufs_open`, `_read`, `_write`, `_close`, `_delete`, `_resize`, `_destroy` | called by one thread |
| chat server, `5/chat_server.c` | table of peers, queues of received and of own messages | `listen`, `update`, `feed`, `pop_next`, `delete` | epoll; a blocking socket to every client |
| chat client, `5/chat_client.c` | queues of messages to send and received, known authors, `name_sended` | `connect`, `update`, `feed`, `pop_next`, `delete` | epoll; a blocking socket to the server |
| chat protocol, `5/chat.c` | none | sending and receiving a length and that many bytes, trimming, the queues | used by both |
| chat client program, `5/chat_client_exe.c` | none of its own | a poll loop on stdin and the library | the client library |
| chat server program, `5/chat_server_exe.c` | none | opens the port and ends: its loop is not compiled, see section 6 | the server library |
| coroutine library, `1/libcoro.c` | list of coroutines, the running one, `is_sched_waiting`, their contexts | `coro_new`, `_yield`, `coro_sched_wait`, `coro_delete` | signals, `sigsetjmp` |
| coroutine merge sort, `1/solution.c` | files and a mark for those taken | sorting with a yield when a quantum is over, merging | the coroutine library |
| shell parser, `2/parser.c` | a buffer | `parser_feed`, `parser_pop_next` | the shell |
| shell execution, `2/solution.c` | exit flag and code, redirected stdout | pipelines, `&&`, `\|\|`, `cd`, `exit`, `>`, `>>`, `&` | the parser; `fork`, `pipe`, `waitpid` |
| heap leak tracker, `utils/heap_help/heap_help.c` | table of live allocations, initialisation flag and lock | `malloc`, `calloc`, `realloc`, `free`, `strdup`, `getline`, `getaddrinfo`, `freeaddrinfo` wrapped | every thread of the tested program |
| tests and `utils/unit.h`, `bonus/`, `examples/` | none worth a model | - | - |

What is hard in each, and what makes it correct:

- **Thread pool.** Workers, pushers, joiners and a deleter meet in every order;
  tasks are pushed again after a join, addresses are freed and reused, condition
  variables wake without reason. Correct: every push runs once, a joiner gets
  the result of that push, nobody touches freed memory, deletion loses no task,
  no wake-up is lost, every call returns.
- **Timed join.** Two clocks and arithmetic on two-field times. Correct: it
  returns, not long before and not after a look at the clock that shows the
  time is over.
- **File system.** Sequential, but a long sequence of legal calls: deletion of
  open files, re-creation under the same name, block borders, stale positions.
  Correct: it behaves like flat files.
- **Chat.** Processes that block on each other's sockets, die at any moment,
  and share a protocol in which nothing tells a name from a text. Correct: what
  a client receives is attributed, in order, complete; bytes may be cut anywhere.
- **Coroutines and merge sort.** A switch while an array is half merged, or between
  finding a file and marking it; coroutines that end while a round goes through
  the list. Correct: nobody is resumed on a dead stack, each file has one sorter,
  the result is the inputs' numbers in order.
- **Shell.** Input cut in the middle of a token, errors to recover from, processes
  that inherit pipe ends, lines in the background beside others. Correct: a text
  means the same however it is cut, a line executes what it says, and
  everything ends.
- **Leak tracker.** It is called from inside itself during its initialisation, by
  threads that hand blocks to each other, and after exit began. Correct: it
  never aborts a correct program, and its count and report are exact. A `realloc` that
  fails is the one thing that breaks both.

## 2. Modules

| module | what it is |
|---|---|
| `ThreadPool` | the pool, its workers and its callers; one action per critical section |
| `ThreadPoolProps` | the properties, the refinement mapping to `TaskPool`, the inductive invariant |
| `TaskPool` | what a pool promises: tasks start in the order they were pushed, once per push, and only finished ones are freed |
| `ThreadPoolProofs` | its safety, proved, and that it implements `TaskPool` |
| `TimedJoin` | one `thread_task_timed_join` with its deadline and the two clocks |
| `TimedJoinProofs` | proof of what makes it early, and that it misses no timeout |
| `UserFS`, `UserFSProps` | the file system, one action per API call, and its properties |
| `FlatFS` | a file system without blocks: names, flat contents, descriptors with a position; `Replaces` says whether `UFS_CREATE` replaces a file, as the code does, or leaves it, as the header says |
| `UserFSRefinement` | the mapping from `UserFS` to `FlatFS` |
| `UserFSProofs` | proofs about files, names, descriptors and their counts, and about blocks, positions and bytes |
| `UserFSRefinementProofs` | proof that the file system implements `FlatFS` |
| `Chat`, `ChatProps` | server, clients and connections, one frame per step |
| `ChatProofs` | proofs that messages keep their author and text, and their order |
| `ChatWire` | one connection byte by byte: feed, lengths, partial sends and receives |
| `Coroutines` | the list of coroutines and the scheduler |
| `CoroSort` | the merge sort on top of it, with its properties |
| `CoroProofs` | proofs about the scheduler under the merge sort |
| `SeqLemmas` | facts about sequences without repetition, removal, concatenation, folds and least numbers that the proofs share |
| `ShellParser` | `parse_token` and `parser_pop_next` as operators on sequences of characters |
| `ShellText` | what a text means, without a tokeniser: characters by their quotes, words, lines by their grammar; and which texts the parser reads in its own way (`Clear`) |
| `Shell`, `ShellProps` | the shell: reading, parsing and executing lines, its processes and pipes; the properties |
| `HeapHelp`, `HeapHelpProps` | the leak tracker under concurrent callers; the properties |
| `HeapHelpProofs` | proof of the properties of its passing run |
| `MC...` | small sets for TLC and symmetries: file addresses are interchangeable, and so are two callers each with its own task |

A definition whose name ends in a description (`Decrement_missing`,
`Trim_left_only`) and whose comment says "Mutant" is a plausible mistake in the
definition that follows it. With it in place of that definition the property
named in `PROJECT.json` fails; it is part of no specification.

### 2.1 Thread pool

*State.* The fields of `struct thread_pool` are variables of their own, the flags
of tasks are sets of tasks, `queue` is the list as a sequence. `wpc` and `wtask`
are the program counter and the local task of a worker, `upc` and `utask` those
of an application thread inside a call. A result is represented by the number of
the push that produced it (`wres`, `result`, `got`), which is all the properties
distinguish. `gen` (pushes), `runs` (executions) and `run0` (what `run_threads`
contained when `malloc` returned) are ghosts.

*Granularity.* Every field of the pool is accessed with `pool->mutex` held and
nothing blocks in such a section, so a section is one action (`Fetch` is lines
75-88, `Decrement` 98-100, `thread_pool_push_task` 169-187). Taking `pool->mutex`
is never visible to other threads other than as the order of sections. The mutex
of a task is visible because the worker keeps it between `finished = true` and
the unlock (`Publish`, `Signal`), and because callers read the flags without it.
Executing the task's function is one step; `Load`, `Run` and `Decrement` separate
what happens before and after it.

*Callers* keep to `4/thread_pool.h`: they push tasks that are new or joined, do not
use a task after they detached it, do not push, detach or delete a task that
another thread is inside a call on, and leave a pool alone that is being
deleted. `Handles[u]` says which tasks thread `u` uses; `DetachWhen` when it detaches.

*Environment.* `pthread_cond_wait` may return without a signal; a signal wakes one
waiter and is lost without one; `malloc` leaves anything of `GarbageInts` in
`run_threads`, which `thread_pool_new` does not initialise. `pthread_create` succeeds:
its failure is not looked at by the code and would leave a count with no thread.

### 2.2 Timed join

`ThreadPool` lets a timed join give up whenever the task is not finished.
`TimedJoin` adds why: `Deadline` is lines 250-252 (no carry from `tv_nsec`
into `tv_sec`; a timeout that does not fit in `long` becomes `LONG_MIN`), `bigger`
is the comparison, and `pthread_cond_timedwait` goes by the real-time clock while
the loop goes by the monotonic one; `Offsets` is their difference, which is negative when the
real-time clock was set back. `NSEC` ticks make a second.

### 2.3 File system

`fs.list` is `file_list`, `fs.at[f]` the `struct file` at address `f`; addresses are reused
after `free`. A file's blocks are a sequence of memory and `occupied`.
`file_descriptors` and `file_descriptor_count` are as in the code. `Written`,
`ReadFrom` and `Resized` are the block loops in closed form or as folds. A step that
dereferences NULL or copies beyond a block sets `status` to `"crashed"`. `last`
is what the last call returned. The failure of `malloc` is handled nowhere and not
modelled.

`FlatFS` has names, byte sequences and descriptors, and no blocks, counts
or lists. The mapping concatenates the occupied bytes of the blocks
(`Data`), takes `find_file` for the directory and the slots in use for the handles, and
`Replaces` is TRUE: what is shown is what the code does, and `UserFS_create` shows that it is
not what `3/userfs.h:32` says.

### 2.4 Chat

Each of the server and the clients is a process; a call of `update` is a sequence of
steps because every send and receive may block. `job` is the server's update
in progress (event, peers still to be sent to), `cli[c].at` and `.todo` a client's.
`net[c]` is a connection: frames under way in both directions and how each end was
closed. The clients in `Programs` are `chat_client_exe`: they print what they received
before they wait again (`Flushed`) and end at the first error (`Stops`); other clients
call the library in any order. `Hangup` distinguishes an orderly end from a reset (data unread);
a second send after either may raise SIGPIPE, which ends the process.
`chat_server_remove_client` copies one element too many (line 87): the model lets
the server survive or die there unless the peer is the only one. Names are not empty, a
client connects once. Who has fed a line and its number stand for the text.

`ChatWire` is what a frame abstracts: `FeedChar` is a round of feed's loop,
`SizeBytes`/`DecodeSize` the four bytes of a length, which are read back as `char`,
`SendPart`/`RecvPart` system calls that handle a part. `msg_buff.size` is never set
(`size == 0`), so the test for more room wraps around in `size_t`.

### 2.5 Coroutines and merge sort

A context saved by `sigsetjmp` is where the coroutine's program goes on, so the
library is the list, the running coroutine, `is_finished`, `is_sched_waiting` and the
switch counts; how a signal handler on an alternate stack makes the first context is
left out. `CoroSort` composes it with the program: `sorting[l, r]` is the recursion
unrolled into the merges and the calls of `to_yield` it makes, in order, and a
coroutine works through that plan one step at a time. Whether a quantum is over is
nondeterministic. The array has one element more than the file: `sorting` is called
with `r = size` and takes it along (line 182); what it holds at first is up to the heap.

### 2.6 Shell

`ShellParser` works on characters because cutting them apart is what is hard:
`TokenStep` is one round of the loop of `parse_token`, `PopStep` one of the loop of
`parser_pop_next`, and both are run over the buffer by recursive functions. Letters
stand for all characters without a meaning. An assertion that fails is the result
`"abort"`.

In `Shell` an interpreter is a process that executes a line: 0 is the shell itself, the
others are its forks for lines in the background. `construct_tree` gives the tree of
`&&` and `||`, `frames` is the recursion of `execute_node` through it. A pipeline
creates its pipes, forks child by child and closes its ends step by step, while the
children set up their own ends and run their commands; a process holds a set of
pipe ends, a pipe has room for `PipeRoom` items, a write without a reader is SIGPIPE and
a read without a writer the end of file. `popped`, `ran` and `wrote` record what was
parsed, executed and written.

What a text has to be parsed into comes with it (`input.results`), from one of three places.
For scripts it is the lines they were written from, with words bare and escaped, in `"..."` or
in `'...'`. For short texts it is what `ShellText` says, which looks at each character
and the quotes around it, at words as runs of characters and at lines as sequences of tokens, and
shares no step with the tokeniser. The texts that are not `Clear` are those that
the parser is known to read in its own way: an operator inside `'...'`, characters right behind
a closing quote, `#` inside a word, an empty word, a line that begins with a redirection or `&`
or ends in a redirection. For these the results are the parser's own for the uncut text, so that
only the cuts are tested; what the parser does with them is in section 5.

### 2.7 Leak tracker

A call is the list of the steps it still has to do (`todo`): what libc does to the
heap, and `trace` and `untrace` at the depth at which they are made, because wrappers
called inside others are not traced. A section under `allocs_lock` is one step;
`alloc_trace_new` has two, with a record in the thread's hands between them. libc
is modelled from its use: any free address, `realloc` in place or to another address.
`malloc` may fail, and so may `realloc`: it returns NULL and leaves the block in use
(the fourth disjunct of `LibcRealloc`), which the wrapper takes for a block that was freed (line
556). `lost[a]` counts the records of block `a` that were removed so while it stayed in use.
The program is correct: it frees what it got, once, with the matching function, also after a
`realloc` that failed. `NeverAborts`, `BooksBalance` and `ReportExact` say what remains true then, and
`BadMemoryOnly`, which is what the assertion of line 234 is for, is violated.
`NeverStuck` says that nobody who asks for `init_lock` finds it taken, and the run looks for
deadlocks besides.

## 3. Runs

| run | instance | shows |
|---|---|---|
| `ThreadPool_safety` | 2 callers with a task each, 2 workers, queue of 1, 2 pushes per task, `run_threads` 0 or garbage, detach when finished | `IInv`, `NoUseAfterFree`, `ExactlyOnce`, `DeleteLosesNoTask`, `NoLostWakeup`, `JoinReturnsFresh`, `RefusalsJustified` |
| `ThreadPool_live` | 2 callers with a task each, 2 workers, queue of 2, 1 push per task, fair threads | `PushedTaskFinishes`, `CallsReturn`, `ImplementsTaskPool` |
| `TimedJoin` | a second of 4 ticks, timeouts from a negative one to a second and a half and a huge one, a real-time clock that agrees with the monotonic one, is far ahead or behind | `EarlyHasACause`, `TimeoutNotMissed`, `TimedJoinReturns` |
| `UserFS_data` | 2 addresses for files of one name, blocks of 2 bytes, up to 3 bytes, 2 descriptors, resizes that grow | `BlocksSound`, `ImplementsFlatFS`, with files deleted and re-created while open |
| `UserFS_lifetimes` | one name, 2 addresses, 2 descriptors, failed opens, every kind of resize | `CountsExact`, `UniqueLiveName`, `ClampsFullTable` |
| `Chat` | 3 clients, two of them the program, one of which may leave; one feeds two lines, the server one | `Attribution`, `InOrderOnce`, `SameOrder` |
| `Chat_live` | 2 client programs and the server with a line each, one client may leave | `Delivered`, `UpdatesReturn`, `ProgramEnds` |
| `ChatWire` | 7 characters in pieces, bytes of 4 values, lengths of 2 bytes | `CutsDoNotMatter`, `Intact`, `AllArrive` |
| `CoroSort` | 3 coroutines, 2 or 3 files of up to 3 numbers, the int behind an array small or large | `SchedulerSound`, `RoundRobin`, `SortsAll`, `Ends` |
| `HeapHelp` | the main thread and one more, 3 addresses, batches of 2 records | `NeverAborts`, `BooksBalance`, `ReportExact`, `NeverStuck` |
| `Shell` | all texts of 4 characters, scripts of up to 3 lines, pipelines of 3 commands | `ParsesWhatIsWritten`, `MeansWhatItSays`, `NothingLeft`, `AllEnd` |

The last run, `ThreadPool_detach_race` (1 caller, 1 task, 1 worker, detach at any time), is expected to
fail: it shows that the code violates `NoUseAfterFree` there.

The other disagreements of code and documents have a configuration each that is not among the
runs. Each checks a property that a document, a comment or a test states and the code does not keep, and
TLC finds it violated:

| configuration | instance | violates |
|---|---|---|
| `ThreadPool_garbage` | as `ThreadPool_safety` | `RefusesOnlyTasks` |
| `TimedJoin_promises` | as `TimedJoin` | `NotTooEarly`, `NotTooLate` |
| `UserFS_create` | as `UserFS_data` | `CreateKeepsFile` |
| `UserFS_stale` | as `UserFS_data`, with resizes to less | `PosWithinFile` |
| `ChatWire_overrun` | pieces of up to two characters, any callers | `Accumulates` |
| `ChatWire_lengths` | a line whose length has a high bit | `Intact` |
| `CoroSort_bound` | as `CoroSort` | `KeepsNumbers` |
| `HeapHelp_realloc` | as `HeapHelp` | `BadMemoryOnly` |
| `Shell_promises` | the five texts of `MCBroken` | `ParsesWhatIsWritten`, `ErrorsDoNotCrash`, `ExitTerminates` |

Where there are several, `tlc -continue` goes on to the next after the first. Section 5 says
for each what it shows.

Each property is stated in words above its definition. Several are conjunctions of
named parts: `IInv` of those in section 4, `BlocksSound` of `TypeOK`, `Contiguous` and
`PosWithinFile`, `CountsExact` of `RefsExact`, `NoDanglingDescriptor` and `CountExact`,
`Attribution` has the chat's `TypeOK`, `Delivered` is `ClientsHeard` and `ServerHeard`,
`SchedulerSound` is `TypeOK`, `PlaceToReturn` and `ReapedOnce`, `SortsAll` has `SortedByOne`,
`BooksBalance` is `TypeOK`, `Balance` and `RecordsOnce`, `ParsesWhatIsWritten` has
`AbortsOnlyThen`, `MeansWhatItSays` has `OutputWhereAsked` and `NothingLeft` the shell's
`TypeOK`. What the bounds are for:

- *Thread pool.* Two workers and two callers are what every race in the code
  needs: two takers of one element, a joiner and a re-pusher, a deleter and a
  worker between decrement and publication. Two pushes give a task a second
  life; a queue of one place makes a push be refused. Where more would help, the
  proofs hold for any number.
- *Timed join.* Four ticks to a second give every combination of a carry and no carry;
  `MaxTime` lies behind every finite deadline.
- *File system.* Two blocks and a block size of 2 or 3 have every position of
  an access relative to a border. Two descriptors and two addresses allow a ghost,
  its successor of the same name and an address that is used again. Shrinking is left out
  of the refinement (`GrowOnly`) for the reasons in section 5, and is in `UserFS_lifetimes` and
  in the configuration `UserFS_stale`.
- *Chat.* Three clients are a sender and two that can disagree; more lines than
  one let messages overtake. `Capacity` holds all frames of the run, see section 5.
- *Wire.* Seven characters are two lines with spaces, or one long enough to have a
  high bit in its length if the spaces at its end were kept; two bytes of four values have the
  same carry as four of 256.
- *Coroutines.* Three coroutines are a first, a middle and a last of the list; with two
  or three files one of them finds nothing left. Three numbers and the one behind
  them make two levels of merges.
- *Leak tracker.* One thread moves a block with `realloc` while another gets its old
  address; three addresses allow that beside a third block, batches of two records
  are exhausted and refilled. Blocks are interchangeable.
- *Shell.* Every text of four characters of ten kinds (and so every shorter one), in pieces of every size,
  has each operator, quote, escape and comment cut at each place, and complete lines with two
  commands, a redirection or a quoted word among them. Scripts are written from lines that are given
  as records, in three ways of quoting, and have to be parsed back into them: all
  chains of three units with `&&`, `||` and pipes, pairs of lines with one in the
  background, redirections, and nine lines with mistakes, each followed by a correct one.
  Pipelines of three commands
  have a first, a middle and a last process; room for one item in a pipe makes
  writers block; the programs are one that succeeds, one that fails, one that
  writes for ever, one that reads one item and one that reads up to the end of file.

`CHECK_DEADLOCK FALSE` stands where the system may stop: a destroyed file
system, a chat in which everything was said, or whose server is gone, a program that
has ended. The pool and the timed join are checked for deadlock.

### Fairness

- `ThreadPool!FairSpec`: weak fairness of each worker and of each call that has
  begun. A thread that can run is scheduled, and task functions return. Nobody has to
  begin a call, and spurious wake-ups are not relied upon. Mutexes need no more:
  a task's mutex is held for one step that is always enabled.
- `TimedJoin`: time passes, the calling thread runs.
- `Chat`: weak fairness of the server's and of each client's steps (their
  programs call `update` whenever there is something to do), and strong fairness of
  `chat_server_update` for each event: `epoll_wait` with one event at a time takes
  the ready sockets in turn, so one that is ready again and again is served.
- `ChatWire`: weak fairness of the sender and of the receiver.
- `CoroSort`: one process in one thread, so weak fairness of `Next`: it goes on as long as
  it can.
- `Shell`: weak fairness of `Next` as well, although there are several processes. No step
  of this system can be repeated for ever (every process has a bounded program, and one
  that writes for ever blocks or gets SIGPIPE), so that some process going on is
  enough for `AllEnd`, and no process is preferred.

`CallsReturn` holds when no two threads join the same task (`OwnHandles` in this
run): the worker gives one `pthread_cond_signal`, and the second of two joiners
is never woken.

## 4. Proofs

A theorem holds for every value of the constants that the named assumptions of its
module allow; TLC evaluates these assumptions in every run. Each component has an
inductive invariant: none of the properties is kept by every step on its
own. There is one lemma per action, under it a step per conjunct the action can
disturb, and lemmas for the operators several actions use.

### 4.1 Thread pool (`ThreadPoolProofs`)

For any number of tasks, application threads, workers, places in the queue and
pushes, and for anything `malloc` may leave in `run_threads`:

| theorem | states |
|---|---|
| `Invariance` | `IInv` holds in every reachable state |
| `TypeCorrect` | `TypeOK`; the array of threads is not overrun |
| `OnePlace` | `TaskInOnePlace` |
| `MemorySafety` | `NoUseAfterFree` |
| `PushRunsOnce` | `ExactlyOnce` and `FinishedHasResult` |
| `PoolDeletionSafe` | `DeleteLosesNoTask` |
| `JoinResultFresh` | `JoinReturnsFresh`, an action property |
| `RunCount` | `RunCountExact` |
| `NoWakeupLost` | `NoLostWakeup` |
| `DeleteRefusalsJustified` | `RefusalsJustified`, an action property |
| `PoolImplementsTaskPool` | `ImplementsTaskPool`: the pool implements `TaskPool` |

*Assumptions.* Those the modules name (limits are positive, `None` is no
task, garbage is an integer) and that callers detach finished
tasks only (`DetachWhen # "any"`), which `ThreadPool_detach_race` shows to be needed.
Even then a worker may be between publication and unlock when the detach comes:
the call takes the task mutex in line 293 and so waits for it. `NoLostWakeup` and
`RefusalsJustified` speak of pools whose `run_threads` started at 0.

*Argument.* That a detached task
is not in a worker's hands, for example, needs that a worker's task has neither
been joined nor detached, which needs that both happen to finished tasks only, which
needs that a worker with a finished task holds its mutex. `IInv` is the
conjunction of

- `TypeOK`; `LocalsInv`: a thread has a task exactly while its program counter says so;
- `TaskInOnePlace`; `QueuedInv`, `HeldInv`: which flags a queued or held task has;
- `FlagsInv`: joined or detached implies finished implies pushed; `PushedInv`: a
  pushed task is finished, queued or held, so that an empty queue and no worker
  mean all is done;
- `CallInv`, `DetachInv`: what a call in progress may rely on;
- `RunsInv`, `ResultInv`: one execution is missing exactly while a push waits for it,
  and a worker's result is that of the latest push;
- `ThreadsInv`, `DeletionInv`: which threads exist, and that a pool which is shut
  down has an empty queue.

`RunCount` adds that a worker enters and leaves
`Counted` together with the counter (by the library's facts on cardinalities).
`NoWakeupLost` uses `RunCount` for a pool whose counter started at 0: a push
creates a worker, wakes one, or finds one that is busy, and a busy worker looks at
the queue before it waits. `DeleteRefusalsJustified` uses it too: a counter that is not 0 means a
worker that has taken a task and not published it. For the refinement each action is
shown to be one step of `TaskPool` or to leave pool, queue and the phases of the tasks alone;
`PhaseOf` depends on where a task is, so these lemmas need `IInv`.

### 4.2 Timed join (`TimedJoinProofs`)

| theorem | states |
|---|---|
| `TimeoutEarlyCauses` | `EarlyHasACause`: a timeout is early only when it is huge, or when the fractions of start and timeout add up to a second, and then by less than a second |
| `TimeoutSeen` | `TimeoutNotMissed`, an action property |

For any length of a second, any timeouts, the huge one included, and any offset between the clocks. That
the two causes do occur is what `TimedJoin_promises` shows. `TJInv` says
that the deadline of a call in progress was computed from its start and its timeout. The rest is arithmetic:
`BiggerThanDeadline` compares two-field times without a carry with the sum, `HugeDeadline` treats
the timeout that becomes `LONG_MIN`.

### 4.3 File system (`UserFSProofs`, `UserFSRefinementProofs`)

| theorem | states |
|---|---|
| `BooksHold` | the inductive invariant `FSInv` |
| `DescriptorsAndFilesAgree` | `CountsExact`: references are the descriptors to a file, the count is that of the slots in use, no descriptor points at a freed file |
| `NamesUnique` | `UniqueLiveName` |
| `DataHolds` | `DataInv`: types, through every write, read and resize at every position |
| `ShapesHold` | `Shapes`: while files only grow, each has the blocks its size asks for and no position is behind the end |
| `BlocksAreSound` | `BlocksSound`: types, full blocks, positions inside the file |
| `FullTableClamped` | `ClampsFullTable`, an action property |
| `FSImplementsFlatFS` | `ImplementsFlatFS`: while files only grow, every call is one of `FlatFS` with a `UFS_CREATE` that replaces |

For any names, addresses, block size, contents, flags and number of calls. While the file system is
up, `FSInv` is

- `FilesOK`: no file is twice in the list; `NamesOK`: one live file per name;
- `TableOK`: the table is one array and a free slot has no file; `CountOK`: the count
  and the free slots add up to the table;
- `RefsOK`: references are counted exactly, slots point at listed files, and a deleted file is in
  the list only as long as it is referenced.

The parts need each other: `close_file` frees a file at its last reference, which is safe only if the count is
exact, and the count stays exact when an address is used again only if nothing pointed there any
more. `UnlinkKeeps`, `CreateKeeps`, `OpenKeeps`, `CloseKeeps` and `BlocksKeep` state what one step of an API call does to the
invariant, and the actions are composed of them: `ufs_open` with `CREATE` unlinks, creates and
opens in one call.

*Blocks.* `DataInv` adds to `FSInv` what structs and slots hold (`FilesData`, `SlotsData`, `SlotsAre`),
the bounds `Bounded` and the sets of error codes and states. `Shapes` is `Sound`, every listed file
of E bytes consists of blocks of which the i-th has the i-th share of E (`Shape`), and
`Within`, no position is behind the end. `Shape` fixes all of `occupied`, so `WrittenIs` and
`ResizedIs` say in one formula what a write at any position and a resize leave. The loops of the code are
folds in the model; the provers cannot use the induction theorems, so what a fold computes is
taken step by step with a function that holds all intermediate values (`FoldExists`, `OccIs`, `ReadIs`),
and the first step that would go wrong is excluded (`Least`, `Induct`). `ReadRound` is one round of the loop
of `ufs_read`; `ReadShape` follows: exactly the bytes between the position and the end or the size asked for,
and no copy leaves a block. `Shapes` needs `GrowOnly`, since the code breaks it otherwise (section 5);
`DataHolds` and `FullTableClamped` do not: with every slot in use `CountOK` makes the loop
of line 362 reach all of them. `BlocksAreSound` also assumes that there are finitely many addresses, because `TypeOK`
counts them.

*Refinement.* `RefInv` is `DataInv`, `Shapes`, `Neat` and no crash. `Neat` is what the bytes of `FlatFS` need
beyond the shape: the memory of a block behind its bytes is zero (`Clean`), so that a resize
that adds bytes adds zeros; files that are not listed have no blocks; listed files have
names. `FlatBytes` says that byte x of a file is byte x of `Flat`, its blocks one after the other, and
`FlatWritten`, `FlatRead` and `FlatResized` carry each operation over. On the other side `FindIs` makes
`Dir` the names of the visible files, `HandleGranted`, `HandleClosed` and `HandleMoved` relate slots to handles, and
`ReachableIs` shows that the files `FlatFS` keeps, those with a name or a handle, are exactly the
listed ones: here exact reference counts are what makes the deletion of an open file right.
There is one lemma per call (`OpenFlat`, ..., `ResizeFlat`), and `ResizeFlat` shows that making a file bigger moves no
position, of a namesake either (`GrowMovesNone`). The only assumption is `GrowOnly`.

### 4.4 Coroutines and merge sort (`CoroProofs`)

| theorem | states |
|---|---|
| `CoroInvariant` | the inductive invariant `CoroInv` |
| `SchedulerIsSound` | `SchedulerSound`: control returns to somebody alive, each coroutine is reaped once |
| `RoundsAreFair` | `RoundRobin`: numbers of switches differ by at most one and the rounds that were cut short |
| `OneSorter` | `SortedByOne`: no two coroutines sort one file |

For any number of coroutines and files, whatever the files hold and whichever quanta are over when. That
there is a file at all (`InputAssumption`) is what `main` asks for (`1/solution.c:226`). `CoroInv` is
`CoroTypes`; `Whereabouts`: every coroutine is in the list or reaped, and at most one that has finished is not
reaped; `Creation`: none runs while `main` creates them; `InRounds`: not counting the current round, switches fall along the list and
by no more than the number of finished coroutines; `FilesThere`; and
`Claims`: a coroutine's file is marked, and is nobody else's. `RoundRobin` cannot be proved without `InRounds`,
which takes apart the current round from those that are over.

### 4.5 Chat (`ChatProofs`)

| theorem | states |
|---|---|
| `ChatInvariant` | the inductive invariant `ChatInv` |
| `MessagesAttributed` | `Attribution`: whatever a client receives is a line that somebody else fed, under the name of who fed it |
| `MailInvariant` | the second inductive invariant, `MailInv` |
| `LinesInOrder` | `InOrderOnce`: what a client receives of one author are consecutive lines, in their order |
| `SameForAll` | `SameOrder`: two clients agree on the order of the messages that both have received |

For any number of clients and lines and any capacity of the connections, with clients and server that
die at any moment. Nothing on the wire marks a frame as a name or a text, so the invariant has to
say where in every queue which of them comes next:

- upstream, for each client whose server has not closed, one of five: `NothingSaid`; its name is in the first
  message of its queue (`NameQueued`), the next frame it sends (`NameNext`), the first frame
  of the connection (`NameSent`), or in the table of peers (`NameKnown`); what
  follows the name are lines of this client;
- downstream, for each client that has not closed: the author it has read and the frames on their
  way are alternately an author and a line of this author (`Alternates`), and they end where
  the update in progress goes on, with an author, or with a line for the one peer that has got
  its author already (`Meets`);
- the server: its table and backlog name connected clients once each (`Table`, `Connected`), the event of the
  update in progress is still there (`Event`), and it owes each peer at most one
  message, of somebody else (`Errands`);
- each client by itself (`ClientOK`): what it has received is in `Good`.

*Order.* `ChatInv` says of what kind each frame is, but not which line it carries. `MailInv` adds
two histories that no variable of the code holds, so it says that they exist: `H[c]`, the messages the server
has addressed to client c so far, and `g[p]`, how many lines of p it has taken. `Mail` relates them to the queues:

- `Told`: each `H[c]` has no gap in the lines of an author (`Successive`), and any two agree on
  the order of what is in both (`Agree`);
- `Follows`: what c has received is the beginning of `H[c]`, and the frames that come to it are
  the next ones; `Rests`: the errands of the update in progress are the remainder, so that
  nothing is left of `H[c]` when it has none for c (for connections the server has not lost);
- `Newest`: the last line of p in `H[c]` is line `g[p]`; a client that is no peer has been told nothing;
- `Saying`, `ServerSaying`: the queue, the call in progress and the connection of a party hold its lines from
  `g[p] + 1` to the last one fed, one after the other, behind its name if the server does not have it yet.

Only two steps change the histories, the server taking a client's text or a line of its own
(`Broadcast`): line `g[p] + 1` is appended for all peers whose connection is not lost. It is new, so the lists
still agree; it follows the last line of p in each list, by `Newest`, so no gap appears. All other
steps move frames from one place to the next, or lose them with a connection for good, which is why
`Rests` and `Newest` ask for an open end while `Follows` does not. When the server is gone only `Told` and `Follows` are left.

### 4.6 Leak tracker (`HeapHelpProofs`)

| theorem | states |
|---|---|
| `HeapInvariant` | the inductive invariant `HeapInv` |
| `NeverAbortsCorrectly` | `NeverAborts`: in a correct program an assertion fails only when a block comes back whose record a failed `realloc` has removed, or for a `strdup` after main's exit |
| `InitNeverStuck` | `NeverStuck`: whoever asks for `init_lock` finds it free |
| `BooksAgree` | `BooksBalance`: list, `alloc_count` and records agree with the heap, up to what the calls in progress have still to do and the records that failed `realloc`s removed |
| `ReportIsExact` | `ReportExact`: a report without late threads counts the blocks in use that have not lost their record to a failed `realloc`, and as leaks those of them the program has not freed |

For any finite set of addresses and of threads and any size of a batch of records. The
assumptions only say that both sets are finite and that `Main`, the static allocation and
`None` are not among them. `HeapInv` is the conjunction of

- `InitInv`: the first call initialises, while main is the only thread, and `init_lock` is
  held exactly while it does;
- `ThreadInv`: which steps each call may still have to do (`CallOK`, one disjunct per place a
  call can be in), who has ended, and when main is in exit;
- `OwnerInv`: a block in use belongs to at most one of an address list, the program and a call;
- `RecordInv`: records were issued by `alloc_batch`, which only grows, and each is in one
  place: the pool, the list, or a thread between the two halves of `alloc_trace_new`;
- `BooksInv`: for each address, entries of the list and calls that have still to trace it or have
  just untraced it, together with the records lost to failed `realloc`s, are as many as the block
  itself and the calls whose `realloc` has left it;
- `InternalInv`: as long as no address was handed out under a `realloc`, an
  internal entry is for memory the program never gets, and any other for memory it has or will get;
- `ReportInv`: what the report counted is what the list still says; and `NeverAborts`.

*Argument.* An abort in `alloc_free` means that a call untraces an address without an entry. Its own
contribution to `BooksInv` is positive on the right-hand side, so there is an entry unless one was lost
(the first case of `NeverAborts`), perhaps that of
another thread which got the address in the meantime: the books balance in sum and not entry by
entry, which is why `BooksInv` counts and why the second half of `ReportExact` needs
`~reused`. `OwnerInv` bounds the right-hand side, since two threads never own one block.
`Frees` and `Alike` gather what a step of libc or of the tracker does to calls, and
`TakeRecordKeeps`, `InsertKeeps` and `alloc_freeKeeps` what it does to the records; `BooksStep` is
`BooksMove` for the steps in which no record is lost. For the report the
sequence of entries is mapped one to one to the blocks in use (`FS_Bijection`).

### 4.7 Only model-checked

- *Liveness* under fairness: `PushedTaskFinishes`, `CallsReturn`, `TimedJoinReturns`, `Delivered`, `UpdatesReturn`,
  `ProgramEnds`, `AllArrive`, `Ends`, `AllEnd`. Out of the prover's reach.
- *What loops over data compute*: that `SortsAll` sorts, `CutsDoNotMatter` and `Intact` of the wire, whose
  messages are cut in every way, and `ParsesWhatIsWritten`, `MeansWhatItSays`, `NothingLeft` of the shell,
  whose parser is a recursive function. Proving them needs induction over sequences of
  characters or numbers, which for the folds of the file system was done by hand and is not done for these.

## 5. What the code does differently from its documents

Each disagreement with a sentence of the repository that the models reach has a configuration with which
TLC finds the property that states the sentence violated (section 3):

- `ThreadPool_garbage`: `thread_pool_new` does not set `run_threads` (lines 113-135), so that
  `thread_pool_delete` may return `TPOOL_ERR_HAS_TASKS` for a pool nobody has pushed to.
  `thread_pool.h:69`: "pool still has tasks".
- `ThreadPool_detach_race`: `thread_task_detach` reads `finished` without the mutex
  (line 296). If the worker published just before, the task is freed while the worker
  still has to signal and unlock. `thread_pool.h:166`: "If it is already finished, then
  just delete it."
- `TimedJoin_promises`, `NotTooEarly`: no carry goes from `tv_nsec` into `tv_sec` (line 252), and a
  timed join gives up almost a second early; a huge timeout overflows `long` (line 251) and is over at once.
  `4/test.c:269`: "didn't exit too early"; `thread_pool.h:134`: "For an infinite timeout pass infinity or
  DBL_MAX or just something huge." `NotTooLate`: when the real-time clock, by which the wait is timed
  (line 262), is behind the monotonic clock of the deadline, the wait lasts longer than the timeout.
  `thread_pool.h:132`: "wait no longer than the timeout".
- `UserFS_create`: `UFS_CREATE` replaces an existing file (line 167). `userfs.h:32`: "If the flag
  specified and a file does not exist - create it."
- `UserFS_stale`: the loop of `ufs_resize` over descriptors stops at their count instead of the
  capacity, so one behind a hole in the table keeps a position beyond the end (line 362).
  `userfs.h:149`: "Opened file descriptors behind the new file size should proceed from the new file
  end."
- `ChatWire_overrun`: a line continued in a second call of feed is written behind the buffer
  (`chat_client.c:250`). `5/test.c:303`: "data must be accumulated".
- `ChatWire_lengths`: a byte of a length with its highest bit set is negative when
  `chat_message_recv` puts the length together (`chat.c:155`). `5/task_eng.txt:31`: "the peers should return
  'msg' from pop()".
- `CoroSort_bound`: the element behind the array is sorted with the numbers (line 182), and a
  smaller one takes the place of the largest. `1/task_eng.txt:8`: "Each file should be sorted, and then
  results should be merged".
- `HeapHelp_realloc`: a `realloc` that fails makes the tracker forget a block in use (line 556), whose
  `free` trips the assertion "freeing bad memory" (line 234).
- `Shell_promises`, `ParsesWhatIsWritten`: operators keep their meaning inside `'...'`
  (`parser.c:205` asks for `"` only), against the test of `2/parser_test.c:128-142`.
- The same: a closing quote ends the word (`parser.c:167`): `"t"t` is two words.
  `2/task_eng.txt:26`: "print all the same what would be printed by a real terminal like /bin/bash".
- The same: a redirection without a file name takes the next line with it (`parser.c:416`).
  The comment above: "Try to skip the whole current line."
- `Shell_promises`, `ErrorsDoNotCrash`: a line that is `&` alone, or begins with `>`, fails an assertion (`parser.c:398`).
  The same comment: "can't just crash here because of that".
- `Shell_promises`, `ExitTerminates`: lines that were read together with `exit` are executed, and may undo it
  (lines 268-289). `2/task_eng.txt:41`: "'exit' - terminate the shell."

The passing runs state what remains: `EarlyHasACause` names the causes of an early timeout, `NeverAborts`,
`BooksBalance` and `ReportExact` count the records lost to `realloc`, `SortsAll` keeps the numbers when none
behind an array is smaller, `MeansWhatItSays` takes the exit of the last line; `GrowOnly`, `CallerFits` and
`SafeLengths` keep callers away from the rest, and so does `Clear` for the texts of the shell.

Others were met while modelling, which no sentence contradicts or whose cause is not in the models:

Thread pool: a task detached before it is finished is never freed; a thread is
created only when `cnt_threads = run_threads`, so with garbage in `run_threads` perhaps
never; `thread_task_is_running` says "pushed" and stays true; with two joiners
of one task one may sleep forever; when the real-time clock
is ahead of the monotonic one (it is, except right after 1970) the wait returns at once
and the loop spins until the deadline.

File system: `ufs_resize` to 0 dereferences NULL (line 351); it compares names, so descriptors of a deleted
namesake are moved as well (line 362); a file made smaller and bigger again shows its
old bytes; a failed open keeps its slot; `ufs_destroy` leaves the files.

Chat: received messages point to the name of a peer
that may be removed; `chat_server_remove_client` copies too much; SIGPIPE is not handled;
a failed connect leaves the client unusable; an empty name is taken for an error; since
every socket blocks, a server and a client that wait for room in each other's
buffers wait forever (`UpdatesReturn` fails when `Capacity` is small); the deletion
of the server does not close its peers' sockets.

Coroutines and sort: a coroutine that ends cuts the round short, and the next one starts at the head
again; a file that cannot be opened is not noticed, one with something else than
numbers is read for ever.

Shell parser: an empty quoted word, and a backslash and a newline at the end of a word, fail an
assertion (`AbortsOnlyThen` lists what does); `#` inside a word begins a comment.

Shell: a command that cannot be executed returns 0 (line 65); `exit` in a pipeline ends
only its process; nobody waits for lines in the background, their processes
stay zombies until the shell ends; the text of an error message that stdio has not written
yet is copied by a fork and may appear more than once or in a redirected file (lines
247, 274; stdio buffers are not in the model).

Leak tracker: an address that is
handed out again between the `realloc` and the removal of its record costs the wrong
one of two records, so that the report may blame the wrong caller (line 552; `reused` in the
model); a `strdup` in a thread that outlives main's exit is refused by an
assertion (line 511). The race of two threads in the initialisation, whose loser would
fail the assertion of line 482, is not reached, since creating the second thread
allocates first.

## 6. Not modelled, and why

- Chat server program: `chat.h:4` defines `NEED_SERVER_FEED`, and `chat_server_exe.c` has its
  loop only without it: as built it opens the port and ends.
- Tests, benchmarks (`bonus/`) and lecture examples: no state or logic of their own
  (`lecture_examples/4_signals/12_libcoro.c` is an older copy of the coroutine library).
- Memory management inside the programs (what `node_free`, `command_line_delete` or
  `works_delete` free), failing `malloc`, `fork`, `pipe` and `pthread_create`, which the code
  does not look at, and stdio buffers.

## 7. Plan

In this order, the most important behaviour first:

1. `ThreadPool`, `TaskPool`, `TimedJoin`, `UserFS`, `FlatFS`, `Chat`, `ChatWire` with their
   runs, and the proofs of `ThreadPool`. *Done.*
2. `Coroutines` with `CoroSort`, `ShellParser` with `Shell`, `HeapHelp`, and the client program
   in `Chat`. *Done.*
3. Proofs: that `ThreadPool` implements `TaskPool`; `CountsExact` and `UniqueLiveName` of
   `UserFS`; the bounds of `TimedJoin`; the scheduler of `Coroutines`; `Attribution` of `Chat`. *Done.*
4. Proofs: all properties of `HeapHelp`; `InOrderOnce` and `SameOrder` of `Chat`; the blocks and
   positions of `UserFS`, and that it implements `FlatFS`. *Done.*

Beyond the prover: liveness under fairness, and what recursive definitions compute
for every input; these stay with TLC.

## 8. How to run

    tlc -config ThreadPool_safety.cfg MCThreadPool     # likewise for the other runs
    tlc -continue -config Shell_promises.cfg MCShell   # and for the other configurations of section 3
    tlapm ThreadPoolProofs.tla                         # likewise TimedJoinProofs, SeqLemmas, UserFSProofs,
                                                       # UserFSRefinementProofs, CoroProofs, ChatProofs,
                                                       # HeapHelpProofs

The module of a run is the `MC` module of its component. Runs take between a few
seconds and three minutes, proofs up to ten.
