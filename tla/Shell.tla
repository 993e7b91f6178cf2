------------------------------- MODULE Shell -------------------------------
(***************************************************************************)
(* 2/solution.c: the shell reads its input piece by piece, feeds the       *)
(* parser, and executes every line the parser gives.  A background line is *)
(* executed by a fork of the shell that runs the same code, so that there  *)
(* may be several interpreters; 0 is the shell itself.                     *)
(*                                                                         *)
(* The kernel is modelled from its use: processes with the pipe ends they  *)
(* hold, pipes of PipeRoom items, SIGPIPE, and wait.  fork, pipe, dup2 and *)
(* open succeed, nobody sends other signals, and no command reads the      *)
(* shell's own input.  A command is what Programs says of its first word;  *)
(* an unknown one fails in execvp and exits with 0 (62-65).                *)
(***************************************************************************)
EXTENDS ShellParser, Integers, FiniteSets, TLC

CONSTANTS
    Inputs,     \* the inputs: [text, sizes, results], where sizes are what a read may
                \* give (at most buf_size) and results is what parsing has to find
    Programs,   \* what commands do: a function from words to [takes, gives, code]
    Numbers,    \* what atoi makes of a word: a function from words to Int
    Exit, Cd,   \* the words `exit' and `cd'
    PipeRoom,   \* the items a pipe holds
    All         \* takes All: reads up to the end of file.  gives All: writes for ever

ASSUME ShellAssumption == /\ \A in \in Inputs : in.sizes \subseteq 1..1024
                          /\ PipeRoom \in Nat \ {0} /\ All \in Nat
                          /\ Exit \notin DOMAIN Programs

VARIABLES
    input,      \* the input of this run, never changed
    fed,        \* how much of it has been read
    buffer,     \* the parser's buffer
    popped,     \* history: what parser_pop_next gave, in order
    main,       \* main's [pc, exit, program_result]
    interp,     \* interp[i]: interpreter i, executing a line
    proc,       \* the other processes: <<i, k, "child" or "command">> for command k
                \* of the pipeline interpreter i executes
    pipe,       \* pipe[q]: the items in pipe q = <<i, k>>
    ran,        \* history: ran[n] is the pipelines executed for popped[n]
    wrote       \* history: the <<n, where>> such that line n has output there
vars == <<input, fed, buffer, popped, main, interp, proc, pipe, ran, wrote>>

\* Where an output goes: to a pipe, to a file, or else to the terminal.
None == <<>>
Terminal == [pipe |-> None, file |-> None]

-----------------------------------------------------------------------------
(* construct_tree.                                                         *)

Leaf(cmds) == [op |-> "COMMAND", cmds |-> cmds, left |-> <<>>, right |-> <<>>]

\* The number of commands the pipeline that starts at k has.
cnt(exprs, k) ==
    CHOOSE c \in 1..Len(exprs) :
        /\ \A j \in 1..(c - 1) : exprs[k + 2 * j - 1].type = "PIPE"
        /\ k + 2 * c - 1 > Len(exprs) \/ exprs[k + 2 * c - 1].type # "PIPE"

\* The expressions the outer loop stops at: not the ones within a pipeline.
Visited(exprs) ==
    SelectSeq([k \in 1..Len(exprs) |-> k],
              LAMBDA k : /\ exprs[k].type # "PIPE"
                         /\ k > 1 => exprs[k - 1].type # "PIPE")

\* A command becomes the root or the right son of the operator that is; an
\* operator becomes the root, over what there is.  (Sons are sequences of
\* at most one node.)
construct_tree(exprs) ==
    LET Add(root, k) ==
            IF exprs[k].type = "COMMAND"
            THEN LET node == Leaf([j \in 1..cnt(exprs, k) |-> exprs[k + 2 * j - 2]])
                 IN  IF root = <<>> THEN <<node>> ELSE <<[root[1] EXCEPT !.right = <<node>>]>>
            ELSE <<[op |-> exprs[k].type, cmds |-> <<>>, left |-> root, right |-> <<>>]>>
    IN  FoldLeft(Add, <<>>, Visited(exprs))[1]

\* atoi of the argument of exit; 0 without one.
ExitCode(cmd) ==
    IF cmd.args = <<>> THEN 0
    ELSE IF cmd.args[1] \in DOMAIN Numbers THEN Numbers[cmd.args[1]] ELSE 0

-----------------------------------------------------------------------------
(* Pipe ends.  An end is <<q, "r">> or <<q, "w">>.                         *)

\* The ends a process has: the descriptors from pipe(), and what its stdin and
\* stdout are.
EndsOf(p) ==
    p.held \cup (IF p.in = None THEN {} ELSE {<<p.in, "r">>})
           \cup (IF p.out.pipe = None THEN {} ELSE {<<p.out.pipe, "w">>})

Held(end) ==
    \/ \E i \in DOMAIN interp : end \in interp[i].held
    \/ \E x \in DOMAIN proc : proc[x].st # "zombie" /\ end \in EndsOf(proc[x])

-----------------------------------------------------------------------------
(* main.                                                                   *)

Idle == [pc |-> "idle", n |-> 0, frames |-> <<>>, node |-> Leaf(<<>>), k |-> 0, held |-> {},
         out |-> Terminal, saved |-> <<>>, result |-> 0, exit |-> FALSE]

Init ==
    /\ input \in Inputs
    /\ fed = 0 /\ buffer = <<>> /\ popped = <<>>
    /\ main = [pc |-> "read", exit |-> FALSE, program_result |-> 0]
    /\ interp = [i \in {0} |-> Idle]
    /\ proc = <<>> /\ pipe = <<>>
    /\ ran = <<>> /\ wrote = {}

\* read gives as much as it likes, at least one character; parser_feed.
Read ==
    /\ main.pc = "read" /\ ~main.exit /\ fed < Len(input.text)
    /\ \E size \in input.sizes :
          /\ fed' = Min({fed + size, Len(input.text)})
          /\ buffer' = buffer \o SubSeq(input.text, fed + 1, fed')
    /\ main' = [main EXCEPT !.pc = "pop"]
    /\ UNCHANGED <<input, popped, interp, proc, pipe, ran, wrote>>

\* The end of the input, or exit.
End ==
    /\ main.pc = "read" /\ (main.exit \/ fed = Len(input.text))
    /\ main' = [main EXCEPT !.pc = "ended"]
    /\ UNCHANGED <<input, fed, buffer, popped, interp, proc, pipe, ran, wrote>>

Popped(r) ==
    /\ popped' = Append(popped, [err |-> r.err, line |-> r.line])
    /\ ran' = Append(ran, <<>>)
    /\ buffer' = r.rest

\* parser_pop_next for all the pieces of the inputs, as a table: TLC fills it once.
PopTable == [in \in Inputs |->
                [from \in 1..(Len(in.text) + 1) |->
                    [to \in (from - 1)..Len(in.text) |-> parser_pop_next(SubSeq(in.text, from, to))]]]

\* parser_pop_next and what main does with the result.
Pop ==
    /\ main.pc = "pop"
    /\ LET r == PopTable[input][fed - Len(buffer) + 1][fed]
       IN  \/ /\ r.kind = "abort"
              /\ main' = [main EXCEPT !.pc = "aborted"]
              /\ UNCHANGED <<buffer, popped, interp, ran>>
           \/ /\ r.kind = "none"
              /\ main' = [main EXCEPT !.pc = "read"]
              /\ UNCHANGED <<buffer, popped, interp, ran>>
           \/ /\ r.kind = "error"
              /\ Popped(r)
              /\ UNCHANGED <<main, interp>>
           \/ /\ r.kind = "line" /\ r.line.is_background
              /\ Popped(r)
              /\ interp' = (Len(popped') :> [interp[0] EXCEPT !.pc = "redirect", !.n = Len(popped')])
                           @@ interp
              /\ UNCHANGED main
           \/ /\ r.kind = "line" /\ ~r.line.is_background
              /\ Popped(r)
              /\ interp' = [interp EXCEPT ![0].pc = "redirect", ![0].n = Len(popped')]
              /\ main' = [main EXCEPT !.pc = "execute"]
    /\ UNCHANGED <<input, fed, proc, pipe, wrote>>

-----------------------------------------------------------------------------
(* execute_out_type and execute_node.                                      *)

Line(i) == popped[interp[i].n].line
Cmds(i) == interp[i].node.cmds

\* The interpreter goes on like this, and only it changes.
Moves(i, new) ==
    /\ interp' = [interp EXCEPT ![i] = new]
    /\ UNCHANGED <<input, fed, buffer, popped, main, wrote>>
Alone == UNCHANGED <<proc, pipe, ran>>

\* Redirection, and the tree.
Redirected(st, line) ==
    IF line.out_type = "STDOUT" THEN [st EXCEPT !.saved = <<>>]
    ELSE [st EXCEPT !.saved = <<st.out>>, !.out = [pipe |-> None, file |-> line.out_file]]

execute_out_type(i) ==
    /\ interp[i].pc = "redirect"
    /\ Moves(i, [Redirected(interp[i], Line(i)) EXCEPT
                   !.pc = "node", !.node = construct_tree(Line(i).exprs),
                   !.frames = <<>>, !.result = 0, !.exit = FALSE])
    /\ Alone

\* && and || execute their left son first.
execute_left(i) ==
    /\ interp[i].pc = "node" /\ interp[i].node.op # "COMMAND"
    /\ Moves(i, [interp[i] EXCEPT !.frames = <<interp[i].node>> \o @, !.node = @.left[1]])
    /\ Alone

\* A pipeline is started.
Starts(i) ==
    /\ interp[i].pc = "node" /\ interp[i].node.op = "COMMAND"
    /\ ran' = [ran EXCEPT ![interp[i].n] = Append(@, Cmds(i))]

BuiltIn(cmds) == Len(cmds) = 1 /\ cmds[1].exe \in {Cd, Exit}

IsExit(cmd) == cmd.exe = Exit

\* cd, whatever chdir says, and exit.
execute_builtin(i) ==
    LET exits == IsExit(Cmds(i)[1])
    IN  /\ Starts(i) /\ BuiltIn(Cmds(i))
        /\ Moves(i, [interp[i] EXCEPT !.pc = "return", !.exit = exits,
                                     !.result = IF exits THEN ExitCode(Cmds(i)[1]) ELSE 0])
        /\ UNCHANGED <<proc, pipe>>

\* The process that fork makes of command_exec; execvp has replaced it.
Forked(cmd, held, in, out) ==
    LET program == IF cmd.exe \in DOMAIN Programs THEN Programs[cmd.exe]
                   ELSE [takes |-> 0, gives |-> 0, code |-> 0]
    IN  [st |-> "run", held |-> held, in |-> in, out |-> out,
         takes |-> program.takes, gives |-> program.gives, code |-> program.code]

\* A single command.
command_exec(i) ==
    LET me == interp[i]
    IN  /\ Starts(i) /\ Len(Cmds(i)) = 1 /\ ~BuiltIn(Cmds(i))
        /\ proc' = (<<i, 1, "command">> :> Forked(Cmds(i)[1], me.held, None, me.out)) @@ proc
        /\ Moves(i, [me EXCEPT !.pc = "waitpid"])
        /\ UNCHANGED pipe

\* waitpid in command_exec.
command_wait(i) ==
    /\ interp[i].pc = "waitpid" /\ proc[<<i, 1, "command">>].st = "zombie"
    /\ Moves(i, [interp[i] EXCEPT !.pc = "return", !.result = proc[<<i, 1, "command">>].code])
    /\ proc' = Restrict(proc, DOMAIN proc \ {<<i, 1, "command">>})
    /\ UNCHANGED <<pipe, ran>>

\* All the pipes are made before the first fork.
make_pipes(i) ==
    LET made == {<<i, k>> : k \in 1..(Len(Cmds(i)) - 1)}
    IN  /\ Starts(i) /\ Len(Cmds(i)) > 1
        /\ pipe' = [q \in made |-> 0] @@ pipe
        /\ Moves(i, [interp[i] EXCEPT !.pc = "fork", !.k = 1, !.held = @ \cup (made \X {"r", "w"})])
        /\ UNCHANGED proc

fork(i) ==
    LET me == interp[i]
    IN  /\ me.pc = "fork"
        /\ proc' = (<<i, me.k, "child">> :>
                       [st |-> "setup", held |-> me.held, in |-> None, out |-> me.out,
                        takes |-> 0, gives |-> 0, code |-> 0]) @@ proc
        /\ Moves(i, [me EXCEPT !.pc = "close"])
        /\ UNCHANGED <<pipe, ran>>

\* After fork k the parent needs neither the pipe behind child k nor the way
\* into the one in front of it (159-160, 172).
Closed_out(i, k) == {<< <<i, k>>, "w">>}        \* mutant: the parent keeps the ways out
Closed_in(i, k) == {<< <<i, k - 1>>, "r">>}     \* mutant: the parent keeps the ways in
Closed(i, k) == {<< <<i, k>>, "w">>, << <<i, k - 1>>, "r">>}

close_ends(i) ==
    LET me == interp[i]
        last == me.k = Len(Cmds(i))
    IN  /\ me.pc = "close"
        /\ Moves(i, [me EXCEPT !.held = @ \ Closed(i, me.k), !.pc = IF last THEN "wait" ELSE "fork",
                              !.k = IF last THEN 1 ELSE @ + 1])
        /\ Alone

LastWaited(i, k) == k = Len(Cmds(i))

\* The children are waited for in order; the last one's status counts.
wait_child(i) ==
    LET me == interp[i]
        child == <<i, me.k, "child">>
        last == LastWaited(i, me.k)
    IN  /\ me.pc = "wait" /\ proc[child].st = "zombie"
        /\ proc' = Restrict(proc, DOMAIN proc \ {child})
        /\ pipe' = IF last THEN Restrict(pipe, {q \in DOMAIN pipe : q[1] # i}) ELSE pipe
        /\ Moves(i, IF last THEN [me EXCEPT !.pc = "return", !.result = proc[child].code]
                   ELSE [me EXCEPT !.k = @ + 1])
        /\ UNCHANGED ran

\* The result of a son is there: does the right son have to be executed?
Continues_or(op, result) == op = "AND" => result = 0   \* mutant: || always goes on
Continues(op, result) == IF op = "AND" THEN result = 0 ELSE result # 0

execute_right(i) ==
    LET me == interp[i]
        top == Head(me.frames)
    IN  /\ me.pc = "return" /\ me.frames # <<>>
        /\ Moves(i, IF ~me.exit /\ Continues(top.op, me.result)
                   THEN [me EXCEPT !.pc = "node", !.node = top.right[1], !.frames = Tail(@)]
                   ELSE [me EXCEPT !.frames = Tail(@)])
        /\ Alone

\* execute_out_type puts stdout back; main goes on with the next line, a
\* background fork ends.
Restored(st) == IF st.saved = <<>> THEN st ELSE [st EXCEPT !.out = st.saved[1]]

line_done(i) ==
    LET me == interp[i]
    IN  /\ me.pc = "return" /\ me.frames = <<>>
        /\ interp' = [interp EXCEPT ![i] =
                         [Restored(me) EXCEPT !.pc = IF i = 0 THEN "idle" ELSE "zombie",
                                              !.saved = <<>>, !.node = Leaf(<<>>), !.k = 0]]
        /\ main' = IF i # 0 THEN main
                   ELSE [pc |-> "pop", exit |-> me.exit, program_result |-> me.result]
        /\ UNCHANGED <<input, fed, buffer, popped, proc, pipe, ran, wrote>>

-----------------------------------------------------------------------------
(* The children of a pipeline.                                             *)

\* All the ends of this pipeline are closed by every child but the last.
ChildKeeps(i, held) == held \ {end \in held : end[1][1] = i}

\* Child k connects itself, closes what it got from the parent, and calls
\* command_exec: the last child closes one end only.  `exit' needs no process.
child_setup(i, k) ==
    LET child == <<i, k, "child">>
        me == proc[child]
        cmd == Cmds(i)[k]
        last == k = Len(Cmds(i))
        new == [me EXCEPT !.in = IF k = 1 THEN @ ELSE <<i, k - 1>>,
                          !.out = IF last THEN @ ELSE [pipe |-> <<i, k>>, file |-> None],
                          !.held = IF last THEN @ \ {<< <<i, k - 1>>, "r">>} ELSE ChildKeeps(i, @)]
    IN  /\ me.st = "setup"
        /\ proc' = IF cmd.exe = Exit
                   THEN [proc EXCEPT ![child] =
                            [new EXCEPT !.st = "zombie",
                                        !.code = IF last THEN ExitCode(cmd) % 256 ELSE 0]]
                   ELSE (<<i, k, "command">> :> Forked(cmd, new.held, new.in, new.out))
                        @@ [proc EXCEPT ![child] = [new EXCEPT !.st = "wait"]]
        /\ UNCHANGED <<input, fed, buffer, popped, main, interp, pipe, ran, wrote>>

\* waitpid in the child's command_exec; only the last child's code matters.
child_wait(i, k) ==
    LET child == <<i, k, "child">>
        command == <<i, k, "command">>
    IN  /\ proc[child].st = "wait" /\ proc[command].st = "zombie"
        /\ proc' = [x \in DOMAIN proc \ {command} |->
                       IF x # child THEN proc[x]
                       ELSE [proc[x] EXCEPT !.st = "zombie", !.code =
                                IF k = Len(Cmds(i)) THEN proc[command].code ELSE 0]]
        /\ UNCHANGED <<input, fed, buffer, popped, main, interp, pipe, ran, wrote>>

-----------------------------------------------------------------------------
(* The commands (external): they read, then write, then exit.              *)

Running(x) == proc[x].st = "run"
Less(n) == IF n = All THEN All ELSE n - 1
World == UNCHANGED <<input, fed, buffer, popped, main, interp, ran>>

\* read: an item, or the end of file once nobody can write any more.
command_reads(x) ==
    LET q == proc[x].in
    IN  /\ Running(x) /\ proc[x].takes > 0 /\ q # None
        /\ \/ /\ pipe[q] > 0
              /\ pipe' = [pipe EXCEPT ![q] = @ - 1]
              /\ proc' = [proc EXCEPT ![x].takes = Less(@)]
           \/ /\ pipe[q] = 0 /\ ~Held(<<q, "w">>)
              /\ proc' = [proc EXCEPT ![x].takes = 0]
              /\ UNCHANGED pipe
        /\ UNCHANGED wrote /\ World

\* write: into the pipe, which kills the writer when nobody can read any more,
\* or elsewhere.
command_writes(x) ==
    LET q == proc[x].out.pipe
    IN  /\ Running(x) /\ proc[x].takes = 0 /\ proc[x].gives > 0
        /\ \/ /\ q # None /\ Held(<<q, "r">>) /\ pipe[q] < PipeRoom
              /\ pipe' = [pipe EXCEPT ![q] = @ + 1]
              /\ proc' = [proc EXCEPT ![x].gives = Less(@)]
              /\ UNCHANGED wrote
           \/ /\ q # None /\ ~Held(<<q, "r">>)
              /\ proc' = [proc EXCEPT ![x].st = "zombie", ![x].code = 0]
              /\ UNCHANGED <<pipe, wrote>>
           \/ /\ q = None
              /\ proc' = [proc EXCEPT ![x].gives = Less(@)]
              /\ wrote' = wrote \cup {<<interp[x[1]].n, proc[x].out.file>>}
              /\ UNCHANGED pipe
        /\ World

command_exits(x) ==
    /\ Running(x) /\ proc[x].takes = 0 /\ proc[x].gives = 0
    /\ proc' = [proc EXCEPT ![x].st = "zombie"]
    /\ UNCHANGED <<pipe, wrote>> /\ World

-----------------------------------------------------------------------------

Interpreter(i) ==
    \/ execute_out_type(i) \/ execute_left(i) \/ execute_builtin(i) \/ command_exec(i)
    \/ command_wait(i) \/ make_pipes(i) \/ fork(i) \/ close_ends(i) \/ wait_child(i)
    \/ execute_right(i) \/ line_done(i)

Child(i, k) == child_setup(i, k) \/ child_wait(i, k)
CommandStep(x) == command_reads(x) \/ command_writes(x) \/ command_exits(x)

Next ==
    \/ Read \/ End \/ Pop
    \/ \E i \in DOMAIN interp : Interpreter(i)
    \/ \E x \in DOMAIN proc :
          \/ x[3] = "child" /\ Child(x[1], x[2])
          \/ x[3] = "command" /\ CommandStep(x)

\* Somebody who can go on does: without a command that writes or computes for
\* ever by itself no stronger fairness is needed.
Spec == Init /\ [][Next]_vars /\ WF_vars(Next)
=============================================================================
