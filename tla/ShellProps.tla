---------------------------- MODULE ShellProps ----------------------------
(***************************************************************************)
(* What the shell of 2/solution.c promises.                                *)
(***************************************************************************)
EXTENDS Shell

\* The shell's state is well typed: only interpreters that exist have
\* processes, no pipe holds more than its room, and main executes a line
\* exactly when interpreter 0 has one.
TypeOK ==
    /\ fed \in 0..Len(input.text) /\ Len(buffer) <= fed
    /\ \A n \in 1..Len(popped) : popped[n].line.out_type \in {"STDOUT", "FILE_NEW", "FILE_APPEND"}
    /\ main.pc \in {"read", "pop", "execute", "ended", "aborted"} /\ main.exit \in BOOLEAN
    /\ main.pc = "execute" <=> interp[0].pc # "idle"
    /\ DOMAIN interp \subseteq 0..Len(popped)
    /\ \A x \in DOMAIN proc : /\ x[1] \in DOMAIN interp
                              /\ interp[x[1]].pc \in {"fork", "close", "wait", "waitpid"}
                              /\ proc[x].st \in {"setup", "run", "wait", "zombie"}
    /\ \A q \in DOMAIN pipe : pipe[q] \in 0..PipeRoom

\* A word that is empty: a quote that is closed at once, or a backslash and a
\* newline that may leave nothing.
EmptyWord(text) ==
    \E k \in 1..(Len(text) - 1) : \/ text[k] \in Quotes /\ text[k + 1] \in Quotes \cup {Backslash}
                                  \/ text[k] = Backslash /\ text[k + 1] = Newline
\* A line that begins with a redirection or with &.
NoCommand(text) ==
    \E k \in 1..Len(text) :
        /\ text[k] \in {">", "&"}
        /\ \E j \in 0..(k - 1) : /\ j = 0 \/ text[j] \in {Newline, "'", "\""}
                                 /\ \A m \in (j + 1)..(k - 1) : text[m] \in {Blank} \cup Quotes

\* The assertions of the parser fail for two sorts of input only: empty words
\* (parser.c 37, 253, 259) and lines without a command (398).
AbortsOnlyThen == main.pc = "aborted" => EmptyWord(input.text) \/ NoCommand(input.text)

\* What was popped is what is asked for; where only some error is asked for
\* ("ANY"), which one is up to the parser.
Agrees(p, r) ==
    /\ p.line = r.line
    /\ p.err = r.err \/ (r.err = "ANY" /\ p.err # "NONE")

\* However the input is cut into reads, what the parser pops is, line by line
\* and in order, what input.results asks for: operators, quotes, escapes and
\* comments may be cut in two (parser.c 143-285), and a line that is not
\* complete stays in the buffer.  It aborts the shell for nothing but those
\* two sorts of input.  How much this says depends on the results: MCShell
\* takes them from how a script was written and, for short texts, from
\* ShellText; for the short texts that are not Clear they are the parser's
\* own, and the claim is only that the cuts make no difference.
ParsesWhatIsWritten ==
    /\ Len(popped) <= Len(input.results)
    /\ \A n \in 1..Len(popped) : Agrees(popped[n], input.results[n])
    /\ main.pc = "read" /\ fed = Len(input.text) => Len(popped) = Len(input.results)
    /\ AbortsOnlyThen

\* A line that is wrong does not end the shell: "It can't be executed but
\* can't just crash here because of that" (parser.c 412-415).  The assertion
\* of line 398 fails for a line without a command.
ErrorsDoNotCrash == main.pc # "aborted"

-----------------------------------------------------------------------------
(* What executing a line means: its pipelines from left to right, each if  *)
(* the operator in front of it and the status so far say so.               *)

Code(cmd) == IF cmd.exe = Exit THEN ExitCode(cmd)
             ELSE IF cmd.exe \in DOMAIN Programs THEN Programs[cmd.exe].code ELSE 0

Meaning(exprs) ==
    LET Step(s, e) ==
            CASE e.type = "PIPE" -> [s EXCEPT !.piped = TRUE, !.exit = s.skip /\ s.exit]
              [] e.type \in {"AND", "OR"} ->
                    [s EXCEPT !.piped = FALSE, !.skip = s.exit \/ (e.type = "AND") # (s.status = 0)]
              [] s.skip -> s
              [] s.piped -> [s EXCEPT !.ran[Len(s.ran)] = Append(@, e), !.status = Code(e) % 256]
              [] OTHER -> [s EXCEPT !.ran = Append(@, <<e>>), !.status = Code(e),
                                    !.exit = e.exe = Exit]
    IN  FoldLeft(Step, [ran |-> <<>>, status |-> 0, exit |-> FALSE, skip |-> FALSE, piped |-> FALSE],
                 exprs)

IsLine(n) == popped[n].err = "NONE"
Foreground(n) == IsLine(n) /\ ~popped[n].line.is_background
\* Line n has been executed.
Executed(n) == IF Foreground(n) THEN n < Len(popped) \/ main.pc # "execute"
               ELSE n \in DOMAIN interp /\ interp[n].pc = "zombie"

\* A line's output goes where the line says, whatever other lines redirect
\* while it runs or before it (execute_out_type 223-233, 242-251).
OutputWhereAsked == \A w \in wrote : w[2] = popped[w[1]].line.out_file

\* Every line, in the background too, executes the pipelines it means, in
\* order, each once, and nothing of a line with a syntax error; when main
\* is done with a line, the status and whether to exit are what the last line
\* in the foreground means, and all output is where it was asked for
\* (construct_tree, execute_node, execute_out_type, main 286).
MeansWhatItSays ==
    /\ OutputWhereAsked
    /\ \A n \in 1..Len(popped) :
          LET meant == Meaning(popped[n].line.exprs).ran
          IN  IF Executed(n) THEN ran[n] = meant ELSE IsPrefix(ran[n], meant)
    /\ main.pc # "execute" =>
          LET lines == {n \in 1..Len(popped) : Foreground(n)}
              last  == Meaning(IF lines = {} THEN <<>> ELSE popped[Max(lines)].line.exprs)
          IN  main.program_result = last.status /\ main.exit = last.exit

\* Between two lines the shell has no pipe end open, its stdout is the
\* terminal, and it has waited for every process of the lines in the
\* foreground (execute_node 159-177, execute_out_type 242-251).
NothingLeft ==
    /\ TypeOK
    /\ main.pc # "execute" => /\ interp[0].held = {} /\ interp[0].out = Terminal
                              /\ \A x \in DOMAIN proc : x[1] # 0

\* `exit' alone in its line terminates the shell (2/task_eng.txt 38-42): no
\* line comes after it.  main looks at exit only when it has executed every
\* line of the read (265, 268-289), and the next line overwrites it (286).
ExitTerminates ==
    \A n \in 1..(Len(popped) - 1) :
        ~(Foreground(n) /\ Len(popped[n].line.exprs) = 1 /\ popped[n].line.exprs[1].exe = Exit)

\* The shell comes to its end, and so do the lines in the background: in no
\* pipeline does a command wait for an end of file that cannot come or for a
\* reader that is gone, since every process closes the ends that are not
\* its own (execute_node 146-149, 159-160, 172).
AllEnd ==
    <>[](/\ main.pc \in {"ended", "aborted"}
         /\ \A i \in DOMAIN interp : interp[i].pc \in {"idle", "zombie"})
=============================================================================
