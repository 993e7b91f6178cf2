---------------------------- MODULE ShellParser ----------------------------
(***************************************************************************)
(* 2/parser.c: the text that has been fed is cut into tokens and the       *)
(* tokens make up command lines.                                           *)
(*                                                                         *)
(* A character is a string of one character: one letter stands for every   *)
(* character without a meaning of its own, the blank for ' ', '\t' and     *)
(* '\r'.  A word is a sequence of characters.  The code walks along a      *)
(* buffer with a pointer; here the tokeniser and the parser are automata   *)
(* that are folded over the characters and over the tokens.  A failing     *)
(* assertion ends the program: the outcome "abort".                        *)
(***************************************************************************)
EXTENDS Naturals, Sequences, SequencesExt

Newline == "\n"
Blank == " "
Backslash == "\\"
Quotes == {"'", "\""}
Operators == {"&", "|", ">"}

-----------------------------------------------------------------------------
(* Tokens.                                                                 *)

Doubled == [c \in Operators |->
               CASE c = "&" -> "AND" [] c = "|" -> "OR" [] c = ">" -> "OUT_APPEND"]
Single == [c \in Operators |->
               CASE c = "&" -> "BACKGROUND" [] c = "|" -> "PIPE" [] c = ">" -> "OUT_NEW"]

\* The tokeniser: mode is what it is in the middle of, quote the open quote,
\* op the operator character just seen, data the token so far, used the
\* characters passed.
token_reset ==
    [mode |-> "skip", quote |-> "", op |-> "", type |-> "NONE", data |-> <<>>, used |-> 0]

\* The character is passed and ...
Goes(t, mode) == [t EXCEPT !.mode = mode, !.used = @ + 1]
token_append(t, c) == [Goes(t, "word") EXCEPT !.data = Append(@, c)]
\* The token is complete, with this character and without it.
Ends(t, type) == [Goes(t, "done") EXCEPT !.type = type]
EndsBefore(t, type) == [t EXCEPT !.mode = "done", !.type = type]
\* assert(out->size > 0).
NotEmpty(t, next) == IF t.data = <<>> THEN [t EXCEPT !.mode = "abort"] ELSE next

\* A quote makes this character an ordinary one.  Inside '...' the operators
\* stay operators.
Quoted(t, c) ==
    \/ t.quote = "'" /\ c \in {"\"", Backslash}
    \/ t.quote = "\"" /\ c \in {"'"} \cup Operators
    \/ t.quote # "" /\ c \in {Blank, Newline, "#"}

\* Past the leading spaces, no backslash before c.
InWord(t, c) ==
    CASE Quoted(t, c)   -> token_append(t, c)
      [] c \in Quotes   -> IF t.quote = "" THEN [Goes(t, "word") EXCEPT !.quote = c]
                           ELSE Ends(t, "STR")
      [] c = Backslash  -> Goes(t, "escape")
      [] c \in Operators -> IF t.data # <<>> THEN EndsBefore(t, "STR")
                            ELSE [Goes(t, "operator") EXCEPT !.op = c]
      [] c = Blank      -> NotEmpty(t, Ends(t, "STR"))
      [] c = Newline    -> NotEmpty(t, EndsBefore(t, "STR"))
      [] c = "#"        -> IF t.data # <<>> THEN EndsBefore(t, "STR") ELSE Goes(t, "comment")
      [] OTHER          -> token_append(t, c)

\* The character after a backslash.
Escaped(t, c) ==
    CASE c = Newline -> Goes(t, "word")
      [] t.quote = "\"" /\ c \notin {Backslash, "\""} ->
            [token_append(t, c) EXCEPT !.data = t.data \o <<Backslash, c>>]
      [] OTHER -> token_append(t, c)

\* The character after an operator.
AfterOperator(t, c) ==
    IF c = t.op THEN Ends(t, Doubled[c]) ELSE EndsBefore(t, Single[t.op])

TokenStep(t, c) ==
    CASE t.mode \in {"done", "abort"} -> t
      [] t.mode = "skip" -> IF c = Newline THEN Ends(t, "NEW_LINE")
                            ELSE IF c = Blank THEN Goes(t, "skip")
                            ELSE InWord(t, c)
      [] t.mode = "word" -> InWord(t, c)
      [] t.mode = "escape" -> Escaped(t, c)
      [] t.mode = "operator" -> AfterOperator(t, c)
      [] t.mode = "comment" -> IF c = Newline THEN Ends(t, "NEW_LINE") ELSE Goes(t, "comment")

\* A token that the end of the text may have cut is not there: used is 0.
AtEnd_comment(t) ==                             \* mutant: the end of the text ends a comment
    CASE t.mode \in {"done", "abort"} -> t
      [] t.mode = "comment" -> EndsBefore(t, "NEW_LINE")
      [] OTHER -> token_reset
AtEnd(t) == IF t.mode \in {"done", "abort"} THEN t ELSE token_reset

parse_token(text) ==
    LET t[k \in 0..Len(text)] == IF k = 0 THEN token_reset ELSE TokenStep(t[k - 1], text[k])
    IN  AtEnd(t[Len(text)])

-----------------------------------------------------------------------------
(* Command lines.                                                          *)

Command(exe) == [type |-> "COMMAND", exe |-> exe, args |-> <<>>]
Operator(type) == [type |-> type, exe |-> <<>>, args |-> <<>>]
EmptyLine == [exprs |-> <<>>, out_type |-> "STDOUT", out_file |-> <<>>, is_background |-> FALSE]

\* parser_pop_next: what it expects next, the line so far, the error found and
\* the characters passed.
PopStart == [state |-> "exprs", line |-> EmptyLine, err |-> "NONE", pos |-> 0]

HasTail(p) == p.line.exprs # <<>>
TailIsCommand(p) == HasTail(p) /\ Last(p.line.exprs).type = "COMMAND"

command_line_append(p, e) == [p EXCEPT !.line.exprs = Append(@, e)]
command_append_arg(p, arg) == [p EXCEPT !.line.exprs[Len(p.line.exprs)].args = Append(@, arg)]

\* goto return_error: the rest of the line is skipped.
Fails(p, err) == [p EXCEPT !.state = "error", !.err = err]
Aborts(p) == [p EXCEPT !.state = "abort"]

\* token_strdup's assert(t->size > 0).
token_strdup(t, p, next) == IF t.data = <<>> THEN Aborts(p) ELSE next

\* close_and_return at a NEW_LINE.
CloseLine(p) ==
    IF ~HasTail(p) THEN Aborts(p)
    ELSE IF ~TailIsCommand(p) THEN [p EXCEPT !.state = "end", !.err = "ENDS_NOT_WITH_A_COMMAND"]
    ELSE [p EXCEPT !.state = "end"]

NoLeftArg == [PIPE |-> "PIPE_WITH_NO_LEFT_ARG", AND |-> "AND_WITH_NO_LEFT_ARG",
              OR |-> "OR_WITH_NO_LEFT_ARG"]
NotACommand == [PIPE |-> "PIPE_WITH_LEFT_ARG_NOT_A_COMMAND",
                AND |-> "AND_WITH_LEFT_ARG_NOT_A_COMMAND", OR |-> "OR_WITH_LEFT_ARG_NOT_A_COMMAND"]

\* |, && and ||.
Joins(p, type) ==
    IF ~HasTail(p) THEN Fails(p, NoLeftArg[type])
    ELSE IF ~TailIsCommand(p) THEN Fails(p, NotACommand[type])
    ELSE command_line_append(p, Operator(type))

InExprs(p, t) ==
    CASE t.type = "STR" ->
            token_strdup(t, p, IF TailIsCommand(p) THEN command_append_arg(p, t.data)
                               ELSE command_line_append(p, Command(t.data)))
      [] t.type = "NEW_LINE" -> IF HasTail(p) THEN CloseLine(p) ELSE p
      [] t.type \in {"PIPE", "AND", "OR"} -> Joins(p, t.type)
      [] t.type = "OUT_NEW" -> [p EXCEPT !.state = "file", !.line.out_type = "FILE_NEW"]
      [] t.type = "OUT_APPEND" -> [p EXCEPT !.state = "file", !.line.out_type = "FILE_APPEND"]
      [] t.type = "BACKGROUND" -> [p EXCEPT !.state = "background", !.line.is_background = TRUE]

\* After > and >>, after the file's name, and after &.
InFile(p, t) ==
    IF t.type # "STR" THEN Fails(p, "OUTOUT_REDIRECT_BAD_ARG")
    ELSE token_strdup(t, p, [p EXCEPT !.state = "tail", !.line.out_file = t.data])
InTail(p, t) ==
    CASE t.type = "BACKGROUND" -> [p EXCEPT !.state = "background", !.line.is_background = TRUE]
      [] t.type = "NEW_LINE" -> CloseLine(p)
      [] OTHER -> Fails(p, "TOO_LATE_ARGUMENTS")
InBackground(p, t) ==
    IF t.type = "NEW_LINE" THEN CloseLine(p) ELSE Fails(p, "TOO_LATE_ARGUMENTS")

\* The loop of return_error: up to the next NEW_LINE.  When the token in
\* error was the NEW_LINE itself, this is the one of the following line.
Recover(p, t) == IF t.type = "NEW_LINE" THEN [p EXCEPT !.state = "end"] ELSE p

PopStep(p, t) ==
    CASE t.mode = "abort" -> Aborts(p)
      [] p.state = "exprs" -> InExprs(p, t)
      [] p.state = "file" -> InFile(p, t)
      [] p.state = "tail" -> InTail(p, t)
      [] p.state = "background" -> InBackground(p, t)
      [] p.state = "error" -> Recover(p, t)

\* The loops over the tokens, up to the end of the line or of the text.
PopTokens(text) ==
    LET Take(p, t) ==
            IF t.mode # "abort" /\ t.used = 0 THEN [p EXCEPT !.state = "cut"]
            ELSE [PopStep(p, t) EXCEPT !.pos = @ + t.used]
        Turn(p) ==
            IF p.state \in {"end", "abort", "cut"} \/ p.pos = Len(text) THEN p
            ELSE Take(p, parse_token(SubSeq(text, p.pos + 1, Len(text))))
        \* after k turns of the loops
        pop[k \in 0..Len(text)] == IF k = 0 THEN PopStart ELSE Turn(pop[k - 1])
    IN  pop[Len(text)]

\* parser_consume: what stays in the buffer.
parser_consume(text, size) == SubSeq(text, size + 1, Len(text))

\* What parser_pop_next gives: "line" with a line, "error" with an error,
\* "none" when the text ends within a line (which stays in the buffer), "abort".
parser_pop_next(text) ==
    LET p == PopTokens(text)
    IN  CASE p.state = "abort" -> [kind |-> "abort", err |-> "NONE", line |-> EmptyLine, rest |-> text]
          [] p.state = "end" ->
                [kind |-> IF p.err = "NONE" THEN "line" ELSE "error", err |-> p.err,
                 line |-> IF p.err = "NONE" THEN p.line ELSE EmptyLine,
                 rest |-> parser_consume(text, p.pos)]
          [] OTHER -> [kind |-> "none", err |-> "NONE", line |-> EmptyLine, rest |-> text]
=============================================================================
