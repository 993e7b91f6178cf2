----------------------------- MODULE ShellText -----------------------------
(***************************************************************************)
(* What a text means, as /bin/bash and the tests of 2/parser_test.c read   *)
(* it: every character by the quotes around it, words as runs of           *)
(* characters, lines by the grammar that struct command_line and the       *)
(* errors of 2/parser.h describe.  ShellParser gives the vocabulary (the   *)
(* types of tokens, commands, lines) and nothing of how it reads a text:   *)
(* it is compared with what is said here.                                  *)
(***************************************************************************)
EXTENDS ShellParser, FiniteSetsExt

\* The values of f at the elements of s.
Each(f(_), s) == FoldLeft(LAMBDA values, x : Append(values, f(x)), <<>>, s)

-----------------------------------------------------------------------------
(* Characters.                                                             *)

\* The context of the character behind m.
After(m) ==
    CASE m.ctx = "bare" /\ m.c = "'"                -> "single"
      [] m.ctx = "bare" /\ m.c = "\""               -> "double"
      [] m.ctx = "bare" /\ m.c = Backslash          -> "escaped"
      [] m.ctx = "bare" /\ m.c = "#"                -> "comment"
      [] m.ctx = "single" /\ m.c = "'"              -> "bare"
      [] m.ctx = "double" /\ m.c = "\""             -> "bare"
      [] m.ctx = "double" /\ m.c = Backslash        -> "escaped in double"
      [] m.ctx = "comment" /\ m.c = Newline         -> "bare"
      [] m.ctx = "escaped"                          -> "bare"
      [] m.ctx = "escaped in double"                -> "double"
      [] OTHER                                      -> m.ctx

\* Every character with its context: what stands around it.
Marked(text) ==
    LET Mark(s, c) == Append(s, [c |-> c, ctx |-> IF s = <<>> THEN "bare" ELSE After(Last(s))])
    IN  FoldLeft(Mark, <<>>, text)

Separator(m)   == m.ctx = "bare" /\ m.c \in {Blank, Newline}
EndsLine(m)    == m.ctx \in {"bare", "comment"} /\ m.c = Newline
IsOperator(m)  == m.ctx = "bare" /\ m.c \in Operators
IsHash(m)      == m.ctx = "bare" /\ m.c = "#"
ClosesQuote(m) == \/ m.ctx = "single" /\ m.c = "'"
                  \/ m.ctx = "double" /\ m.c = "\""
PartOfWord(m)  == ~(Separator(m) \/ IsOperator(m) \/ IsHash(m) \/ m.ctx = "comment")

\* What a character of a word leaves of itself.
Literal(m) ==
    CASE m.ctx = "single" /\ m.c # "'"                                   -> <<m.c>>
      [] m.ctx = "double" /\ m.c \notin {"\"", Backslash}                -> <<m.c>>
      [] m.ctx = "escaped" /\ m.c # Newline                              -> <<m.c>>
      [] m.ctx = "escaped in double" /\ m.c \in {"\"", Backslash}        -> <<m.c>>
      [] m.ctx = "escaped in double" /\ m.c \notin {"\"", Backslash, Newline} -> <<Backslash, m.c>>
      [] m.ctx = "bare" /\ m.c \notin Quotes \cup {Backslash}            -> <<m.c>>
      [] OTHER                                                           -> <<>>

-----------------------------------------------------------------------------
(* Words and operators of marked characters s.                             *)

\* An operator character is the first of its operator when an even number of
\* the same stand in front of it.
Begins(s, k) ==
    \/ PartOfWord(s[k]) /\ (k = 1 \/ ~PartOfWord(s[k - 1]))
    \/ /\ IsOperator(s[k])
       /\ Cardinality({j \in 1..(k - 1) : \A i \in j..k : s[i] = s[k]}) % 2 = 0

TokenAt(s, k) ==
    IF IsOperator(s[k])
    THEN [type |-> IF k < Len(s) /\ s[k + 1] = s[k] THEN Doubled[s[k].c] ELSE Single[s[k].c],
          data |-> <<>>]
    ELSE LET end == Max({j \in k..Len(s) : \A i \in k..j : PartOfWord(s[i])})
         IN  [type |-> "STR", data |-> FlattenSeq([i \in 1..(end - k + 1) |-> Literal(s[k + i - 1])])]

Indices(s) == [k \in 1..Len(s) |-> k]
Tokens(s) == Each(LAMBDA k : TokenAt(s, k), SelectSeq(Indices(s), LAMBDA k : Begins(s, k)))

\* The tokens of the lines that are complete, without the empty ones.
LinesOf(s) ==
    LET ends  == SelectSeq(Indices(s), LAMBDA k : EndsLine(s[k]))
        start(end) == Max({0} \cup {k \in ToSet(ends) : k < end}) + 1
        lines == Each(LAMBDA end : Tokens(SubSeq(s, start(end), end - 1)), ends)
    IN  SelectSeq(lines, LAMBDA ts : ts # <<>>)

-----------------------------------------------------------------------------
(* The grammar: commands joined by |, && and ||, then where the output     *)
(* goes, then &.                                                           *)

Redirects == [OUT_NEW |-> "FILE_NEW", OUT_APPEND |-> "FILE_APPEND"]

\* Commands and operators in turn.
Joined(ts) ==
    /\ ts # <<>> /\ ts[1].type = "STR" /\ Last(ts).type = "STR"
    /\ \A k \in 1..Len(ts) : ts[k].type \in {"STR", "PIPE", "AND", "OR"}
    /\ \A k \in 2..Len(ts) : ts[k].type = "STR" \/ ts[k - 1].type = "STR"

Exprs(ts) ==
    LET Add(es, t) ==
            IF t.type # "STR" THEN Append(es, Operator(t.type))
            ELSE IF es # <<>> /\ Last(es).type = "COMMAND"
            THEN [es EXCEPT ![Len(es)].args = Append(@, t.data)]
            ELSE Append(es, Command(t.data))
    IN  FoldLeft(Add, <<>>, ts)

\* One line: what it is, or that it is wrong.
LineMeant(ts) ==
    LET behind     == Last(ts).type = "BACKGROUND"
        front      == IF behind THEN Front(ts) ELSE ts
        n          == Len(front)
        redirected == n >= 2 /\ front[n].type = "STR" /\ front[n - 1].type \in DOMAIN Redirects
        body       == IF redirected THEN SubSeq(front, 1, n - 2) ELSE front
    IN  IF ~Joined(body) THEN [err |-> "ANY", line |-> EmptyLine]
        ELSE [err |-> "NONE",
              line |-> [exprs         |-> Exprs(body),
                        out_type      |-> IF redirected THEN Redirects[front[n - 1].type] ELSE "STDOUT",
                        out_file      |-> IF redirected THEN front[n].data ELSE <<>>,
                        is_background |-> behind]]

Meant(text) == Each(LineMeant, LinesOf(Marked(text)))

-----------------------------------------------------------------------------
\* The texts without what the parser is known to read in its own way
\* (Shell_promises.cfg shows it): an operator inside '...' (205), characters right
\* behind the closing quote of a word (167), # inside a word (265), a word of
\* nothing (253, 259), and lines that begin with a redirection or & (398) or end
\* right after a redirection (380).
Clear(text) ==
    LET s == Marked(text)
        lines == LinesOf(s)
        tokens == Tokens(s)
    IN  /\ \A k \in 1..Len(s) :
              /\ s[k].ctx = "single" => s[k].c \notin Operators
              /\ k > 1 /\ ClosesQuote(s[k - 1]) => ~PartOfWord(s[k]) /\ ~IsHash(s[k])
              /\ k > 1 /\ IsHash(s[k]) => ~PartOfWord(s[k - 1])
        /\ \A n \in 1..Len(tokens) : tokens[n].type = "STR" => tokens[n].data # <<>>
        /\ \A n \in 1..Len(lines) :
              /\ lines[n][1].type \notin DOMAIN Redirects \cup {"BACKGROUND"}
              /\ Last(lines[n]).type \notin DOMAIN Redirects
=============================================================================
