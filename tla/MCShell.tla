------------------------------ MODULE MCShell ------------------------------
(***************************************************************************)
(* Small inputs and a few programs for the shell, for TLC.                 *)
(***************************************************************************)
EXTENDS ShellProps, ShellText

\* true, false, a writer for ever, head -1, wc.
MCPrograms ==
    LET P(takes, gives, code) == [takes |-> takes, gives |-> gives, code |-> code]
    IN  (<<"t">> :> P(0, 1, 0)) @@ (<<"f">> :> P(0, 1, 1)) @@ (<<"y">> :> P(0, 9, 0))
        @@ (<<"h">> :> P(1, 1, 0)) @@ (<<"w">> :> P(9, 1, 1))
MCThree == <<"3">>
MCNumbers == (MCThree :> 3)
MCExit == <<"x">>
MCCd == <<"d">>

-----------------------------------------------------------------------------
(* Every text of n characters, and so every shorter one too: more of a     *)
(* word behind its last line ends no line.  What a clear text has to be    *)
(* parsed into is what ShellText says; for the others it is what the       *)
(* parser says of the text as a whole, so that only the cuts are tested.   *)

Alphabet == {"t", Blank, Newline, Backslash, "'", "\"", "#"} \cup Operators

\* The results of parsing all of a text, up to a failing assertion.
Whole(text) ==
    LET Keep(s, r) == IF r.kind \in {"abort", "none"} THEN s
                      ELSE [rest |-> r.rest, out |-> Append(s.out, [err |-> r.err, line |-> r.line])]
        Turn(s) == Keep(s, parser_pop_next(s.rest))
        whole[k \in 0..Len(text)] ==
            IF k = 0 THEN [rest |-> text, out |-> <<>>] ELSE Turn(whole[k - 1])
    IN  whole[Len(text)].out

ShortTexts(n) ==
    {[text |-> t, sizes |-> 1..n, results |-> IF Clear(t) THEN Meant(t) ELSE Whole(t)] :
        t \in [1..n -> Alphabet]}

-----------------------------------------------------------------------------
(* Scripts: lines that are written down, with the lines they have to be    *)
(* parsed into.                                                            *)

\* A word as it may be written: bare with backslashes, in "..." and in '...'.
Special == {Blank, "#"} \cup Operators \cup Quotes \cup {Backslash}
Bare(word) == FlattenSeq([k \in 1..Len(word) |->
                             IF word[k] \in Special THEN <<Backslash, word[k]>> ELSE <<word[k]>>])
InDouble(word) ==
    <<"\"">> \o FlattenSeq([k \in 1..Len(word) |->
                   IF word[k] \in {"\"", Backslash} THEN <<Backslash, word[k]>> ELSE <<word[k]>>])
             \o <<"\"">>
InSingle(word) == <<"'">> \o word \o <<"'">>

Sign == [PIPE |-> <<"|">>, AND |-> <<"&", "&">>, OR |-> <<"|", "|">>, STDOUT |-> <<>>,
         FILE_NEW |-> <<">">>, FILE_APPEND |-> <<">", ">">>]

\* A line, its words written by W.
Written(line, W(_)) ==
    LET Expr(e) == IF e.type # "COMMAND" THEN Sign[e.type]
                   ELSE W(e.exe) \o FlattenSeq([k \in 1..Len(e.args) |-> <<Blank>> \o W(e.args[k])])
    IN  FlattenSeq([k \in 1..Len(line.exprs) |-> Expr(line.exprs[k])])
        \o Sign[line.out_type] \o (IF line.out_type = "STDOUT" THEN <<>> ELSE W(line.out_file))
        \o (IF line.is_background THEN <<"&">> ELSE <<>>) \o <<Newline>>

C(word) == <<Command(<<word>>)>>
XThree == <<[Command(MCExit) EXCEPT !.args = <<MCThree>>]>>
Pipe == <<Operator("PIPE")>>
Shown(exprs) == [EmptyLine EXCEPT !.exprs = exprs]
InFileA(line, type) == [line EXCEPT !.out_type = type, !.out_file = <<"a">>]
Behind(line) == [line EXCEPT !.is_background = TRUE]

\* In one piece, or in pieces that cut lines.
Sizes == {5, 1024}
Script(lines) ==
    [sizes |-> Sizes, text |-> FlattenSeq([k \in 1..Len(lines) |-> Written(lines[k], Bare)]),
     results |-> Each(LAMBDA line : [err |-> "NONE", line |-> line], lines)]

\* Chains of && and || over pipelines of every outcome.
Units == {C("t"), C("f"), C("d"), XThree, C("t") \o Pipe \o XThree, C("y") \o Pipe \o C("h")}
Chains == UNION {{a \o <<Operator(p)>> \o b \o <<Operator(q)>> \o c : a, b, c \in Units} :
                    p, q \in {"AND", "OR"}}

\* Lines that follow each other: redirected, with exit, in the background.
InFront == {Shown(C("t")), Shown(XThree), InFileA(Shown(C("t")), "FILE_NEW"),
          InFileA(Shown(C("f") \o Pipe \o C("w")), "FILE_APPEND")}
InBack == {Behind(Shown(C("f") \o Pipe \o C("w"))), Behind(InFileA(Shown(C("f")), "FILE_APPEND"))}

\* Pipelines of three commands.
Long == {Shown(a \o Pipe \o b \o Pipe \o c) : a \in {C("t"), C("y"), C("x")},
                                              b \in {C("h"), C("x")}, c \in {C("h"), C("w"), C("t")}}

\* Words of special characters as arguments of a command with a redirection.
\* In '...' the operators are left out (parser.c 205, see MCBroken).
Odd(chars) ==
    {InFileA([EmptyLine EXCEPT !.exprs = <<[Command(<<"t">>) EXCEPT !.args = <<v>>]>>], "FILE_NEW") :
        v \in UNION {[1..k -> chars] : k \in 1..2}}
Quoting(line, W(_)) ==
    [sizes |-> Sizes, text |-> Written(line, W), results |-> <<[err |-> "NONE", line |-> line]>>]
Quotings == {Quoting(line, InDouble) : line \in Odd(Special)}
            \cup {Quoting(line, InSingle) : line \in Odd({Blank, "#", "\"", Backslash})}

\* A mistake costs its own line and no other (but see MCBroken).
Mistakes == {
    << <<"|", "t">>, "PIPE_WITH_NO_LEFT_ARG">>,
    << <<"t", "&", "&", "|">>, "PIPE_WITH_LEFT_ARG_NOT_A_COMMAND">>,
    << <<"&", "&", "t">>, "AND_WITH_NO_LEFT_ARG">>,
    << <<"t", "|", "&", "&">>, "AND_WITH_LEFT_ARG_NOT_A_COMMAND">>,
    << <<"|", "|", "'", "#", "'">>, "OR_WITH_NO_LEFT_ARG">>,
    << <<"t", "|", "|", "|", "|", "t">>, "OR_WITH_LEFT_ARG_NOT_A_COMMAND">>,
    << <<"t", ">", "&", "&">>, "OUTOUT_REDIRECT_BAD_ARG">>,
    << <<"t", ">", "a", "&", "t">>, "TOO_LATE_ARGUMENTS">>,
    << <<"t", "|">>, "ENDS_NOT_WITH_A_COMMAND">> }
Mistaken ==
    {[sizes |-> 1..9, text |-> m[1] \o <<Newline, "t", Newline>>,
      results |-> << [err |-> m[2], line |-> EmptyLine], [err |-> "NONE", line |-> Shown(C("t"))] >>] :
        m \in Mistakes}

MCInputs ==
    Mistaken
    \cup {Script(<<Shown(chain)>>) : chain \in Chains}
    \cup {Script(<<l, m, n>>) : l, m, n \in InFront}
    \cup {Script(<<l, m>>) : l \in InBack, m \in InFront \cup InBack}
    \cup {Script(<<line>>) : line \in Long}
    \cup {Script(<<line>>) : line \in Odd(Special)} \cup Quotings
    \cup ShortTexts(4)

-----------------------------------------------------------------------------
(* The inputs that show where the code reads or does something else.       *)

Text(text) == [text |-> text, sizes |-> Sizes, results |-> Meant(text)]

MCBroken == {
    Text(<<"t", Blank, "'", "|", "'", Newline>>),            \* an operator in '...'
    Text(<<"t", Blank, "\"", "t", "\"", "t", Newline>>),     \* right behind a closing quote
    Text(<<"t", ">", Newline, "f", Newline>>),               \* no file, and a line behind it
    Text(<<"&", Newline, "t", Newline>>),                    \* & without a command
    Script(<<Shown(XThree), Shown(C("t"))>>) }               \* exit 3, and a line behind it
=============================================================================
