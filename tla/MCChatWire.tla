----------------------------- MODULE MCChatWire -----------------------------
(***************************************************************************)
(* ChatWire with two letters, pieces of up to three characters, and a byte *)
(* of four values, two of which are negative as a char.                    *)
(***************************************************************************)
EXTENDS ChatWire

CONSTANTS x, y, sp, nl

TwoLetters == {x, y}
\* Every piece of up to three characters, a line whose length takes two bytes, and
\* one that would if the spaces at its end were kept.
SomePieces == BoundedSeq({x, y, sp, nl}, 3)
              \cup {<<x, x, y, x, nl>>, <<x, sp, sp, sp, nl>>}

\* Two feeds are enough to run out of room ...
CutPieces == BoundedSeq({x, nl}, 2)
\* ... and one line of two characters has a length the receiver misreads.
LongPieces == {<<x, nl>>, <<x, x, nl>>}
=============================================================================
