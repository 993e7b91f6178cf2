---------------------------- MODULE MCCoroSort ----------------------------
(***************************************************************************)
(* CoroSort with few small files for TLC.                                  *)
(***************************************************************************)
EXTENDS CoroSort

\* Two files of up to three numbers, equal ones among them, and three files of
\* which one is empty.
SomeInputs == {<<f, g>> : f \in {<<>>, <<2, 1>>, <<1, 3>>, <<3, 2, 1>>}, g \in {<<1>>, <<3, 2>>, <<2, 2>>}}
              \cup {<< <<2, 1>>, <<>>, <<3>> >>, << <<1>>, <<3, 1>>, <<2>> >>}
\* The int behind an array is smaller than the numbers, or not.
SomeBehind == {0, 3}
=============================================================================
