------------------------------ MODULE MCUserFS ------------------------------
(***************************************************************************)
(* Small instances of UserFS for TLC.                                      *)
(***************************************************************************)
EXTENDS UserFSRefinement, TLC

CONSTANTS f1, f2

OneFile      == {f1}
TwoFiles     == {f1, f2}
\* Addresses are only compared.
FileSymmetry == Permutations(FileIds)

PlainFlags      == {{}, {"CREATE"}}
ReadOnlyCreate  == {{}, {"CREATE", "READ_ONLY"}}
WriteOnlyCreate == {{}, {"CREATE", "WRITE_ONLY"}}

OneByte  == {0}
TwoBytes == {0, 1}
\* A write of two bytes that differ: one of them crosses a block border from position 1.
DataBuffers  == {<<0, 1>>}
ByteBuffers  == {<<0>>, <<1>>}
PlainBuffers == {<<>>, <<0>>, <<0, 0>>}
=============================================================================
