---------------------------- MODULE MCHeapHelp ----------------------------
(***************************************************************************)
(* The leak tracker with a small heap, for TLC.                            *)
(***************************************************************************)
EXTENDS HeapHelpProps, TLC

CONSTANTS a1, a2, a3, w1

ThreeBlocks == {a1, a2, a3}
OneWorker   == {w1}
BlockSymmetry == Permutations(Addrs)
=============================================================================
