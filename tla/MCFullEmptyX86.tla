--------------------------- MODULE MCFullEmptyX86 ----------------------------
(* Instances of FullEmptyX86 for TLC.                                      *)
EXTENDS FullEmptyX86, TLC

Symmetry == Permutations(Threads) \cup Permutations(Values)
==============================================================================
