---------------------------- MODULE MCTaskMemory ----------------------------
(***************************************************************************)
(* Instances of TaskMemory for TLC.                                        *)
(***************************************************************************)
EXTENDS TaskMemory, TLC

\* Threads, addresses and mappings differ in nothing but their names.
Symmetry == Permutations(Threads) \cup Permutations(Boxes) \cup Permutations(Maps)
=============================================================================
