----------------------------- MODULE MCChannel -----------------------------
(***************************************************************************)
(* Instances of Channel for TLC.                                           *)
(***************************************************************************)
EXTENDS Channel, TLC

CONSTANTS s1, s2, r1, r2, x

\* Senders differ in nothing but their names.
Symmetry == Permutations({s1, s2})
=============================================================================
