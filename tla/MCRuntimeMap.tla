---------------------------- MODULE MCRuntimeMap ----------------------------
(***************************************************************************)
(* Instances of RuntimeMap for TLC.                                        *)
(***************************************************************************)
EXTENDS RuntimeMap, TLC

CONSTANTS a, b, c, d

\* In a table of four slots a, b and d start at the last one and wrap round;
\* in one of eight d starts elsewhere; a and b collide at every size.
Hashes == a :> 3 @@ b :> 3 @@ c :> 0 @@ d :> 7
=============================================================================
