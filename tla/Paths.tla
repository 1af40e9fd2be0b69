------------------------------- MODULE Paths -------------------------------
(***************************************************************************)
(* Paths through code, for what the passes should compute.                 *)
(***************************************************************************)
EXTENDS Sir

\* From what is found, the last of it new, one instruction further.
Further(succs, via, last) ==
  LET next == (UNION {succs[i] : i \in last.new \cap via}) \ last.found
  IN  IF last.new = {} THEN last
      ELSE [found |-> last.found \cup next, new |-> next]

\* The instructions control can reach from `from` without leaving `via`; the
\* end of a path may lie outside.  A round that finds nothing is the last that
\* counts, and there are fewer others than instructions.
Reached(succs, from, via) ==
  LET wave[k \in Nat] == IF k = 0 THEN [found |-> {from}, new |-> {from}]
                                  ELSE Further(succs, via, wave[k - 1])
  IN  wave[Cardinality(DOMAIN succs) + 1].found
=============================================================================
