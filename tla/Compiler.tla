------------------------------ MODULE Compiler ------------------------------
(***************************************************************************)
(* A function on its way through the compiler: lowered, allocated and run. *)
(***************************************************************************)
EXTENDS Lowering, Machine

compiler == <<lowering, machine>>

CompilerInit == Init /\ Idle /\ mach = Asleep

Lower == Next /\ UNCHANGED machine

\* The back end is given the function.
HandOver ==
  /\ goal = "done"
  /\ Take(ex.code, [i \in 1..Cardinality(Params) |-> (CHOOSE p \in Params : p.n = i).cls])
  /\ UNCHANGED <<lowering, mach>>

Allocating == Allocate /\ UNCHANGED <<lowering, mach>>
Executing == (Enter \/ Execute) /\ UNCHANGED lowering

CompilerNext == Lower \/ HandOver \/ Allocating \/ Executing
CompilerSpec == CompilerInit /\ [][CompilerNext]_compiler
=============================================================================
