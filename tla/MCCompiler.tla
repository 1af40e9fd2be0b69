---------------------------- MODULE MCCompiler ----------------------------
(* Programs and registers for Compiler.                                     *)
EXTENDS Compiler

\* A flag and a float; two temporaries, then a register for arguments.
MCParams == {Var("param", 1, "gp"), Var("param", 2, "fp")}
MCVars == {Var("user", 1, "gp")}
FewGp == <<9, 1>>
FewFp == <<16, 17, 1>>

\* Calls of one and two arguments, of floats only one.
MCSignatures ==
  {[args |-> <<>>, ret |-> "gp"], [args |-> <<"gp", "gp">>, ret |-> "gp"],
   [args |-> <<"fp">>, ret |-> "fp"], [args |-> <<"gp">>, ret |-> "unit"]}
MCTokens == {"and", "group", "binop", "const", "while", "decl", "break"}

\* The registers there are, and a call of two floats.
AllGp == <<9, 10, 11, 12, 13, 14, 15, 1, 2, 3, 4, 5, 6, 7>>
AllFp == [i \in 1..23 |-> IF i <= 16 THEN i + 15 ELSE i - 16]
FloatParams == {Var("param", 1, "fp")}
FloatSignatures == {[args |-> <<>>, ret |-> "fp"], [args |-> <<"fp", "fp">>, ret |-> "fp"]}
=============================================================================
