----------------------------- MODULE MCLowering -----------------------------
(***************************************************************************)
(* Programs for Lowering.                                                  *)
(***************************************************************************)
EXTENDS LoweringPaths

Flag == Var("param", 1, "gp")
MCParams == {Flag}
MCVars == {Var("user", 1, "gp")}
MCSignatures == {[args |-> <<>>, ret |-> "gp"]}
MCTokens == {"decl", "assign", "return", "if", "value", "when", "while", "range",
             "array", "break", "continue", "and", "binop", "leftover", "mixed"}

\* Every construct that mints labels, with what the code is known to lower
\* wrongly: that concerns values.
LabelTokens == {"decl", "assign", "group", "return", "if", "value", "when", "while",
                "range", "array", "break", "continue", "and",
                "skip", "late", "assigned", "held", "leftover", "mixed", "stray"}

\* Blocks of statements that end in a value, where one is expected.
StrayTokens == {"if", "while", "leftover", "stray"}
=============================================================================
