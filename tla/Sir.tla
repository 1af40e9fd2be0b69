-------------------------------- MODULE Sir --------------------------------
(***************************************************************************)
(* The part of zo's intermediate code (zo-sir) that decides control flow   *)
(* and the life of values: what an instruction defines, what it reads and  *)
(* where control goes after it.  Values and labels are numbers from 1 on;  *)
(* a variable is a record whose class says which registers can hold it.    *)
(***************************************************************************)
EXTENDS Integers, Sequences, FiniteSets

Classes == {"gp", "fp"}

\* A named variable: of the program, a parameter, or made by the compiler.
Var(of, n, cls) == [of |-> of, n |-> n, cls |-> cls]
NoVar == Var("none", 0, "gp")

Insn(op, dst, uses, target, var, cls) ==
  [op |-> op, dst |-> dst, uses |-> uses, target |-> target, var |-> var, cls |-> cls]

FunDef == Insn("fundef", 0, <<>>, 0, NoVar, "gp")
Const(d, cls) == Insn("const", d, <<>>, 0, NoVar, cls)
Load(d, v) == Insn("load", d, <<>>, 0, v, v.cls)
BinOp(d, l, r, cls) == Insn("binop", d, <<l, r>>, 0, NoVar, cls)
\* The length of an array, or an element of it.
ArrayLen(d, a) == Insn("arraylen", d, <<a>>, 0, NoVar, "gp")
ArrayIndex(d, a, i, cls) == Insn("arrayindex", d, <<a, i>>, 0, NoVar, cls)
\* A call; of a unit call nothing reads what it defines.
Call(d, args, cls) == Insn("call", d, args, 0, NoVar, cls)
VarDef(v, init) == Insn("vardef", 0, init, 0, v, v.cls)
Store(v, x) == Insn("store", 0, <<x>>, 0, v, v.cls)
Label(l) == Insn("label", 0, <<>>, l, NoVar, "gp")
Jump(l) == Insn("jump", 0, <<>>, l, NoVar, "gp")
BranchIfNot(x, l) == Insn("branch", 0, <<x>>, l, NoVar, "gp")
Return(value, cls) == Insn("return", 0, value, 0, NoVar, cls)

Defines(i) == IF i.dst = 0 THEN {} ELSE {i.dst}
Uses(i) == {i.uses[k] : k \in DOMAIN i.uses}

\* Where the label of a jump stands; a jump to no label has no successor.
Landings(code, l) == {j \in DOMAIN code : code[j].op = "label" /\ code[j].target = l}

Succs(code) ==
  [i \in DOMAIN code |->
    LET next == {i + 1} \cap DOMAIN code
        landing == Landings(code, code[i].target)
    IN  CASE code[i].op = "jump" -> landing
          [] code[i].op = "branch" -> next \cup landing
          [] code[i].op = "return" -> {}
          [] OTHER -> next]
=============================================================================
