------------------------------ MODULE Lowering ------------------------------
(***************************************************************************)
(* zo-executor: the walk over the tree of one function that checks it and  *)
(* emits its intermediate code.  An action is the executor's handler of    *)
(* one node, in the order the walk meets them; between them the program    *)
(* is free, so a behaviour is a program.  What the handlers keep is a      *)
(* record `ex`: the code so far, the values an expression has left, the    *)
(* constructs that are open and what a statement will do at its end.       *)
(* A block may end in a value that nobody asked for: it stays on the stack *)
(* of values, below those of later statements, as `left`.                  *)
(***************************************************************************)
EXTENDS Sir

CONSTANTS
  Vars,        \* the variables a program may declare
  Params,      \* its parameters
  Signatures,  \* what it may call: the classes of the arguments, the result
  Tokens,      \* the constructs it may use
  MaxTokens,   \* how many statements, branches, calls and operators it may have
  MaxValues,   \* how many operands may wait in an expression
  MaxDepth     \* how many constructs it may nest

\* The variables of the program and those the compiler makes.
Names == [of : {"none", "param", "user", "sink", "end", "arr", "idx"}, n : Nat, cls : Classes]

\* A call that is not for its effect has a value of one class.
ASSUME LoweringAssumption ==
  /\ Vars \subseteq {v \in Names : v.of = "user"} /\ Params \subseteq {v \in Names : v.of = "param"}
  /\ \A sig \in Signatures : sig.args \in Seq(Classes) /\ sig.ret \in Classes \cup {"unit"}
  /\ MaxTokens \in Nat

VARIABLES ex, goal, tokens
lowering == <<ex, goal, tokens>>

Nothing == [none |-> TRUE]
Top(s) == s[Len(s)]
Pop(s) == SubSeq(s, 1, Len(s) - 1)

\* `goal` is what the walk has to find next: a statement, the end of a
\* condition, of one arm of a ternary, of an expression that is the value of
\* a block (tail) or of a whole statement (full), a semicolon (end), the
\* brace after a value (close), an `else` or what follows it, a loop's brace;
\* or the rest of what a brace does (merge).
Expressions == {"cond", "tcond", "tthen", "telse", "tail", "full"}

Init ==
  /\ \E nonUnit \in BOOLEAN :
       ex = [code |-> <<FunDef>>, left |-> <<>>, values |-> <<>>, waiting |-> 0,
             value |-> 1, label |-> 1,
             branches |-> <<>>, scopes |-> <<Nothing>>, locals |-> <<{}>>,
             decl |-> Nothing, assign |-> Nothing, returning |-> FALSE,
             returned |-> FALSE, sinks |-> 0, circuits |-> <<>>,
             closed |-> "stmt", nonUnit |-> nonUnit]
  /\ goal = "stmt"
  /\ tokens = 0

----------------------------------------------------------------------------
(* What the handlers are made of: each takes the executor and returns it.  *)

Emit(x, insns) == [x EXCEPT !.code = @ \o insns]
Push(x, id, cls) == [x EXCEPT !.values = Append(@, [id |-> id, cls |-> cls])]
PopValues(x, n) == [x EXCEPT !.values = SubSeq(@, 1, Len(@) - n)]

\* sir_values is the values of this statement above those left by earlier ones.
Height(x) == Len(x.left) + Len(x.values)
LastValue(x) == IF x.values # <<>> THEN Top(x.values) ELSE Top(x.left)
Drop(x) ==
  CASE x.values # <<>> -> PopValues(x, 1)
    [] x.values = <<>> /\ x.left # <<>> -> [x EXCEPT !.left = Pop(@)]
    [] OTHER -> x
LeaveBehind(x) == [x EXCEPT !.left = @ \o x.values, !.values = <<>>]
NewValues(x, n) == [x EXCEPT !.value = @ + n]
NewLabels(x, n) == [x EXCEPT !.label = @ + n]

\* Emits an instruction that defines the next value, and pushes it.
Produce(x, insn) == Push(NewValues(Emit(x, <<insn>>), 1), insn.dst, insn.cls)

\* push_scope, which also takes the declaration that waits for its value;
\* pop_scope brings it back.
PushScope(x) ==
  [x EXCEPT !.scopes = Append(@, x.decl), !.decl = Nothing,
            !.locals = Append(@, Top(@))]
PopScope(x) ==
  [x EXCEPT !.decl = IF @ = Nothing THEN Top(x.scopes) ELSE @,
            !.scopes = Pop(@), !.locals = Pop(@)]
Declare(x, v) == [x EXCEPT !.locals[Len(x.locals)] = @ \cup {v}]

Sink(n) == [sink |-> n]
\* mint_branch_sink_if_expr_position.
HasSink(x) ==
  \/ x.decl # Nothing
  \/ \E i \in DOMAIN x.branches : x.branches[i].sink # Nothing
  \/ x.nonUnit

\* A BranchCtx.  `use` is the goal the construct was met with.
Branch(x, kind, end, else, loop, emitted, var, idx, use) ==
  LET mints == kind \in {"if", "ternary"} /\ HasSink(x)
  IN  [x EXCEPT
        !.branches = Append(@,
          [kind |-> kind, end |-> end, els |-> else, loop |-> loop, emitted |-> emitted,
           var |-> var, idx |-> idx, depth |-> Len(x.scopes), entry |-> Height(x),
           sink |-> IF mints THEN Sink(x.sinks + 1) ELSE Nothing,
           stored |-> "none", use |-> use]),
        !.sinks = IF mints THEN @ + 1 ELSE @]

\* The class of a sink is the type its first arm gave it.
SinkVar(b) == Var("sink", b.sink.sink, b.stored)

\* emit_branch_sink_store for the branch i.
SinkStore(x, i) ==
  LET b == x.branches[i]
      y == [x EXCEPT !.branches[i].stored = IF @ = "none" THEN LastValue(x).cls ELSE @]
  IN  IF b.sink = Nothing \/ Height(x) <= b.entry THEN x
      ELSE Drop(Emit(y, <<Store(SinkVar(y.branches[i]), LastValue(x).id)>>))

\* emit_branch_sink_load of a branch that has been closed.
SinkLoad(x, b) ==
  IF b.sink = Nothing \/ b.stored = "none" THEN x
  ELSE Produce(x, Load(x.value, SinkVar(b)))

\* Stores the arm's value, ends the innermost branch and loads the result.
\* Mutant: the last arm's value is not stored.
CloseArm_LoadOnly(x, labels) ==
  LET b == Top(x.branches)
  IN  SinkLoad(Emit([x EXCEPT !.branches = Pop(@)], labels), b)
CloseArm(x, labels) ==
  LET y == SinkStore(x, Len(x.branches))
      b == Top(y.branches)
  IN  SinkLoad(Emit([y EXCEPT !.branches = Pop(@)], labels), b)

IsLast(x, kind) == x.branches # <<>> /\ Top(x.branches).kind = kind

\* A ternary ends with the statement it is in.  (The code loops over the
\* ternaries on top of the stack.  There is one at most: an arm opens none.)
CloseTernaries(x) ==
  IF IsLast(x, "ternary") THEN CloseArm(x, <<Label(Top(x.branches).end)>>) ELSE x

\* apply_deferred_short_circuit: the right operand has arrived.  (`values`
\* also holds the left operands that wait in deferred_binops until their
\* parenthesis closes: a circuit's right operand is right above them.)
Settle(x) ==
  LET c == Top(x.circuits)
      y == [PopValues(x, 1) EXCEPT !.circuits = Pop(@)]
  IN  IF x.circuits = <<>> \/ Len(x.values) # c.before + 1 THEN x
      ELSE Produce(Emit(y, <<Store(c.sink, Top(x.values).id), Label(c.end)>>),
                   Load(x.value, c.sink))

\* The value of a whole expression has arrived and no circuit is open.
IsWhole(x) == Len(x.values) = 1 /\ x.circuits = <<>>

\* finalize_pending_assign and finalize_pending_decl.
FinalizeAssign(x) ==
  IF x.assign = Nothing \/ Height(x) = 0 THEN [x EXCEPT !.assign = Nothing]
  ELSE Drop(Emit([x EXCEPT !.assign = Nothing], <<Store(x.assign, LastValue(x).id)>>))
FinalizeDecl(x) ==
  LET v == x.decl
      id == LastValue(x).id
  IN  IF v = Nothing \/ Height(x) = 0 THEN [x EXCEPT !.decl = Nothing]
      ELSE Declare(Drop(Emit([x EXCEPT !.decl = Nothing],
                             <<VarDef(v, <<id>>), Store(v, id)>>)), v)

NoTarget(x) == x.decl = Nothing /\ x.assign = Nothing /\ ~x.returning

ReturnValue(x) == IF Height(x) = 0 THEN <<>> ELSE <<LastValue(x).id>>
ReturnClass(x) == IF Height(x) = 0 THEN "gp" ELSE LastValue(x).cls

\* check_pending_return.
CheckReturn(x) ==
  CASE ~x.returning -> x
    [] IsLast(x, "ternary") -> [x EXCEPT !.returning = FALSE]
    [] OTHER -> [Drop(Emit(x, <<Return(ReturnValue(x), ReturnClass(x))>>))
                   EXCEPT !.returning = FALSE]

Loops(x) == {i \in DOMAIN x.branches : x.branches[i].kind \in {"while", "for"}}
InnerLoops(x) == {x.branches[i] : i \in {k \in Loops(x) : \A j \in Loops(x) : j <= k}}

\* Loads a counter, adds one and stores it back.
Increment(x, v) ==
  NewValues(Emit(x, <<Load(x.value, v), Const(x.value + 1, "gp"),
                      BinOp(x.value + 2, x.value, x.value + 1, "gp"),
                      Store(v, x.value + 2)>>), 3)

----------------------------------------------------------------------------
(* The handlers.                                                           *)

Node(x, g) ==
  /\ ex' = x
  /\ goal' = g
  /\ UNCHANGED tokens

\* A node that begins a statement or a branch, a call or an operator.
Begin(x, g) ==
  /\ tokens < MaxTokens
  /\ tokens' = tokens + 1
  /\ ex' = x
  /\ goal' = g

\* The walk is in an arm, or at the end of the function, that needs a value.
InBody == Len(ex.scopes) = 1
InArm == /\ ex.branches # <<>> /\ Top(ex.branches).kind = "if"
         /\ Len(ex.scopes) = Top(ex.branches).depth + 1
WantsTail == (InBody /\ ex.nonUnit) \/ (InArm /\ Top(ex.branches).use # "stmt")

\* Any other block may end in a value too ("leftover").  The code stores,
\* loads or returns such a value where something else is expected when the
\* function has a result, or a value is awaited around the block: these
\* programs are "stray".  (One that is at the end of a function without a
\* result is an error.)
Unasked(x) == ~HasSink(x) /\ ~x.returning /\ \A d \in DOMAIN x.scopes : x.scopes[d] = Nothing
MayLeave == ~InBody /\ "leftover" \in Tokens /\ (Unasked(ex) \/ "stray" \in Tokens)

\* The goals an expression that starts here can serve.
Serves ==
  CASE goal \in Expressions -> {goal}
    [] goal = "stmt" -> (IF "discard" \in Tokens THEN {"full"} ELSE {})
                          \cup (IF WantsTail \/ MayLeave THEN {"tail"} ELSE {})
    [] OTHER -> {}

\* A name, a parameter or a literal; beside another value, while there may
\* still be an operator or a call that takes both.  One that begins a value
\* nobody asked for counts as a statement.
Visible == UNION {ex.locals[i] : i \in DOMAIN ex.locals}
Leftover(g) == goal = "stmt" /\ g = "tail" /\ ~WantsTail
Operand ==
  /\ Len(ex.values) < MaxValues
  /\ ex.values # <<>> => tokens < MaxTokens
  /\ \E g \in Serves :
       \E x \in {Produce(ex, Load(ex.value, v)) : v \in Visible \cup Params}
               \cup {Produce(ex, Const(ex.value, cls)) : cls \in IF "const" \in Tokens THEN Classes ELSE {}} :
         IF Leftover(g) THEN Begin(x, g) ELSE Node(x, g)

\* A call whose arguments are on the stack.
CallNode(sig) ==
  LET n == Len(sig.args)
      base == Len(ex.values) - n
      args == [i \in 1..n |-> ex.values[base + i].id]
      x == PopValues(ex, n)
  IN  /\ base >= x.waiting /\ \A i \in 1..n : ex.values[base + i].cls = sig.args[i]
      /\ ex.circuits # <<>> => base >= Top(ex.circuits).before
      /\ \/ /\ sig.ret # "unit" /\ base < MaxValues
            /\ \E g \in Serves : Begin(Produce(x, Call(ex.value, args, sig.ret)), g)
         \/ /\ sig.ret = "unit" /\ goal = "stmt" /\ base = 0
            /\ Begin(NewValues(Emit(x, <<Call(ex.value, args, "gp")>>), 1), "end")

\* execute_binop: both operands have arrived, the right one perhaps in
\* parentheses, whose end settles the circuits in them.
BinOpNode ==
  LET x == Settle(ex)
      n == Len(x.values)
  IN  /\ goal \in Expressions /\ "binop" \in Tokens /\ n >= 2
      /\ x.circuits # <<>> => n - 2 >= Top(x.circuits).before
      /\ x.values[n - 1].cls = x.values[n].cls
      /\ Begin(Produce([PopValues(x, 2) EXCEPT !.waiting = IF @ < n - 2 THEN @ ELSE n - 2],
                      BinOp(x.value, x.values[n - 1].id, x.values[n].id, x.values[n].cls)), goal)

\* `&&` before a call: the left operand goes to a sink, and decides.  In
\* parentheses the operands of the operators before them wait below, in
\* deferred_binops, and no call can take them; one that a call has just
\* computed waits only if "held" is among the tokens.  With any other value
\* below it (of a "stray" program) the operator takes that for its left
\* operand, and what is to be the right one for nothing.
IsResult(v) == \E i \in DOMAIN ex.code : ex.code[i].op = "call" /\ ex.code[i].dst = v
ShortCircuit(x) ==
  LET sink == Var("sink", x.sinks + 1, "gp")
      left == Top(x.values).id
      n == Len(x.values)
  IN  [NewLabels(Emit(PopValues(x, 1), <<Store(sink, left), BranchIfNot(left, x.label)>>), 1)
        EXCEPT !.sinks = @ + 1, !.waiting = n - 1,
               !.circuits = Append(@, [sink |-> sink, end |-> x.label, before |-> n - 1])]
EagerAnd(x) ==
  [NewValues(Emit(PopValues(x, 1),
     <<BinOp(x.value, Top(x.left).id, Top(x.values).id, "gp")>>), 1)
    EXCEPT !.left = Append(Pop(@), [id |-> x.value, cls |-> "gp"])]
AndNode ==
  LET x == Settle(ex)
      n == Len(x.values)
  IN  /\ goal \in Expressions \ {"tcond", "tthen", "telse"} /\ "and" \in Tokens
      /\ n >= 1 /\ Top(x.values).cls = "gp"
      /\ x.circuits # <<>> => n > Top(x.circuits).before
      /\ n > 1 => /\ "group" \in Tokens
                  /\ "held" \notin Tokens => \A i \in 1..(n - 1) : ~IsResult(x.values[i].id)
      /\ x.left # <<>> => "stray" \in Tokens /\ Top(x.left).cls = "gp"
      /\ Begin(IF x.left = <<>> THEN ShortCircuit(x) ELSE EagerAnd(x), goal)

\* `imu v := ..`, or `mut`.
DeclNode(v) ==
  /\ goal = "stmt" /\ "decl" \in Tokens /\ v \notin Visible
  /\ Begin([ex EXCEPT !.decl = v], "full")

\* `v = ..`: the name has been walked as an operand, and is taken back.
AssignNode(v) ==
  /\ goal = "stmt" /\ "assign" \in Tokens /\ v \in Visible
  /\ Begin([PopValues(Produce(ex, Load(ex.value, v)), 1) EXCEPT !.assign = v], "full")

ReturnNode ==
  /\ goal = "stmt" /\ "return" \in Tokens
  /\ ~ex.nonUnit /\ ex.left # <<>> => "stray" \in Tokens
  /\ Begin([ex EXCEPT !.returning = TRUE, !.returned = TRUE], IF ex.nonUnit THEN "full" ELSE "end")

\* A branch opens where a statement or a whole expression can start.
Opens ==
  CASE goal = "stmt" -> {"stmt"} \cup (IF WantsTail THEN {"tail"} ELSE {})
    [] goal = "full" /\ ex.values = <<>> /\ ex.circuits = <<>> -> {"full"}
    [] goal = "else" -> {Top(ex.branches).use}
    [] OTHER -> {}
MayNest == Len(ex.branches) < MaxDepth

\* An `if` that is assigned or returned: the brace of its first arm finishes
\* the statement.  A ternary that is assigned in a function without a result
\* gets no sink.  (A branch with a sink after a value was left is right, but
\* beyond the proofs: "mixed".)
LosesAnArm(kind, use) == use = "full" /\ IF kind = "if" THEN ex.decl = Nothing ELSE ~HasSink(ex)

IfNode ==
  \E use \in Opens :
    /\ "if" \in Tokens /\ MayNest
    /\ HasSink(ex) /\ ex.left # <<>> => "mixed" \in Tokens
    /\ use = "stmt" \/ "value" \in Tokens
    /\ LosesAnArm("if", use) => "assigned" \in Tokens
    /\ Begin(NewLabels(Branch(ex, "if", ex.label, ex.label + 1, 0, FALSE, NoVar, NoVar, use), 2),
            "cond")

\* `when`: met by the end of a function that has met a `return` before, it
\* is not loaded back.
WhenNode ==
  \E use \in Opens \ {"stmt"} :
    /\ "when" \in Tokens /\ MayNest /\ goal # "else"
    /\ HasSink(ex) /\ ex.left # <<>> => "mixed" \in Tokens
    /\ LosesAnArm("ternary", use) => "assigned" \in Tokens
    /\ use = "tail" => InBody /\ (ex.returned => "late" \in Tokens)
    /\ Begin(NewLabels(Branch(ex, "ternary", ex.label, ex.label + 1, 0, FALSE, NoVar, NoVar, use), 2),
            "tcond")

\* `?` branches on the condition; `:` ends the first arm.
QuestionNode ==
  LET b == Len(ex.branches)
  IN  /\ goal = "tcond" /\ Len(ex.values) = 1 /\ Top(ex.values).cls = "gp"
      /\ Node([PopValues(Emit(ex, <<BranchIfNot(Top(ex.values).id, ex.branches[b].els)>>), 1)
                 EXCEPT !.branches[b].emitted = TRUE], "tthen")

\* Without a sink and with a result the arm returns; but then there is one.
ColonNode ==
  LET b == Len(ex.branches)
      x == SinkStore(ex, b)
  IN  /\ goal = "tthen" /\ Len(ex.values) = 1
      /\ Node(Emit(x, <<Jump(ex.branches[b].end), Label(ex.branches[b].els)>>), "telse")

WhileNode ==
  /\ goal = "stmt" /\ "while" \in Tokens /\ MayNest
  /\ Begin(NewLabels(Branch(Emit(ex, <<Label(ex.label)>>), "while", ex.label + 1, 0, ex.label,
                           FALSE, NoVar, NoVar, "stmt"), 2), "cond")

\* `for v := a..b`, both ends literals; the end is kept in a variable.
RangeNode(v) ==
  LET i == ex.value
      end == Var("end", Len(ex.code) + 4, "gp")
      x == Emit(ex, <<Const(i, "gp"), Const(i + 1, "gp"),
                      VarDef(v, <<i>>), Store(v, i),
                      VarDef(end, <<i + 1>>), Store(end, i + 1), Label(ex.label),
                      Load(i + 2, v), Load(i + 3, end), BinOp(i + 4, i + 2, i + 3, "gp"),
                      BranchIfNot(i + 4, ex.label + 1)>>)
      y == Branch(Declare(x, v), "for", ex.label + 1, 0, ex.label, TRUE, v, NoVar, "stmt")
  IN  /\ goal = "stmt" /\ "range" \in Tokens /\ MayNest /\ v.cls = "gp" /\ v \notin Visible
      /\ Begin(NewLabels(NewValues(y, 5), 2), "open")

\* `for v := xs`: an index of its own, the element stored at each turn.
ArrayNode(v, p) ==
  LET i == ex.value
      n == Len(ex.code) + 1
      arr == Var("arr", n, "gp")
      idx == Var("idx", n, "gp")
      x == Emit(ex, <<Load(i, p), VarDef(arr, <<i>>), Store(arr, i),
                      Const(i + 1, "gp"), VarDef(idx, <<i + 1>>), Store(idx, i + 1),
                      VarDef(v, <<>>), Label(ex.label),
                      Load(i + 2, arr), ArrayLen(i + 3, i + 2), Load(i + 4, idx),
                      BinOp(i + 5, i + 4, i + 3, "gp"), BranchIfNot(i + 5, ex.label + 1),
                      Load(i + 6, arr), Load(i + 7, idx),
                      ArrayIndex(i + 8, i + 6, i + 7, v.cls), Store(v, i + 8)>>)
      y == Branch(Declare(x, v), "for", ex.label + 1, 0, ex.label, TRUE, v, idx, "stmt")
  IN  /\ goal = "stmt" /\ "array" \in Tokens /\ MayNest /\ v \notin Visible /\ p.cls = "gp"
      /\ Begin(NewLabels(NewValues(y, 9), 2), "open")

\* `{`: branch on the condition, unless a loop has, and open a scope.
LBraceNode ==
  LET b == Len(ex.branches)
      x == Settle(ex)
      ctx == ex.branches[b]
  IN  \/ /\ goal \in {"open", "else"}
         /\ Node(PushScope(ex), "stmt")
      \/ /\ goal = "cond" /\ IsWhole(x) /\ Top(x.values).cls = "gp"
         /\ Node(PushScope(
              [PopValues(Emit(x, <<BranchIfNot(Top(x.values).id,
                                     IF ctx.els # 0 THEN ctx.els ELSE ctx.end)>>), 1)
                EXCEPT !.branches[b].emitted = TRUE]), "stmt")

BreakNode ==
  /\ goal = "stmt" /\ "break" \in Tokens
  /\ \E c \in InnerLoops(ex) : Begin(Emit(ex, <<Jump(c.end)>>), "end")

\* In a loop over an array `continue` advances the element, not the index
\* ("skip"; without it such programs are left out).
\* Mutant: the counter of a `for` is not advanced.
ContinueNode_Forgets ==
  /\ goal = "stmt" /\ "continue" \in Tokens
  /\ \E c \in InnerLoops(ex) :
       /\ c.idx # NoVar => "skip" \in Tokens
       /\ Begin(Emit(ex, <<Jump(c.loop)>>), "end")
ContinueNode ==
  /\ goal = "stmt" /\ "continue" \in Tokens
  /\ \E c \in InnerLoops(ex) :
       /\ c.idx # NoVar => "skip" \in Tokens
       /\ LET x == IF c.kind = "for" THEN Increment(ex, c.var) ELSE ex
          IN  Begin(Emit(x, <<Jump(c.loop)>>), "end")

\* The end of a statement finishes what it began: circuits, ternaries, the
\* assignment, the declaration, the return; else the value is dropped.
SemicolonNode ==
  LET x == CloseTernaries(Settle(ex))
      y == FinalizeDecl(FinalizeAssign(x))
      n == Len(y.circuits)
      z == Emit([y EXCEPT !.circuits = <<>>], [i \in 1..n |-> Label(y.circuits[n + 1 - i].end)])
  IN  /\ \/ goal = "end"
         \/ goal = "full" /\ IsWhole(Settle(ex))
         \/ goal = "telse" /\ Top(ex.branches).use = "full" /\ Len(ex.values) = 1
      /\ Node(LeaveBehind(IF NoTarget(x) THEN Drop(z) ELSE CheckReturn(z)), "stmt")

\* Mutant: the first arm's value stays on the stack.
ElseNode_KeepsValue ==
  LET b == Len(ex.branches)
      x == ex
  IN  /\ goal = "elsetok"
      /\ Node(LeaveBehind([Emit(x, <<Jump(x.branches[b].end), Label(x.branches[b].els)>>)
                       EXCEPT !.branches[b].els = 0]), "else")
ElseNode ==
  LET b == Len(ex.branches)
      x == SinkStore(ex, b)
  IN  /\ goal = "elsetok"
      /\ Node(LeaveBehind([Emit(x, <<Jump(x.branches[b].end), Label(x.branches[b].els)>>)
                       EXCEPT !.branches[b].els = 0]), "else")

----------------------------------------------------------------------------
(* `}` ends statements that lack a semicolon, then what the brace opened.  *)

\* The function: a last ternary is closed, or, after an earlier `return`,
\* returned from its second arm; then the value of the body is returned.
LateTernary(x) ==
  IF x.returned /\ IsLast(x, "ternary")
  THEN [Emit(x, (IF x.nonUnit /\ Height(x) # 0
                 THEN <<Return(ReturnValue(x), ReturnClass(x))>> ELSE <<>>)
                \o <<Label(Top(x.branches).end)>>)
          EXCEPT !.branches = Pop(@)]
  ELSE x
EndFunction(x) ==
  LET y == CloseTernaries(LateTernary(x))
  IN  IF Top(y.code).op \in {"return", "jump"} THEN y
      ELSE Emit(y, <<Return(IF y.nonUnit THEN ReturnValue(y) ELSE <<>>, ReturnClass(y))>>)

\* What the end of the body advances: the index of a loop over an array.
Counter(b) == IF b.idx # NoVar THEN b.idx ELSE b.var

CloseLoop(x) ==
  LET b == Top(x.branches)
      y == IF b.kind = "for" THEN Increment(x, Counter(b)) ELSE x
  IN  [Emit(y, <<Jump(b.loop), Label(b.end)>>) EXCEPT !.branches = Pop(@)]

\* `closed` is the use of the branch closed last.
CloseIf(x) ==
  LET b == Top(x.branches)
  IN  [CloseArm(x, (IF b.els # 0 THEN <<Label(b.els)>> ELSE <<>>) \o <<Label(b.end)>>)
         EXCEPT !.closed = b.use]

\* An `else if` is an if in the other's arm: its end is the end of both.
\* Mutant: the outer if stays open.
Cascades_Not(x) == FALSE
Cascades(x) ==
  /\ IsLast(x, "if")
  /\ Top(x.branches).els = 0
  /\ Len(x.scopes) = Top(x.branches).depth + 1

\* What follows a closed branch depends on where the outermost one closed
\* was met.
After(use) == CASE use = "stmt" -> "stmt" [] use = "full" -> "end" [] use = "tail" -> "close"

\* The walk has found all the block needs.
Diverged == Top(ex.code).op \in {"return", "jump"}
BlockIsComplete ==
  \/ /\ goal = "stmt"
     /\ \/ InBody /\ (ex.nonUnit => ex.returned \/ (ex.left # <<>> /\ "stray" \in Tokens))
        \/ ~InBody /\ (WantsTail => Diverged \/ "stray" \in Tokens)
  \/ goal \in {"tail", "close"} /\ IsWhole(Settle(ex))
  \/ /\ goal = "full" /\ IsWhole(Settle(ex))
     /\ ex.returning \/ (ex.assign # Nothing /\ ~WantsTail)
  \/ goal = "end" /\ ex.returning
  \/ goal = "telse" /\ InBody /\ Top(ex.branches).use = "tail" /\ Len(ex.values) = 1

\* (A value that the block of a statement ends in is left.)
RBraceNode ==
  LET x == CheckReturn(FinalizeAssign(Settle(ex)))
      b == Top(x.branches)
      y == IF b.use = "stmt" THEN LeaveBehind(x) ELSE x
  IN  /\ BlockIsComplete
      /\ \/ InBody /\ Node(EndFunction(x), "done")
         \/ /\ ~InBody /\ b.kind = "if" /\ b.els # 0
            /\ Node(PopScope(y), "elsetok")
         \/ /\ ~InBody /\ Len(x.scopes) = b.depth + 1
            /\ b.use # "stmt" => b.els = 0 \/ "stray" \in Tokens
            /\ IF b.kind = "if" THEN Node(CloseIf(y), "merge")
                                ELSE Node(PopScope(CloseLoop(y)), "stmt")

\* The loop of the cascade, a step per if it closes, and the end of the block.
MergeNode ==
  /\ goal = "merge"
  /\ IF Cascades(ex) THEN Node(CloseIf(ex), "merge")
     ELSE LET x == PopScope([ex EXCEPT !.closed = "stmt"])
          IN  Node(IF ex.closed = "stmt" THEN LeaveBehind(x) ELSE x, After(ex.closed))

Next ==
  \/ Operand \/ BinOpNode \/ AndNode \/ ReturnNode \/ IfNode \/ WhenNode
  \/ QuestionNode \/ ColonNode \/ WhileNode \/ LBraceNode \/ BreakNode
  \/ ContinueNode \/ SemicolonNode \/ ElseNode \/ RBraceNode \/ MergeNode
  \/ \E sig \in Signatures : CallNode(sig)
  \/ \E v \in Vars : \/ DeclNode(v) \/ AssignNode(v) \/ RangeNode(v)
                   \/ \E p \in Params : ArrayNode(v, p)

Spec == Init /\ [][Next]_lowering

----------------------------------------------------------------------------
(* The code of a whole function; LoweringPaths says more about it.         *)

Lowered == goal = "done"
All == DOMAIN ex.code

\* Every jump lands on one label, through every way in which branches close:
\* by an else, a cascade, a semicolon or the end of the function.
JumpsLand ==
  Lowered => \A i \in All :
    ex.code[i].op \in {"jump", "branch"} => Cardinality(Landings(ex.code, ex.code[i].target)) = 1

----------------------------------------------------------------------------
(* The inductive invariant of the proofs: types, who owes which label, and *)
(* how branches and scopes nest.                                           *)

Ops == {"fundef", "const", "load", "binop", "arraylen", "arrayindex", "call", "vardef",
        "store", "label", "jump", "branch", "return"}
Uses0 == {"stmt", "full", "tail"}
Kinds == {"if", "ternary", "while", "for"}
Instructions ==
  [op : Ops, dst : Nat, uses : Seq(Nat), target : Nat, var : Names, cls : Classes]
Contexts ==
  [kind : Kinds, end : Nat, els : Nat, loop : Nat, emitted : BOOLEAN, var : Names,
   idx : Names, depth : Nat, entry : Nat, sink : {Nothing} \cup [sink : Nat],
   stored : Classes \cup {"none"}, use : Uses0]
Results == [id : Nat, cls : Classes]
Circuits == [sink : Names, end : Nat, before : Nat]
Executors ==
  [code : Seq(Instructions), left : Seq(Results), values : Seq(Results),
   waiting : Nat, value : Nat,
   label : Nat \ {0}, branches : Seq(Contexts), scopes : Seq({Nothing} \cup Names),
   locals : Seq(SUBSET Names), decl : {Nothing} \cup Names,
   assign : {Nothing} \cup Names, returning : BOOLEAN, returned : BOOLEAN,
   sinks : Nat, circuits : Seq(Circuits),
   closed : Uses0, nonUnit : BOOLEAN]
TernaryGoals == {"tcond", "tthen", "telse"}
Facing == {"cond", "open", "else", "elsetok"}
Goals == TernaryGoals \cup Facing \cup {"stmt", "tail", "full", "end", "close", "merge", "done"}

TypeOK == /\ ex \in Executors
          /\ Len(ex.locals) = Len(ex.scopes) /\ Len(ex.scopes) > 0
          /\ goal \in Goals /\ tokens \in 0..MaxTokens

\* The owners of a label: where it stands, or who is going to place it.  A
\* ternary keeps the label of its second arm when it has placed it.
OwesElse(x, g, i) ==
  x.branches[i].els # 0 /\ (g = "telse" => x.branches[i].kind # "ternary")
Debts(x, g, l) ==
  {<<"end", i>> : i \in {j \in DOMAIN x.branches : x.branches[j].end = l}}
    \cup {<<"else", i>> : i \in {j \in DOMAIN x.branches :
                                  OwesElse(x, g, j) /\ x.branches[j].els = l}}
    \cup {<<"circuit", i>> : i \in {j \in DOMAIN x.circuits : x.circuits[j].end = l}}
Owners(x, g, l) == {<<"code", k>> : k \in Landings(x.code, l)} \cup Debts(x, g, l)

\* Every label that was minted has one owner at most, every one that is jumped
\* to has one, and that of a loop stands.
Jumps(x) == {k \in DOMAIN x.code : x.code[k].op \in {"jump", "branch"}}
LabelsOwned(x, g) ==
  /\ \A l \in 1..(x.label - 1) : \A o, p \in Owners(x, g, l) : o = p
  /\ \A k \in DOMAIN x.code : x.code[k].op = "label" => x.code[k].target \in 1..(x.label - 1)
  /\ \A i \in DOMAIN x.branches : x.branches[i].end \in 1..(x.label - 1)
                                  /\ x.branches[i].els \in 0..(x.label - 1)
  /\ \A i \in DOMAIN x.circuits : x.circuits[i].end \in 1..(x.label - 1)
  /\ \A k \in Jumps(x) : Owners(x, g, x.code[k].target) # {}
  /\ \A i \in Loops(x) : Landings(x.code, x.branches[i].loop) # {}

\* How branches and scopes nest.  A branch is as deep as the scopes it was met
\* in; the walk is in its scope, and past the condition of a ternary.
Depths(x, g) ==
  \A i \in DOMAIN x.branches :
    /\ x.branches[i].depth \in 1..Len(x.scopes)
    /\ x.branches[i].kind # "ternary" /\ g \notin Facing => x.branches[i].depth < Len(x.scopes)

\* Two branches of one depth are an if, in its `else`, and an if.
Chains(x) ==
  \A i, j \in DOMAIN x.branches : i < j =>
    /\ x.branches[i].depth <= x.branches[j].depth
    /\ x.branches[i].depth = x.branches[j].depth =>
         x.branches[i].kind = "if" /\ x.branches[i].els = 0 /\ x.branches[j].kind = "if"

\* There is a ternary when the walk is in one, and it is the innermost branch.
Ternaries(x, g) ==
  /\ \A i \in DOMAIN x.branches :
       x.branches[i].kind = "ternary" <=> i = Len(x.branches) /\ g \in TernaryGoals
  /\ g \in TernaryGoals => Len(x.branches) > 0

Arms(x) ==
  \A i \in DOMAIN x.branches :
    /\ x.branches[i].kind \in {"while", "for"} => x.branches[i].els = 0
    /\ x.branches[i].kind = "ternary" => x.branches[i].els # 0

\* A branch opened each scope but the first; in the merge its branches may
\* all have been closed.
ScopesOpened(x, g) ==
  \A d \in 1..(Len(x.scopes) - IF g = "merge" THEN 2 ELSE 1) :
    \E i \in DOMAIN x.branches : x.branches[i].depth = d /\ x.branches[i].kind # "ternary"

\* Between a branch and its scope the walk faces the innermost branch.
Faces(x, g) ==
  LET b == x.branches[Len(x.branches)]
  IN  g \in Facing =>
        /\ Len(x.branches) > 0 /\ b.depth = Len(x.scopes)
        /\ g \in {"else", "elsetok"} => b.kind = "if" /\ (b.els = 0 <=> g = "else")

Merges(x, g) ==
  g = "merge" =>
    /\ Len(x.scopes) > 1
    /\ \A i \in DOMAIN x.branches :
         x.branches[i].depth = Len(x.scopes) - 1 => x.branches[i].kind = "if" /\ x.branches[i].els = 0

Nested(x, g) ==
  /\ Depths(x, g) /\ Chains(x) /\ Ternaries(x, g) /\ Arms(x)
  /\ ScopesOpened(x, g) /\ Faces(x, g) /\ Merges(x, g)
  /\ x.circuits # <<>> => g \in {"cond", "tail", "full"}
  /\ g = "done" => x.branches = <<>>

IInv == TypeOK /\ LabelsOwned(ex, goal) /\ Nested(ex, goal)
=============================================================================
