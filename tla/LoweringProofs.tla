--------------------------- MODULE LoweringProofs ---------------------------
(***************************************************************************)
(* Theorems about Lowering: every jump of a lowered function lands.  At    *)
(* the end, what its helpers do with the values that are left.             *)
(***************************************************************************)
EXTENDS Lowering, LoweringPaths, SequenceTheorems, FiniteSetTheorems, TLAPS

----------------------------------------------------------------------------
(* Instructions.                                                           *)

Controls == {"label", "jump", "branch"}
Plain == {i \in Instructions : i.op \notin Controls}

LEMMA NamesTyped ==
  /\ NoVar \in Names /\ NoVar.cls = "gp"
  /\ \A n \in Nat : \A cls \in Classes : Var("sink", n, cls) \in Names
  /\ \A n \in Nat : /\ Var("end", n, "gp") \in Names /\ Var("arr", n, "gp") \in Names
                    /\ Var("idx", n, "gp") \in Names
  /\ \A v \in Names : v.cls \in Classes
  /\ "gp" \in Classes
  /\ <<>> \in Seq(Nat) /\ \A i, j \in Nat : <<i>> \in Seq(Nat) /\ <<i, j>> \in Seq(Nat)
<1>1. NoVar \in Names /\ NoVar.cls = "gp"
  BY DEF NoVar, Var, Names, Classes
<1>2. \A n \in Nat : \A cls \in Classes : Var("sink", n, cls) \in Names
  BY DEF Var, Names
<1>3. "gp" \in Classes
  BY DEF Classes
<1>4. \A n \in Nat : /\ Var("end", n, "gp") \in Names /\ Var("arr", n, "gp") \in Names
                     /\ Var("idx", n, "gp") \in Names
  BY <1>3 DEF Var, Names
<1>5. \A v \in Names : v.cls \in Classes
  BY DEF Names
<1>6. <<>> \in Seq(Nat) /\ \A i, j \in Nat : <<i>> \in Seq(Nat) /\ <<i, j>> \in Seq(Nat)
  OBVIOUS
<1> QED BY <1>1, <1>2, <1>3, <1>4, <1>5, <1>6

LEMMA PlainInsns ==
  /\ \A d \in Nat, cls \in Classes : Const(d, cls) \in Plain
  /\ \A d \in Nat, v \in Names : Load(d, v) \in Plain
  /\ \A d, l, r \in Nat : \A cls \in Classes : BinOp(d, l, r, cls) \in Plain
  /\ \A d, a \in Nat : ArrayLen(d, a) \in Plain
  /\ \A d, a, i \in Nat : \A cls \in Classes : ArrayIndex(d, a, i, cls) \in Plain
  /\ \A d \in Nat, args \in Seq(Nat) : \A cls \in Classes : Call(d, args, cls) \in Plain
  /\ \A v \in Names : VarDef(v, <<>>) \in Plain
  /\ \A v \in Names, i \in Nat : VarDef(v, <<i>>) \in Plain
  /\ \A v \in Names, i \in Nat : Store(v, i) \in Plain
  /\ \A u \in Seq(Nat), cls \in Classes : Return(u, cls) \in Plain
<1>1. \A d \in Nat, cls \in Classes : Const(d, cls) \in Plain
  <2>1. \A d \in Nat, cls \in Classes : Const(d, cls) \in Instructions
    BY NamesTyped DEF Const, Insn, Instructions, Ops
  <2>2. \A d \in Nat, cls \in Classes : Const(d, cls).op = "const"
    BY DEF Const, Insn
  <2> QED BY <2>1, <2>2 DEF Plain, Controls
<1>2. \A d \in Nat, v \in Names : Load(d, v) \in Plain
  <2>1. \A d \in Nat, v \in Names : Load(d, v) \in Instructions
    BY NamesTyped DEF Load, Insn, Instructions, Ops
  <2>2. \A d \in Nat, v \in Names : Load(d, v).op = "load"
    BY DEF Load, Insn
  <2> QED BY <2>1, <2>2 DEF Plain, Controls
<1>3. \A d, l, r \in Nat : \A cls \in Classes : BinOp(d, l, r, cls) \in Plain
  <2>1. \A d, l, r \in Nat : \A cls \in Classes : BinOp(d, l, r, cls) \in Instructions
    BY NamesTyped DEF BinOp, Insn, Instructions, Ops
  <2>2. \A d, l, r \in Nat : \A cls \in Classes : BinOp(d, l, r, cls).op = "binop"
    BY DEF BinOp, Insn
  <2> QED BY <2>1, <2>2 DEF Plain, Controls
<1>4. \A d, a \in Nat : ArrayLen(d, a) \in Plain
  <2>1. \A d, a \in Nat : ArrayLen(d, a) \in Instructions
    BY NamesTyped DEF ArrayLen, Insn, Instructions, Ops
  <2>2. \A d, a \in Nat : ArrayLen(d, a).op = "arraylen"
    BY DEF ArrayLen, Insn
  <2> QED BY <2>1, <2>2 DEF Plain, Controls
<1>5. \A d, a, i \in Nat : \A cls \in Classes : ArrayIndex(d, a, i, cls) \in Plain
  <2>1. \A d, a, i \in Nat : \A cls \in Classes : ArrayIndex(d, a, i, cls) \in Instructions
    BY NamesTyped DEF ArrayIndex, Insn, Instructions, Ops
  <2>2. \A d, a, i \in Nat : \A cls \in Classes : ArrayIndex(d, a, i, cls).op = "arrayindex"
    BY DEF ArrayIndex, Insn
  <2> QED BY <2>1, <2>2 DEF Plain, Controls
<1>6. \A d \in Nat, args \in Seq(Nat) : \A cls \in Classes : Call(d, args, cls) \in Plain
  <2>1. \A d \in Nat, args \in Seq(Nat) : \A cls \in Classes : Call(d, args, cls) \in Instructions
    BY NamesTyped DEF Call, Insn, Instructions, Ops
  <2>2. \A d \in Nat, args \in Seq(Nat) : \A cls \in Classes : Call(d, args, cls).op = "call"
    BY DEF Call, Insn
  <2> QED BY <2>1, <2>2 DEF Plain, Controls
<1>7. \A v \in Names : VarDef(v, <<>>) \in Plain
  <2>1. \A v \in Names : VarDef(v, <<>>) \in Instructions
    BY NamesTyped DEF VarDef, Insn, Instructions, Ops
  <2>2. \A v \in Names : VarDef(v, <<>>).op = "vardef"
    BY DEF VarDef, Insn
  <2> QED BY <2>1, <2>2 DEF Plain, Controls
<1>8. \A v \in Names, i \in Nat : VarDef(v, <<i>>) \in Plain
  <2>1. \A v \in Names, i \in Nat : VarDef(v, <<i>>) \in Instructions
    BY NamesTyped DEF VarDef, Insn, Instructions, Ops
  <2>2. \A v \in Names, i \in Nat : VarDef(v, <<i>>).op = "vardef"
    BY DEF VarDef, Insn
  <2> QED BY <2>1, <2>2 DEF Plain, Controls
<1>9. \A v \in Names, i \in Nat : Store(v, i) \in Plain
  <2>1. \A v \in Names, i \in Nat : Store(v, i) \in Instructions
    BY NamesTyped DEF Store, Insn, Instructions, Ops
  <2>2. \A v \in Names, i \in Nat : Store(v, i).op = "store"
    BY DEF Store, Insn
  <2> QED BY <2>1, <2>2 DEF Plain, Controls
<1>10. \A u \in Seq(Nat), cls \in Classes : Return(u, cls) \in Plain
  <2>1. \A u \in Seq(Nat), cls \in Classes : Return(u, cls) \in Instructions
    BY NamesTyped DEF Return, Insn, Instructions, Ops
  <2>2. \A u \in Seq(Nat), cls \in Classes : Return(u, cls).op = "return"
    BY DEF Return, Insn
  <2> QED BY <2>1, <2>2 DEF Plain, Controls
<1> QED BY <1>1, <1>2, <1>3, <1>4, <1>5, <1>6, <1>7, <1>8, <1>9, <1>10

LEMMA ControlInsns ==
  ASSUME NEW l \in Nat, NEW i \in Nat
  PROVE  /\ Label(l) \in Instructions /\ Label(l).op = "label" /\ Label(l).target = l
         /\ Jump(l) \in Instructions /\ Jump(l).op = "jump" /\ Jump(l).target = l
         /\ BranchIfNot(i, l) \in Instructions
         /\ BranchIfNot(i, l).op = "branch" /\ BranchIfNot(i, l).target = l
<1>1. Label(l) \in Instructions /\ Label(l).op = "label" /\ Label(l).target = l
  BY NamesTyped DEF Label, Insn, Instructions, Ops
<1>2. Jump(l) \in Instructions /\ Jump(l).op = "jump" /\ Jump(l).target = l
  BY NamesTyped DEF Jump, Insn, Instructions, Ops
<1>3. /\ BranchIfNot(i, l) \in Instructions
      /\ BranchIfNot(i, l).op = "branch" /\ BranchIfNot(i, l).target = l
  BY NamesTyped DEF BranchIfNot, Insn, Instructions, Ops
<1> QED BY <1>1, <1>2, <1>3

----------------------------------------------------------------------------
(* Steps of the executor that concern neither labels nor nesting.          *)

Branchy(b) == <<b.kind, b.end, b.els, b.loop, b.depth, b.use>>
Quiet(x, y) ==
  /\ y \in Executors
  /\ y.label = x.label /\ y.circuits = x.circuits /\ y.scopes = x.scopes
  /\ Len(y.locals) = Len(x.locals)
  /\ Len(y.branches) = Len(x.branches)
  /\ \A i \in 1..Len(x.branches) : Branchy(y.branches[i]) = Branchy(x.branches[i])
  /\ Len(y.code) >= Len(x.code)
  /\ \A k \in 1..Len(x.code) : y.code[k] = x.code[k]
  /\ \A k \in Len(x.code) + 1 .. Len(y.code) : y.code[k].op \notin Controls

LEMMA Fields ==
  ASSUME NEW x \in Executors
  PROVE  /\ x.code \in Seq(Instructions) /\ Len(x.code) \in Nat
         /\ DOMAIN x.code = 1..Len(x.code)
         /\ x.values \in Seq(Results) /\ Len(x.values) \in Nat
         /\ DOMAIN x.values = 1..Len(x.values)
         /\ x.left \in Seq(Results) /\ Len(x.left) \in Nat /\ x.waiting \in Nat
         /\ x.branches \in Seq(Contexts) /\ Len(x.branches) \in Nat
         /\ DOMAIN x.branches = 1..Len(x.branches)
         /\ x.circuits \in Seq(Circuits)
         /\ Len(x.circuits) \in Nat /\ DOMAIN x.circuits = 1..Len(x.circuits)
         /\ x.scopes \in Seq({Nothing} \cup Names) /\ Len(x.scopes) \in Nat
         /\ x.locals \in Seq(SUBSET Names) /\ Len(x.locals) \in Nat
         /\ x.value \in Nat /\ x.label \in Nat /\ x.label > 0 /\ x.sinks \in Nat
         /\ x.decl \in {Nothing} \cup Names /\ x.assign \in {Nothing} \cup Names
BY DEF Executors

LEMMA QuietSame ==
  ASSUME NEW x \in Executors, NEW y \in Executors,
         y.code = x.code, y.branches = x.branches, y.label = x.label,
         y.circuits = x.circuits, y.scopes = x.scopes, Len(y.locals) = Len(x.locals)
  PROVE  Quiet(x, y)
BY Fields DEF Quiet

LEMMA QuietTrans ==
  ASSUME NEW x \in Executors, NEW y, NEW z, Quiet(x, y), Quiet(y, z)
  PROVE  Quiet(x, z)
<1>1. y \in Executors /\ z \in Executors
  BY DEF Quiet
<1>2. /\ Len(x.code) \in Nat /\ Len(y.code) \in Nat /\ Len(z.code) \in Nat
  BY <1>1, Fields
<1>3. \A k \in Len(x.code) + 1 .. Len(z.code) : z.code[k].op \notin Controls
  <2>1. TAKE k \in Len(x.code) + 1 .. Len(z.code)
  <2>2. CASE k <= Len(y.code)
    <3>1. k \in Len(x.code) + 1 .. Len(y.code) /\ k \in 1..Len(y.code)
      BY <2>2, <1>2
    <3> QED BY <3>1 DEF Quiet
  <2>3. CASE k > Len(y.code)
    BY <2>3, <1>2 DEF Quiet
  <2> QED BY <2>2, <2>3, <1>2
<1>4. \A k \in 1..Len(x.code) : z.code[k] = x.code[k]
  BY <1>2 DEF Quiet
<1>5. \A i \in 1..Len(x.branches) : Branchy(z.branches[i]) = Branchy(x.branches[i])
  BY DEF Quiet
<1> QED BY <1>1, <1>2, <1>3, <1>4, <1>5 DEF Quiet

LEMMA Joined ==
  ASSUME NEW c \in Seq(Instructions), NEW s \in Seq(Instructions)
  PROVE  /\ c \o s \in Seq(Instructions) /\ Len(c \o s) = Len(c) + Len(s)
         /\ \A k \in 1..Len(c) : (c \o s)[k] = c[k]
         /\ \A k \in Len(c) + 1 .. Len(c) + Len(s) : (c \o s)[k] = s[k - Len(c)]
<1>1. Len(c) \in Nat /\ Len(s) \in Nat
  OBVIOUS
<1>2. \A k \in Len(c) + 1 .. Len(c) + Len(s) : k \in 1..Len(c) + Len(s) /\ ~(k <= Len(c))
  BY <1>1
<1>3. \A k \in 1..Len(c) : k \in 1..Len(c) + Len(s) /\ k <= Len(c)
  BY <1>1
<1> QED BY <1>2, <1>3, ConcatProperties

LEMMA EmitFacts ==
  ASSUME NEW x \in Executors, NEW s \in Seq(Instructions)
  PROVE  /\ Emit(x, s) \in Executors
         /\ Emit(x, s).code = x.code \o s
         /\ Emit(x, s) = [x EXCEPT !.code = x.code \o s]
         /\ Len(Emit(x, s).code) = Len(x.code) + Len(s)
         /\ \A k \in 1..Len(x.code) : Emit(x, s).code[k] = x.code[k]
         /\ \A k \in Len(x.code) + 1 .. Len(x.code) + Len(s) :
              Emit(x, s).code[k] = s[k - Len(x.code)]
<1> DEFINE t == x.code \o s
<1>1. /\ t \in Seq(Instructions) /\ Len(t) = Len(x.code) + Len(s)
      /\ \A k \in 1..Len(x.code) : t[k] = x.code[k]
      /\ \A k \in Len(x.code) + 1 .. Len(x.code) + Len(s) : t[k] = s[k - Len(x.code)]
  BY Fields, ConcatProperties
<1>2. Emit(x, s) = [x EXCEPT !.code = t]
  BY DEF Emit
<1> HIDE DEF t
<1>3. Emit(x, s) \in Executors /\ Emit(x, s).code = t
  BY <1>1, <1>2 DEF Executors
<1> QED BY <1>1, <1>2, <1>3 DEF t

LEMMA QuietEmit ==
  ASSUME NEW x \in Executors, NEW s \in Seq(Plain)
  PROVE  Quiet(x, Emit(x, s))
<1>1. s \in Seq(Instructions) /\ Len(s) \in Nat /\ \A k \in 1..Len(s) : s[k].op \notin Controls
  BY DEF Plain
<1>2. Emit(x, s) \in Executors
  BY <1>1, EmitFacts
<1>3. /\ Emit(x, s).label = x.label /\ Emit(x, s).circuits = x.circuits
      /\ Emit(x, s).scopes = x.scopes /\ Emit(x, s).locals = x.locals
      /\ Emit(x, s).branches = x.branches
  BY DEF Emit, Executors
<1>4. /\ Len(Emit(x, s).code) = Len(x.code) + Len(s)
      /\ \A k \in 1..Len(x.code) : Emit(x, s).code[k] = x.code[k]
      /\ \A k \in Len(x.code) + 1 .. Len(x.code) + Len(s) :
           Emit(x, s).code[k] = s[k - Len(x.code)]
  BY <1>1, EmitFacts
<1>5. Len(x.code) \in Nat
  BY Fields
<1>6. \A k \in Len(x.code) + 1 .. Len(x.code) + Len(s) :
        Emit(x, s).code[k].op \notin Controls
  <2>1. TAKE k \in Len(x.code) + 1 .. Len(x.code) + Len(s)
  <2>2. k - Len(x.code) \in 1..Len(s)
    BY <1>1, <1>5
  <2> QED BY <2>2, <1>1, <1>4
<1>7. Len(x.code) + Len(s) >= Len(x.code)
  BY <1>1, <1>5
<1> QED BY <1>2, <1>3, <1>4, <1>6, <1>7 DEF Quiet

LEMMA QuietPush ==
  ASSUME NEW x \in Executors, NEW id \in Nat, NEW cls \in Classes
  PROVE  Quiet(x, Push(x, id, cls))
<1>1. Append(x.values, [id |-> id, cls |-> cls]) \in Seq(Results)
  <2>1. [id |-> id, cls |-> cls] \in Results
    BY DEF Results
  <2> QED BY <2>1, Fields, AppendProperties
<1>2. Push(x, id, cls) \in Executors
  BY <1>1 DEF Push, Executors
<1> QED BY <1>2, QuietSame DEF Push, Executors

LEMMA QuietNewValues ==
  ASSUME NEW x \in Executors, NEW n \in Nat
  PROVE  Quiet(x, NewValues(x, n))
<1> DEFINE m == x.value + n
<1>1. m \in Nat /\ NewValues(x, n) = [x EXCEPT !.value = m]
  BY DEF NewValues, Executors
<1> HIDE DEF m
<1>2. NewValues(x, n) \in Executors
  BY <1>1 DEF Executors
<1> QED BY <1>1, <1>2, QuietSame DEF Executors

LEMMA QuietPop ==
  ASSUME NEW x \in Executors, NEW n \in 0..Len(x.values)
  PROVE  Quiet(x, PopValues(x, n))
<1> DEFINE s == SubSeq(x.values, 1, Len(x.values) - n)
<1>1. s \in Seq(Results)
  BY Fields, SubSeqProperties
<1>2. PopValues(x, n) = [x EXCEPT !.values = s]
  BY DEF PopValues
<1> HIDE DEF s
<1>3. PopValues(x, n) \in Executors
  BY <1>1, <1>2 DEF Executors
<1> QED BY <1>2, <1>3, QuietSame DEF Executors

LEMMA QuietProduce ==
  ASSUME NEW x \in Executors, NEW i \in Plain
  PROVE  Quiet(x, Produce(x, i))
<1>1. i.dst \in Nat /\ i.cls \in Classes /\ <<i>> \in Seq(Plain)
  BY DEF Plain, Instructions
<1>2. Quiet(x, Emit(x, <<i>>))
  BY <1>1, QuietEmit
<1>3. Quiet(Emit(x, <<i>>), NewValues(Emit(x, <<i>>), 1))
  BY <1>2, QuietNewValues DEF Quiet
<1>4. Quiet(NewValues(Emit(x, <<i>>), 1), Produce(x, i))
  BY <1>1, <1>3, QuietPush DEF Quiet, Produce
<1>5. Quiet(x, NewValues(Emit(x, <<i>>), 1))
  BY <1>2, <1>3, QuietTrans
<1> QED BY <1>4, <1>5, QuietTrans

\* What the fields of statements are set to does not matter.
LEMMA QuietFields ==
  ASSUME NEW x \in Executors
  PROVE  /\ Quiet(x, x)
         /\ \A v \in {Nothing} \cup Names : Quiet(x, [x EXCEPT !.decl = v])
         /\ \A v \in {Nothing} \cup Names : Quiet(x, [x EXCEPT !.assign = v])
         /\ \A b \in BOOLEAN : Quiet(x, [x EXCEPT !.returning = b])
         /\ \A b, c \in BOOLEAN : Quiet(x, [x EXCEPT !.returning = b, !.returned = c])
         /\ \A n \in Nat : Quiet(x, [x EXCEPT !.sinks = n])
         /\ \A u \in Uses0 : Quiet(x, [x EXCEPT !.closed = u])
<1>1. Quiet(x, x)
  BY QuietSame
<1>2. ASSUME NEW v \in {Nothing} \cup Names PROVE Quiet(x, [x EXCEPT !.decl = v])
  <2>1. [x EXCEPT !.decl = v] \in Executors
    BY DEF Executors
  <2> QED BY <2>1, QuietSame DEF Executors
<1>3. ASSUME NEW v \in {Nothing} \cup Names PROVE Quiet(x, [x EXCEPT !.assign = v])
  <2>1. [x EXCEPT !.assign = v] \in Executors
    BY DEF Executors
  <2> QED BY <2>1, QuietSame DEF Executors
<1>4. ASSUME NEW b \in BOOLEAN PROVE Quiet(x, [x EXCEPT !.returning = b])
  <2>1. [x EXCEPT !.returning = b] \in Executors
    BY DEF Executors
  <2> QED BY <2>1, QuietSame DEF Executors
<1>5. ASSUME NEW b \in BOOLEAN, NEW c \in BOOLEAN
      PROVE  Quiet(x, [x EXCEPT !.returning = b, !.returned = c])
  <2>1. [x EXCEPT !.returning = b, !.returned = c] \in Executors
    BY DEF Executors
  <2> QED BY <2>1, QuietSame DEF Executors
<1>6. ASSUME NEW n \in Nat PROVE Quiet(x, [x EXCEPT !.sinks = n])
  <2>1. [x EXCEPT !.sinks = n] \in Executors
    BY DEF Executors
  <2> QED BY <2>1, QuietSame DEF Executors
<1>7. ASSUME NEW u \in Uses0 PROVE Quiet(x, [x EXCEPT !.closed = u])
  <2>1. [x EXCEPT !.closed = u] \in Executors
    BY DEF Executors
  <2> QED BY <2>1, QuietSame DEF Executors
<1> QED BY <1>1, <1>2, <1>3, <1>4, <1>5, <1>6, <1>7

LEMMA QuietDeclare ==
  ASSUME NEW x \in Executors, NEW v \in Names, Len(x.locals) > 0
  PROVE  Quiet(x, Declare(x, v))
<1> DEFINE n == Len(x.locals)
           s == [x.locals EXCEPT ![n] = @ \cup {v}]
<1>1. x.locals \in [1..n -> SUBSET Names] /\ n \in 1..n
  BY Fields, LenProperties
<1>2. s \in [1..n -> SUBSET Names]
  BY <1>1
<1>3. s \in Seq(SUBSET Names) /\ Len(s) = n
  BY <1>1, <1>2
<1>4. Declare(x, v) = [x EXCEPT !.locals = s]
  BY DEF Declare
<1> HIDE DEF s
<1>5. Declare(x, v) \in Executors /\ Declare(x, v).locals = s
  BY <1>3, <1>4 DEF Executors
<1> QED BY <1>3, <1>4, <1>5, QuietSame DEF Executors

LEMMA TopValue ==
  ASSUME NEW x \in Executors, Len(x.values) > 0
  PROVE  /\ Top(x.values).id \in Nat /\ Top(x.values).cls \in Classes
         /\ 1 \in 0..Len(x.values)
<1>1. x.values \in Seq(Results) /\ Len(x.values) \in 1..Len(x.values)
  BY Fields
<1>2. Top(x.values) \in Results
  BY <1>1, ElementOfSeq DEF Top
<1> QED BY <1>1, <1>2 DEF Results

LEMMA LastTyped ==
  ASSUME NEW x \in Executors
  PROVE  /\ Height(x) \in Nat /\ Height(x) >= Len(x.left) /\ Height(x) >= Len(x.values)
         /\ x.left = <<>> => Height(x) = Len(x.values)
         /\ Height(x) = 0 <=> x.left = <<>> /\ x.values = <<>>
         /\ x.values # <<>> => LastValue(x) = Top(x.values)
         /\ Height(x) > 0 => LastValue(x).id \in Nat /\ LastValue(x).cls \in Classes
<1>1. Len(x.left) \in Nat /\ Len(x.values) \in Nat /\ x.left \in Seq(Results)
  BY Fields
<1>2. /\ x.left # <<>> <=> Len(x.left) > 0
      /\ x.values # <<>> <=> Len(x.values) > 0
  BY Fields, EmptySeq
<1>3. ASSUME x.values # <<>> PROVE LastValue(x).id \in Nat /\ LastValue(x).cls \in Classes
  BY <1>2, <1>3, TopValue DEF LastValue
<1>4. ASSUME x.values = <<>>, x.left # <<>>
      PROVE  LastValue(x).id \in Nat /\ LastValue(x).cls \in Classes
  <2>1. Len(x.left) \in 1..Len(x.left)
    BY <1>1, <1>2, <1>4
  <2>2. Top(x.left) \in Results
    BY <1>1, <2>1, ElementOfSeq DEF Top
  <2> QED BY <1>4, <2>2 DEF LastValue, Results
<1>5. x.values # <<>> => LastValue(x) = Top(x.values)
  BY DEF LastValue
<1>6. /\ Height(x) \in Nat /\ Height(x) >= Len(x.left) /\ Height(x) >= Len(x.values)
      /\ x.left = <<>> => Height(x) = Len(x.values)
      /\ Height(x) = 0 <=> Len(x.left) = 0 /\ Len(x.values) = 0
  <2>1. \A a, b \in Nat : /\ a + b \in Nat /\ a + b >= a /\ a + b >= b
                         /\ a + b = 0 <=> a = 0 /\ b = 0
    OBVIOUS
  <2>2. x.left = <<>> => Height(x) = Len(x.values)
    BY <1>1 DEF Height
  <2> DEFINE a == Len(x.left)
             b == Len(x.values)
  <2>3. a \in Nat /\ b \in Nat /\ Height(x) = a + b
    BY <1>1 DEF Height
  <2> HIDE DEF a, b
  <2>4. /\ Height(x) \in Nat /\ Height(x) >= a /\ Height(x) >= b
        /\ Height(x) = 0 <=> a = 0 /\ b = 0
    BY <2>1, <2>3
  <2> QED BY <2>2, <2>4 DEF a, b
<1> QED BY <1>3, <1>4, <1>5, <1>6, <1>1, <1>2

LEMMA QuietLeft ==
  ASSUME NEW x \in Executors, NEW l \in Seq(Results), NEW v \in Seq(Results)
  PROVE  Quiet(x, [x EXCEPT !.left = l, !.values = v])
<1>1. [x EXCEPT !.left = l, !.values = v] \in Executors
  BY DEF Executors
<1> QED BY <1>1, QuietSame DEF Executors

LEMMA QuietDrop ==
  ASSUME NEW x \in Executors
  PROVE  Quiet(x, Drop(x))
<1>1. CASE x.values = <<>> /\ x.left = <<>>
  BY <1>1, QuietFields DEF Drop
<1>2. CASE x.values # <<>>
  <2>1. Len(x.values) > 0
    BY <1>2, Fields, EmptySeq
  <2> QED BY <1>2, <2>1, TopValue, QuietPop DEF Drop
<1>3. CASE x.values = <<>> /\ x.left # <<>>
  <2> DEFINE l == Pop(x.left)
  <2>1. l \in Seq(Results)
    BY <1>3, Fields, SubSeqProperties DEF Pop
  <2>2. Drop(x) = [x EXCEPT !.left = l]
    BY <1>3 DEF Drop
  <2> HIDE DEF l
  <2>3. [x EXCEPT !.left = l] \in Executors
    BY <2>1 DEF Executors
  <2> QED BY <2>2, <2>3, QuietSame DEF Executors
<1> QED BY <1>1, <1>2, <1>3

LEMMA QuietLeave ==
  ASSUME NEW x \in Executors
  PROVE  Quiet(x, LeaveBehind(x))
<1> DEFINE l == x.left \o x.values
<1>1. l \in Seq(Results) /\ <<>> \in Seq(Results)
  BY Fields, ConcatProperties
<1>2. LeaveBehind(x) = [x EXCEPT !.left = l, !.values = <<>>]
  BY DEF LeaveBehind
<1> HIDE DEF l
<1> QED BY <1>1, <1>2, QuietLeft

LEMMA QuietStored ==
  ASSUME NEW x \in Executors, NEW i \in DOMAIN x.branches, NEW c \in Classes
  PROVE  LET y == [x EXCEPT !.branches[i].stored = c]
         IN  /\ Quiet(x, y) /\ y.values = x.values
             /\ y.branches[i].stored = c /\ y.branches[i].sink = x.branches[i].sink
<1> DEFINE b == x.branches[i]
           c2 == [b EXCEPT !.stored = c]
           s == [x.branches EXCEPT ![i] = c2]
           y == [x EXCEPT !.branches[i].stored = c]
<1>1. b \in Contexts /\ i \in 1..Len(x.branches) /\ Len(x.branches) \in Nat
      /\ x.branches \in [1..Len(x.branches) -> Contexts]
  BY Fields, ElementOfSeq, LenProperties
<1>2. /\ c2 \in Contexts /\ c2.stored = c /\ c2.sink = b.sink /\ Branchy(c2) = Branchy(b)
  BY <1>1 DEF Contexts, Branchy
<1>3. y = [x EXCEPT !.branches = s]
  OBVIOUS
<1> HIDE DEF c2
<1>4. s \in [1..Len(x.branches) -> Contexts] /\ s[i] = c2
      /\ \A j \in 1..Len(x.branches) : j # i => s[j] = x.branches[j]
  BY <1>1, <1>2
<1>5. s \in Seq(Contexts) /\ Len(s) = Len(x.branches)
  BY <1>1, <1>4
<1> HIDE DEF s, y
<1>6. /\ y \in Executors /\ y.branches = s /\ y.label = x.label /\ y.circuits = x.circuits
      /\ y.scopes = x.scopes /\ y.locals = x.locals /\ y.code = x.code
      /\ y.values = x.values
  BY <1>3, <1>5 DEF Executors
<1>7. \A j \in 1..Len(x.branches) : Branchy(y.branches[j]) = Branchy(x.branches[j])
  BY <1>2, <1>4, <1>6
<1>8. Quiet(x, y)
  BY <1>5, <1>6, <1>7, Fields DEF Quiet
<1> QED BY <1>2, <1>4, <1>6, <1>8 DEF y

LEMMA SinkTyped ==
  ASSUME NEW b \in Contexts, b.sink # Nothing, b.stored # "none"
  PROVE  SinkVar(b) \in Names
<1>1. b.sink.sink \in Nat /\ b.stored \in Classes
  BY DEF Contexts
<1> QED BY <1>1, NamesTyped DEF SinkVar

LEMMA QuietSinkStore ==
  ASSUME NEW x \in Executors, NEW i \in DOMAIN x.branches
  PROVE  Quiet(x, SinkStore(x, i))
<1> DEFINE b == x.branches[i]
           c == IF b.stored = "none" THEN LastValue(x).cls ELSE b.stored
           y == [x EXCEPT !.branches[i].stored = c]
           z == Emit(y, <<Store(SinkVar(y.branches[i]), LastValue(x).id)>>)
<1>1. b \in Contexts /\ b.entry \in Nat /\ b.stored \in Classes \cup {"none"}
  <2>1. b \in Contexts
    BY Fields, ElementOfSeq
  <2> QED BY <2>1 DEF Contexts
<1>2. CASE b.sink = Nothing \/ Height(x) <= b.entry
  BY <1>2, QuietFields DEF SinkStore
<1>3. CASE ~(b.sink = Nothing \/ Height(x) <= b.entry)
  <2>1. Height(x) > 0
    BY <1>1, <1>3, LastTyped
  <2>2. c \in Classes /\ c # "none"
    BY <1>1, <2>1, LastTyped DEF Classes
  <2>3. SinkStore(x, i) = Drop(z)
    BY <1>3, Fields DEF SinkStore
  <2> HIDE DEF c
  <2>4. /\ Quiet(x, y) /\ y \in Executors
        /\ y.branches[i].stored = c /\ y.branches[i].sink = b.sink
    BY <2>2, QuietStored DEF Quiet
  <2> HIDE DEF y
  <2>5. y.branches[i] \in Contexts
    BY <2>4, Fields, ElementOfSeq DEF Quiet
  <2>6. SinkVar(y.branches[i]) \in Names
    BY <1>3, <2>2, <2>4, <2>5, SinkTyped
  <2>7. <<Store(SinkVar(y.branches[i]), LastValue(x).id)>> \in Seq(Plain)
    <3>1. Store(SinkVar(y.branches[i]), LastValue(x).id) \in Plain
      BY <2>1, <2>6, LastTyped, PlainInsns
    <3> QED BY <3>1
  <2>8. Quiet(y, z)
    BY <2>4, <2>7, QuietEmit DEF Emit, Executors
  <2> HIDE DEF z
  <2>9. Quiet(z, Drop(z))
    BY <2>8, QuietDrop DEF Quiet
  <2>10. Quiet(x, z)
    BY <2>4, <2>8, QuietTrans
  <2> QED BY <2>3, <2>9, <2>10, QuietTrans
<1> QED BY <1>2, <1>3

LEMMA QuietSinkLoad ==
  ASSUME NEW x \in Executors, NEW b \in Contexts
  PROVE  Quiet(x, SinkLoad(x, b))
<1>1. CASE b.sink = Nothing \/ b.stored = "none"
  BY <1>1, QuietFields DEF SinkLoad
<1>2. CASE ~(b.sink = Nothing \/ b.stored = "none")
  <2>1. Load(x.value, SinkVar(b)) \in Plain
    BY <1>2, SinkTyped, Fields, PlainInsns
  <2> QED BY <1>2, <2>1, QuietProduce DEF SinkLoad
<1> QED BY <1>1, <1>2

LEMMA SomeValues ==
  ASSUME NEW x \in Executors
  PROVE  x.values # <<>> <=> Len(x.values) > 0
BY Fields, EmptySeq

LEMMA QuietFinalizeAssign ==
  ASSUME NEW x \in Executors
  PROVE  Quiet(x, FinalizeAssign(x))
<1> DEFINE y == [x EXCEPT !.assign = Nothing]
           z == Emit(y, <<Store(x.assign, LastValue(x).id)>>)
<1>1. Quiet(x, y)
  BY QuietFields DEF Executors
<1>2. CASE x.assign = Nothing \/ Height(x) = 0
  BY <1>1, <1>2 DEF FinalizeAssign
<1>3. CASE ~(x.assign = Nothing \/ Height(x) = 0)
  <2>1. Height(x) > 0 /\ x.assign \in Names
    BY <1>3, LastTyped, Fields
  <2>2. Store(x.assign, LastValue(x).id) \in Plain
    BY <2>1, LastTyped, PlainInsns
  <2>3. Quiet(y, z)
    <3>1. y \in Executors
      BY <1>1 DEF Quiet
    <3>2. <<Store(x.assign, LastValue(x).id)>> \in Seq(Plain)
      BY <2>2
    <3>3. Quiet(y, z)
      BY <3>1, <3>2, QuietEmit
    <3> QED BY <3>3
  <2>4. FinalizeAssign(x) = Drop(z)
    BY <1>3 DEF FinalizeAssign
  <2> HIDE DEF z, y
  <2>5. Quiet(z, Drop(z))
    BY <2>3, QuietDrop DEF Quiet
  <2> QED BY <1>1, <2>3, <2>4, <2>5, QuietTrans
<1> QED BY <1>2, <1>3

LEMMA QuietFinalizeDecl ==
  ASSUME NEW x \in Executors, Len(x.locals) > 0
  PROVE  Quiet(x, FinalizeDecl(x))
<1> DEFINE v == x.decl
           id == LastValue(x).id
           y == [x EXCEPT !.decl = Nothing]
           z == Emit(y, <<VarDef(v, <<id>>), Store(v, id)>>)
           p == Drop(z)
<1>1. Quiet(x, y)
  BY QuietFields DEF Executors
<1>2. CASE v = Nothing \/ Height(x) = 0
  BY <1>1, <1>2 DEF FinalizeDecl
<1>3. CASE ~(v = Nothing \/ Height(x) = 0)
  <2>1. Height(x) > 0 /\ v \in Names
    BY <1>3, LastTyped, Fields
  <2>2. <<VarDef(v, <<id>>), Store(v, id)>> \in Seq(Plain)
    <3>1. VarDef(v, <<id>>) \in Plain /\ Store(v, id) \in Plain
      BY <2>1, LastTyped, PlainInsns
    <3> QED BY <3>1
  <2>3. Quiet(y, z)
    <3>1. y \in Executors
      BY <1>1 DEF Quiet
    <3>2. <<VarDef(v, <<id>>), Store(v, id)>> \in Seq(Plain)
      BY <2>2
    <3>3. Quiet(y, z)
      BY <3>1, <3>2, QuietEmit
    <3> QED BY <3>3
  <2>4. FinalizeDecl(x) = Declare(p, v)
    BY <1>3 DEF FinalizeDecl
  <2> HIDE DEF z, y
  <2>5. Quiet(z, p)
    BY <2>3, QuietDrop DEF Quiet
  <2> HIDE DEF p
  <2>6. Quiet(x, p)
    BY <1>1, <2>3, <2>5, QuietTrans
  <2>7. Quiet(p, Declare(p, v))
    BY <2>1, <2>6, QuietDeclare DEF Quiet
  <2> QED BY <2>4, <2>6, <2>7, QuietTrans
<1> QED BY <1>2, <1>3

LEMMA ReturnTyped ==
  ASSUME NEW x \in Executors
  PROVE  /\ Return(ReturnValue(x), ReturnClass(x)) \in Plain
         /\ Return(<<>>, ReturnClass(x)) \in Plain
<1>1. CASE Height(x) = 0
  <2>1. ReturnValue(x) \in Seq(Nat) /\ ReturnClass(x) \in Classes /\ <<>> \in Seq(Nat)
    BY <1>1, NamesTyped DEF ReturnValue, ReturnClass
  <2> QED BY <2>1, PlainInsns
<1>2. CASE Height(x) # 0
  <2>1. LastValue(x).id \in Nat /\ LastValue(x).cls \in Classes
    BY <1>2, LastTyped
  <2>2. ReturnValue(x) \in Seq(Nat) /\ ReturnClass(x) \in Classes /\ <<>> \in Seq(Nat)
    BY <1>2, <2>1 DEF ReturnValue, ReturnClass
  <2> QED BY <2>2, PlainInsns
<1> QED BY <1>1, <1>2

LEMMA QuietCheckReturn ==
  ASSUME NEW x \in Executors
  PROVE  Quiet(x, CheckReturn(x))
<1> DEFINE y == Emit(x, <<Return(ReturnValue(x), ReturnClass(x))>>)
           z == Drop(y)
<1>1. CASE ~x.returning
  BY <1>1, QuietFields DEF CheckReturn
<1>2. CASE x.returning /\ IsLast(x, "ternary")
  BY <1>2, QuietFields DEF CheckReturn
<1>3. CASE x.returning /\ ~IsLast(x, "ternary")
  <2>1. <<Return(ReturnValue(x), ReturnClass(x))>> \in Seq(Plain)
    BY ReturnTyped
  <2>2. Quiet(x, y)
    BY <2>1, QuietEmit
  <2>3. CheckReturn(x) = [z EXCEPT !.returning = FALSE]
    BY <1>3 DEF CheckReturn
  <2> HIDE DEF y
  <2>4. Quiet(y, z)
    BY <2>2, QuietDrop DEF Quiet
  <2> HIDE DEF z
  <2>5. Quiet(x, z) /\ z \in Executors
    <3>1. Quiet(x, z)
      BY <2>2, <2>4, QuietTrans
    <3> QED BY <3>1 DEF Quiet
  <2>6. Quiet(z, [z EXCEPT !.returning = FALSE])
    BY <2>5, QuietFields
  <2> QED BY <2>3, <2>5, <2>6, QuietTrans
<1> QED BY <1>1, <1>2, <1>3

LEMMA QuietIncrement ==
  ASSUME NEW x \in Executors, NEW v \in Names
  PROVE  Quiet(x, Increment(x, v))
<1> DEFINE s == <<Load(x.value, v), Const(x.value + 1, "gp"),
                  BinOp(x.value + 2, x.value, x.value + 1, "gp"), Store(v, x.value + 2)>>
<1>1. s \in Seq(Plain)
  <2>1. x.value \in Nat /\ x.value + 1 \in Nat /\ x.value + 2 \in Nat
    BY Fields
  <2>2. /\ Load(x.value, v) \in Plain /\ Const(x.value + 1, "gp") \in Plain
        /\ BinOp(x.value + 2, x.value, x.value + 1, "gp") \in Plain
        /\ Store(v, x.value + 2) \in Plain
    BY <2>1, NamesTyped, PlainInsns
  <2> QED BY <2>2
<1>2. Quiet(x, Emit(x, s))
  BY <1>1, QuietEmit
<1>3. Increment(x, v) = NewValues(Emit(x, s), 3)
  BY DEF Increment
<1> HIDE DEF s
<1>4. Quiet(Emit(x, s), NewValues(Emit(x, s), 3))
  BY <1>2, QuietNewValues DEF Quiet
<1> QED BY <1>2, <1>3, <1>4, QuietTrans

----------------------------------------------------------------------------
(* Who owes which label.                                                   *)

LEMMA DebtIs ==
  ASSUME NEW x, NEW g, NEW l
  PROVE  \A o : o \in Debts(x, g, l) <=>
           \/ \E i \in DOMAIN x.branches : o = <<"end", i>> /\ x.branches[i].end = l
           \/ \E i \in DOMAIN x.branches :
                o = <<"else", i>> /\ OwesElse(x, g, i) /\ x.branches[i].els = l
           \/ \E i \in DOMAIN x.circuits : o = <<"circuit", i>> /\ x.circuits[i].end = l
BY DEF Debts

LEMMA OwnerIs ==
  ASSUME NEW x, NEW g, NEW l
  PROVE  /\ \A o : o \in Owners(x, g, l) <=>
              \/ \E k \in Landings(x.code, l) : o = <<"code", k>>
              \/ o \in Debts(x, g, l)
         /\ \A k : <<"code", k>> \notin Debts(x, g, l)
<1>1. \A k : <<"code", k>> \notin Debts(x, g, l)
  BY DebtIs
<1> QED BY <1>1 DEF Owners

\* Landings when code is appended.
LEMMA LandingsAppend ==
  ASSUME NEW c \in Seq(Instructions), NEW s \in Seq(Instructions), NEW l
  PROVE  Landings(c \o s, l) = Landings(c, l) \cup {Len(c) + k : k \in Landings(s, l)}
<1> DEFINE t == c \o s
<1>1. /\ Len(c) \in Nat /\ Len(s) \in Nat /\ DOMAIN c = 1..Len(c) /\ DOMAIN s = 1..Len(s)
      /\ t \in Seq(Instructions) /\ Len(t) = Len(c) + Len(s) /\ DOMAIN t = 1..Len(c) + Len(s)
      /\ \A i \in 1..Len(c) : t[i] = c[i]
      /\ \A i \in 1..Len(s) : t[Len(c) + i] = s[i]
  BY ConcatProperties
<1> HIDE DEF t
<1>2. ASSUME NEW j \in Landings(t, l)
      PROVE  j \in Landings(c, l) \/ \E k \in Landings(s, l) : j = Len(c) + k
  <2>1. j \in 1..Len(c) + Len(s) /\ t[j].op = "label" /\ t[j].target = l
    BY <1>1, <1>2 DEF Landings
  <2>2. CASE j <= Len(c)
    <3>1. j \in DOMAIN c /\ t[j] = c[j]
      BY <2>1, <2>2, <1>1
    <3> QED BY <3>1, <2>1 DEF Landings
  <2>3. CASE j > Len(c)
    <3>1. j - Len(c) \in DOMAIN s /\ j = Len(c) + (j - Len(c))
      BY <2>1, <2>3, <1>1
    <3>2. t[j] = s[j - Len(c)]
      BY <3>1, <1>1
    <3> QED BY <3>1, <3>2, <2>1 DEF Landings
  <2> QED BY <2>1, <2>2, <2>3, <1>1
<1>3. ASSUME NEW j \in Landings(c, l) PROVE j \in Landings(t, l)
  <2>1. j \in 1..Len(c) /\ c[j].op = "label" /\ c[j].target = l
    BY <1>1, <1>3 DEF Landings
  <2>2. j \in DOMAIN t /\ t[j] = c[j]
    BY <2>1, <1>1
  <2> QED BY <2>1, <2>2 DEF Landings
<1>4. ASSUME NEW k \in Landings(s, l) PROVE Len(c) + k \in Landings(t, l)
  <2>1. k \in 1..Len(s) /\ s[k].op = "label" /\ s[k].target = l
    BY <1>1, <1>4 DEF Landings
  <2>2. Len(c) + k \in DOMAIN t /\ t[Len(c) + k] = s[k]
    BY <2>1, <1>1
  <2> QED BY <2>1, <2>2 DEF Landings
<1> QED BY <1>2, <1>3, <1>4 DEF t

InRange(y) ==
  /\ \A i \in DOMAIN y.branches : /\ y.branches[i].end \in 1..(y.label - 1)
                                  /\ y.branches[i].els \in 0..(y.label - 1)
  /\ \A i \in DOMAIN y.circuits : y.circuits[i].end \in 1..(y.label - 1)
PutBy(s, l) == Landings(s, l) # {}

\* A step that appends s to the code, settles the debts of the labels in s,
\* and runs up new ones only for labels it mints.
Mints(x, y, g, h, s) ==
  /\ s \in Seq(Instructions) /\ LabelsOwned(x, g)
  /\ y.label >= x.label /\ y.code = x.code \o s /\ InRange(y)
  /\ \A l : \A j, k \in Landings(s, l) : j = k
  /\ \A l : PutBy(s, l) =>
       /\ l \in 1..(y.label - 1) /\ Debts(y, h, l) = {}
       /\ l < x.label => Debts(x, g, l) # {}
  /\ \A l \in 1..(x.label - 1) : ~PutBy(s, l) => Debts(y, h, l) = Debts(x, g, l)
  /\ \A l \in x.label..(y.label - 1) : \A o, p \in Debts(y, h, l) : o = p
  /\ \A k \in DOMAIN s : s[k].op \in {"jump", "branch"} =>
       \/ PutBy(s, s[k].target)
       \/ Debts(y, h, s[k].target) # {}
       \/ Landings(x.code, s[k].target) # {}
  /\ \A i \in Loops(y) : \/ PutBy(s, y.branches[i].loop)
                         \/ Landings(x.code, y.branches[i].loop) # {}

LEMMA OwnedStep ==
  ASSUME NEW x \in Executors, NEW y \in Executors, NEW g, NEW h, NEW s,
         Mints(x, y, g, h, s)
  PROVE  LabelsOwned(y, h)
<1> USE DEF Mints
<1>1. /\ x.label \in Nat /\ y.label \in Nat /\ DOMAIN x.code = 1..Len(x.code)
      /\ x.code \in Seq(Instructions) /\ DOMAIN y.code = 1..Len(y.code) /\ Len(x.code) \in Nat
      /\ DOMAIN s = 1..Len(s) /\ Len(s) \in Nat /\ Len(y.code) = Len(x.code) + Len(s)
      /\ \A i \in 1..Len(x.code) : y.code[i] = x.code[i]
      /\ \A i \in Len(x.code) + 1 .. Len(x.code) + Len(s) : y.code[i] = s[i - Len(x.code)]
  BY Fields, ConcatProperties
<1>2. \A l : Landings(y.code, l) = Landings(x.code, l) \cup {Len(x.code) + k : k \in Landings(s, l)}
  BY <1>1, LandingsAppend
<1>3. \A l : Landings(x.code, l) # {} => l \in 1..(x.label - 1)
  BY DEF LabelsOwned, Landings
<1>4. \A l : PutBy(s, l) => Landings(x.code, l) = {}
  <2> SUFFICES ASSUME NEW l, PutBy(s, l), NEW k \in Landings(x.code, l) PROVE FALSE
    OBVIOUS
  <2>1. l \in 1..(x.label - 1) /\ l < x.label
    BY <1>1, <1>3
  <2>2. PICK o \in Debts(x, g, l) : TRUE
    BY <2>1
  <2>3. o \in Owners(x, g, l) /\ <<"code", k>> \in Owners(x, g, l) /\ o # <<"code", k>>
    BY <2>2, OwnerIs
  <2> QED BY <2>1, <2>3 DEF LabelsOwned
<1>5. \A l : ~PutBy(s, l) => Landings(y.code, l) = Landings(x.code, l)
  <2> SUFFICES ASSUME NEW l, Landings(s, l) = {} PROVE Landings(y.code, l) = Landings(x.code, l)
    BY DEF PutBy
  <2>1. {Len(x.code) + k : k \in Landings(s, l)} = {}
    OBVIOUS
  <2>2. Landings(y.code, l) = Landings(x.code, l) \cup {Len(x.code) + k : k \in Landings(s, l)}
    BY <1>2
  <2> QED BY <2>1, <2>2
<1>6. ASSUME NEW l \in 1..(y.label - 1), NEW o \in Owners(y, h, l), NEW p \in Owners(y, h, l)
      PROVE  o = p
  <2>1. CASE PutBy(s, l)
    <3>1. Debts(y, h, l) = {} /\ Landings(x.code, l) = {}
      BY <2>1, <1>4
    <3>2. ASSUME NEW q \in Owners(y, h, l)
          PROVE  \E i \in Landings(s, l) : q = <<"code", Len(x.code) + i>>
      <4>1. PICK k \in Landings(y.code, l) : q = <<"code", k>>
        BY <3>1, <3>2, OwnerIs
      <4>2. k \in {Len(x.code) + i : i \in Landings(s, l)}
        BY <3>1, <1>2
      <4> QED BY <4>1, <4>2
    <3>3. PICK i \in Landings(s, l) : o = <<"code", Len(x.code) + i>>
      BY <3>2
    <3>4. PICK j \in Landings(s, l) : p = <<"code", Len(x.code) + j>>
      BY <3>2
    <3>5. i = j
      OBVIOUS
    <3> QED BY <3>3, <3>4, <3>5
  <2>2. CASE ~PutBy(s, l) /\ l < x.label
    <3>1. l \in 1..(x.label - 1)
      BY <2>2, <1>1
    <3>2. Owners(y, h, l) = Owners(x, g, l)
      BY <3>1, <2>2, <1>5 DEF Owners
    <3> QED BY <3>1, <3>2, <1>6 DEF LabelsOwned
  <2>3. CASE ~PutBy(s, l) /\ l >= x.label
    <3>1. l \in x.label..(y.label - 1) /\ l \notin 1..(x.label - 1)
      BY <2>3, <1>1
    <3>2. Landings(y.code, l) = {}
      BY <3>1, <2>3, <1>3, <1>5
    <3>3. o \in Debts(y, h, l) /\ p \in Debts(y, h, l)
      BY <3>2, <1>6, OwnerIs
    <3> QED BY <3>1, <3>3
  <2> QED BY <2>1, <2>2, <2>3, <1>1
<1>7. ASSUME NEW k \in DOMAIN y.code, y.code[k].op = "label"
      PROVE  y.code[k].target \in 1..(y.label - 1)
  <2> DEFINE l == y.code[k].target
  <2>1. k \in Landings(y.code, l)
    BY <1>7 DEF Landings
  <2>2. CASE PutBy(s, l)
    BY <2>2
  <2>3. CASE ~PutBy(s, l)
    <3>1. l \in 1..(x.label - 1)
      BY <2>1, <2>3, <1>3, <1>5
    <3>2. y.label >= x.label
      OBVIOUS
    <3> HIDE DEF Mints, l
    <3>3. l \in 1..(y.label - 1)
      BY <3>1, <3>2, <1>1
    <3> QED BY <3>3 DEF l
  <2> QED BY <2>2, <2>3
<1>8. \A l : Owners(x, g, l) # {} => l \in 1..(x.label - 1)
  <2> SUFFICES ASSUME NEW l, NEW o \in Owners(x, g, l) PROVE l \in 1..(x.label - 1)
    OBVIOUS
  <2>1. CASE \E k \in Landings(x.code, l) : o = <<"code", k>>
    BY <2>1, <1>3
  <2>2. CASE o \in Debts(x, g, l)
    <3>1. CASE \E i \in DOMAIN x.branches : x.branches[i].end = l
      BY <3>1 DEF LabelsOwned
    <3>2. CASE \E i \in DOMAIN x.branches : OwesElse(x, g, i) /\ x.branches[i].els = l
      <4>1. PICK i \in DOMAIN x.branches : x.branches[i].els # 0 /\ x.branches[i].els = l
        BY <3>2 DEF OwesElse
      <4>2. x.branches[i].els \in 0..(x.label - 1)
        BY <4>1 DEF LabelsOwned
      <4> QED BY <4>1, <4>2, <1>1
    <3>3. CASE \E i \in DOMAIN x.circuits : x.circuits[i].end = l
      BY <3>3 DEF LabelsOwned
    <3> QED BY <2>2, <3>1, <3>2, <3>3, DebtIs
  <2> QED BY <2>1, <2>2, OwnerIs
<1>9. \A l : PutBy(s, l) \/ Landings(x.code, l) # {} => Landings(y.code, l) # {}
  <2> SUFFICES ASSUME NEW l, PutBy(s, l) \/ Landings(x.code, l) # {}
               PROVE  \E k : k \in Landings(y.code, l)
    OBVIOUS
  <2>1. CASE Landings(x.code, l) # {}
    BY <2>1, <1>2
  <2>2. CASE PutBy(s, l)
    <3>1. PICK k \in Landings(s, l) : TRUE
      BY <2>2 DEF PutBy
    <3>2. Len(x.code) + k \in Landings(y.code, l)
      BY <1>2
    <3> QED BY <3>2
  <2> QED BY <2>1, <2>2
<1>10. \A l : Landings(y.code, l) # {} \/ Debts(y, h, l) # {} => Owners(y, h, l) # {}
  <2> SUFFICES ASSUME NEW l, Landings(y.code, l) # {} \/ Debts(y, h, l) # {}
               PROVE  \E o : o \in Owners(y, h, l)
    OBVIOUS
  <2>1. CASE Landings(y.code, l) # {}
    <3>1. PICK k \in Landings(y.code, l) : TRUE
      BY <2>1
    <3>2. <<"code", k>> \in Owners(y, h, l)
      BY OwnerIs
    <3> QED BY <3>2
  <2>2. CASE Debts(y, h, l) # {}
    BY <2>2, OwnerIs
  <2> QED BY <2>1, <2>2
<1>11. \A l : Owners(x, g, l) # {} => Owners(y, h, l) # {}
  <2> SUFFICES ASSUME NEW l, Owners(x, g, l) # {} PROVE Owners(y, h, l) # {}
    OBVIOUS
  <2>1. CASE PutBy(s, l)
    BY <2>1, <1>9, <1>10
  <2>2. CASE ~PutBy(s, l)
    <3>1. Debts(y, h, l) = Debts(x, g, l) /\ Landings(y.code, l) = Landings(x.code, l)
      BY <2>2, <1>5, <1>8
    <3> QED BY <3>1 DEF Owners
  <2> QED BY <2>1, <2>2
<1>12. ASSUME NEW k \in Jumps(y) PROVE Owners(y, h, y.code[k].target) # {}
  <2>1. k \in 1..Len(x.code) + Len(s) /\ y.code[k].op \in {"jump", "branch"}
    BY <1>1, <1>12 DEF Jumps
  <2>2. CASE k <= Len(x.code)
    <3>1. k \in Jumps(x) /\ y.code[k] = x.code[k]
      BY <2>1, <2>2, <1>1 DEF Jumps
    <3> QED BY <3>1, <1>11 DEF LabelsOwned
  <2>3. CASE k > Len(x.code)
    <3>1. k - Len(x.code) \in DOMAIN s /\ y.code[k] = s[k - Len(x.code)]
      BY <2>1, <2>3, <1>1
    <3> DEFINE l == s[k - Len(x.code)].target
    <3>2. y.code[k].target = l /\ s[k - Len(x.code)].op \in {"jump", "branch"}
      BY <3>1, <2>1
    <3>3. PutBy(s, l) \/ Debts(y, h, l) # {} \/ Landings(x.code, l) # {}
      BY <3>1, <3>2
    <3> HIDE DEF l
    <3> QED BY <3>2, <3>3, <1>9, <1>10
  <2>4. k <= Len(x.code) \/ k > Len(x.code)
    BY <2>1, <1>1
  <2> QED BY <2>2, <2>3, <2>4
<1>13. \A i \in Loops(y) : Landings(y.code, y.branches[i].loop) # {}
  BY <1>9
<1> QED BY <1>6, <1>7, <1>12, <1>13 DEF LabelsOwned, InRange

LEMMA BranchyFields ==
  ASSUME NEW b, NEW c, Branchy(b) = Branchy(c)
  PROVE  /\ b.kind = c.kind /\ b.end = c.end /\ b.els = c.els
         /\ b.loop = c.loop /\ b.depth = c.depth /\ b.use = c.use
BY DEF Branchy

LEMMA OwedInRange ==
  ASSUME NEW x \in Executors, NEW g, LabelsOwned(x, g), NEW l, Owners(x, g, l) # {}
  PROVE  l \in 1..(x.label - 1)
<1>1. PICK o \in Owners(x, g, l) : TRUE
  OBVIOUS
<1>2. CASE \E k \in Landings(x.code, l) : o = <<"code", k>>
  BY <1>2 DEF LabelsOwned, Landings
<1>3. CASE o \in Debts(x, g, l)
  <2>1. CASE \E i \in DOMAIN x.branches : x.branches[i].end = l
    BY <2>1 DEF LabelsOwned
  <2>2. CASE \E i \in DOMAIN x.branches : OwesElse(x, g, i) /\ x.branches[i].els = l
    <3>1. PICK i \in DOMAIN x.branches : x.branches[i].els # 0 /\ x.branches[i].els = l
      BY <2>2 DEF OwesElse
    <3>2. x.branches[i].els \in 0..(x.label - 1) /\ x.label \in Nat
      BY <3>1, Fields DEF LabelsOwned
    <3> QED BY <3>1, <3>2
  <2>3. CASE \E i \in DOMAIN x.circuits : x.circuits[i].end = l
    BY <2>3 DEF LabelsOwned
  <2> QED BY <1>3, <2>1, <2>2, <2>3, DebtIs
<1> QED BY <1>1, <1>2, <1>3, OwnerIs

LEMMA Indebted ==
  ASSUME NEW x, NEW g, NEW l, Debts(x, g, l) # {} \/ Landings(x.code, l) # {}
  PROVE  Owners(x, g, l) # {}
<1>1. CASE Landings(x.code, l) # {}
  <2>1. PICK k \in Landings(x.code, l) : TRUE
    BY <1>1
  <2>2. <<"code", k>> \in Owners(x, g, l)
    BY OwnerIs
  <2> QED BY <2>2
<1>2. CASE Debts(x, g, l) # {}
  BY <1>2, OwnerIs
<1> QED BY <1>1, <1>2

\* A step that pays the debts in D with the labels it appends, and jumps only
\* where somebody owes the label.
Pays(x, y, g, h, D, s) ==
  /\ s \in Seq(Instructions) /\ LabelsOwned(x, g)
  /\ y.label = x.label /\ y.code = x.code \o s /\ InRange(y)
  /\ \A l : \A j, k \in Landings(s, l) : j = k
  /\ \A l : Debts(y, h, l) = Debts(x, g, l) \ D
  /\ \A l : PutBy(s, l) <=> \E o \in D : o \in Debts(x, g, l)
  /\ \A k \in DOMAIN s : s[k].op \in {"jump", "branch"} => Owners(x, g, s[k].target) # {}
  /\ \A i \in Loops(y) : i \in Loops(x) /\ y.branches[i].loop = x.branches[i].loop

LEMMA OwnedPay ==
  ASSUME NEW x \in Executors, NEW y \in Executors, NEW g, NEW h, NEW D, NEW s,
         Pays(x, y, g, h, D, s)
  PROVE  LabelsOwned(y, h)
<1> USE DEF Pays
<1>1. x.label \in Nat
  BY Fields
<1>2. ASSUME NEW l, PutBy(s, l)
      PROVE  l \in 1..(y.label - 1) /\ Debts(y, h, l) = {} /\ Debts(x, g, l) # {}
  <2>1. PICK o \in D : o \in Debts(x, g, l)
    BY <1>2
  <2>2. l \in 1..(x.label - 1)
    BY <2>1, OwedInRange, Indebted
  <2>3. \A p \in Debts(x, g, l) : p = o
    BY <2>1, <2>2, OwnerIs DEF LabelsOwned
  <2> QED BY <2>1, <2>2, <2>3
<1>3. \A l \in 1..(x.label - 1) : ~PutBy(s, l) => Debts(y, h, l) = Debts(x, g, l)
  OBVIOUS
<1>4. \A l \in x.label..(y.label - 1) : \A o, p \in Debts(y, h, l) : o = p
  BY <1>1
<1>5. ASSUME NEW k \in DOMAIN s, s[k].op \in {"jump", "branch"}
      PROVE  \/ PutBy(s, s[k].target) \/ Debts(y, h, s[k].target) # {}
             \/ Landings(x.code, s[k].target) # {}
  <2> DEFINE l == s[k].target
  <2>1. PICK o \in Owners(x, g, l) : TRUE
    BY <1>5
  <2> HIDE DEF l
  <2>2. CASE \E j \in Landings(x.code, l) : o = <<"code", j>>
    BY <2>2 DEF l
  <2>3. CASE o \in Debts(x, g, l)
    <3>1. o \in D \/ o \in Debts(y, h, l)
      BY <2>3
    <3>2. o \in D => PutBy(s, l)
      BY <2>3
    <3> QED BY <3>1, <3>2 DEF l
  <2> QED BY <2>1, <2>2, <2>3, OwnerIs
<1>6. \A i \in Loops(y) : Landings(x.code, y.branches[i].loop) # {}
  BY DEF LabelsOwned
<1>7. y.label >= x.label
  BY <1>1
<1>8. Mints(x, y, g, h, s)
  BY <1>2, <1>3, <1>4, <1>5, <1>6, <1>7 DEF Mints
<1> QED BY <1>8, OwnedStep

LEMMA DebtsSame ==
  ASSUME NEW x, NEW y, NEW g, NEW h,
         DOMAIN y.branches = DOMAIN x.branches, y.circuits = x.circuits,
         \A i \in DOMAIN x.branches :
           /\ y.branches[i].end = x.branches[i].end /\ y.branches[i].els = x.branches[i].els
           /\ OwesElse(y, h, i) <=> OwesElse(x, g, i)
  PROVE  \A l : Debts(y, h, l) = Debts(x, g, l)
<1>1. TAKE l
<1>2. \A o : o \in Debts(y, h, l) <=> o \in Debts(x, g, l)
  BY DebtIs
<1> QED BY <1>2

\* Goals between which no ternary places the label of its second arm.
SameArm(x, g, h) ==
  \/ g = "telse" <=> h = "telse"
  \/ \A i \in DOMAIN x.branches : x.branches[i].kind # "ternary"

LEMMA NoLandings ==
  ASSUME NEW s, \A k \in DOMAIN s : s[k].op # "label"
  PROVE  \A l : Landings(s, l) = {} /\ ~PutBy(s, l)
BY DEF Landings, PutBy

LEMMA QuietOwned ==
  ASSUME NEW x \in Executors, NEW y, Quiet(x, y), NEW g, NEW h, SameArm(x, g, h),
         LabelsOwned(x, g)
  PROVE  LabelsOwned(y, h)
<1> DEFINE m == Len(x.code)
           n == Len(y.code)
           s == SubSeq(y.code, m + 1, n)
<1>1. y \in Executors
  BY DEF Quiet
<1>2. /\ m \in Nat /\ n \in Nat /\ y.code \in Seq(Instructions) /\ x.code \in Seq(Instructions)
      /\ n >= m /\ \A k \in 1..m : y.code[k] = x.code[k]
      /\ \A k \in m + 1 .. n : y.code[k].op \notin Controls
  BY <1>1, Fields DEF Quiet
<1>3. s \in Seq(Instructions) /\ Len(s) = n - m /\ \A k \in 1..(n - m) : s[k] = y.code[m + k]
  <2>1. /\ s \in Seq(Instructions) /\ Len(s) = n - (m + 1) + 1
        /\ \A k \in 1..(n - (m + 1) + 1) : s[k] = y.code[m + 1 + k - 1]
    <3>1. \A i \in m + 1 .. n : y.code[i] \in Instructions
      BY <1>1, <1>2, ElementOfSeq
    <3>2. m + 1 \in Int /\ n \in Int /\ (m + 1 <= n \/ n - (m + 1) + 1 = 0)
      BY <1>2
    <3> HIDE DEF m, n
    <3> QED BY <3>1, <3>2, SubSeqProperties DEF s
  <2>2. n - (m + 1) + 1 = n - m /\ \A k \in 1..(n - m) : m + 1 + k - 1 = m + k
    BY <1>2
  <2> QED BY <2>1, <2>2
<1> HIDE DEF s, m, n
<1>4. y.code = x.code \o s
  <2>1. /\ x.code \o s \in Seq(Instructions) /\ Len(x.code \o s) = n
        /\ \A k \in 1..m : (x.code \o s)[k] = x.code[k]
        /\ \A k \in m + 1 .. n : (x.code \o s)[k] = s[k - m]
    <3>1. /\ x.code \o s \in Seq(Instructions) /\ Len(x.code \o s) = Len(x.code) + Len(s)
          /\ \A k \in 1..Len(x.code) : (x.code \o s)[k] = x.code[k]
          /\ \A k \in Len(x.code) + 1 .. Len(x.code) + Len(s) :
               (x.code \o s)[k] = s[k - Len(x.code)]
      BY <1>2, <1>3, Joined
    <3>2. Len(x.code) = m /\ Len(x.code) + Len(s) = n
      BY <1>2, <1>3 DEF m
    <3> QED BY <3>1, <3>2
  <2>2. ASSUME NEW k \in m + 1 .. n PROVE k - m \in 1..(n - m) /\ s[k - m] = y.code[k]
    <3>1. k - m \in 1..(n - m) /\ m + (k - m) = k
      BY <1>2
    <3> QED BY <3>1, <1>3
  <2>3. ASSUME NEW k \in 1..n PROVE y.code[k] = (x.code \o s)[k]
    <3>1. CASE k \in 1..m
      BY <3>1, <1>2, <2>1
    <3>2. CASE k \in m + 1 .. n
      BY <3>2, <2>1, <2>2
    <3>3. m \in Nat /\ n \in Nat
      BY <1>2
    <3>4. k \in 1..m \/ k \in m + 1 .. n
      BY <3>3
    <3> QED BY <3>1, <3>2, <3>4
  <2> QED BY <1>2, <2>1, <2>3, SeqEqual DEF n
<1>5. /\ DOMAIN y.branches = DOMAIN x.branches /\ y.circuits = x.circuits /\ y.label = x.label
      /\ \A i \in DOMAIN x.branches : Branchy(y.branches[i]) = Branchy(x.branches[i])
  BY <1>1, Fields DEF Quiet
<1>6. \A i \in DOMAIN x.branches :
        /\ y.branches[i].kind = x.branches[i].kind /\ y.branches[i].end = x.branches[i].end
        /\ y.branches[i].els = x.branches[i].els /\ y.branches[i].loop = x.branches[i].loop
  BY <1>5, BranchyFields
<1>7. \A i \in DOMAIN x.branches : OwesElse(y, h, i) <=> OwesElse(x, g, i)
  BY <1>6 DEF OwesElse, SameArm
<1>8. \A l : Debts(y, h, l) = Debts(x, g, l) \ {}
  <2>1. \A l : Debts(y, h, l) = Debts(x, g, l)
    BY <1>5, <1>6, <1>7, DebtsSame
  <2> QED BY <2>1
<1>9. \A k \in DOMAIN s : s[k].op \notin Controls
  <2>1. TAKE k \in DOMAIN s
  <2>2. k \in 1..(n - m) /\ m + k \in m + 1 .. n
    <3>1. DOMAIN s = 1..(n - m)
      BY <1>2, <1>3, LenProperties
    <3> QED BY <3>1, <1>2
  <2> QED BY <2>2, <1>2, <1>3
<1>10. \A l : Landings(s, l) = {} /\ ~PutBy(s, l)
  BY <1>9, NoLandings DEF Controls
<1>11. InRange(y)
  BY <1>5, <1>6 DEF InRange, LabelsOwned
<1>12. \A i \in Loops(y) : i \in Loops(x) /\ y.branches[i].loop = x.branches[i].loop
  BY <1>5, <1>6 DEF Loops
<1>13. \A k \in DOMAIN s : s[k].op \in {"jump", "branch"} => Owners(x, g, s[k].target) # {}
  BY <1>9 DEF Controls
<1> DEFINE D == {}
<1>14. \A l : PutBy(s, l) <=> \E o \in D : o \in Debts(x, g, l)
  BY <1>10
<1>15. \A l : \A j, k \in Landings(s, l) : j = k
  BY <1>10
<1>16. \A l : Debts(y, h, l) = Debts(x, g, l) \ D
  BY <1>8
<1> HIDE DEF D
<1>17. Pays(x, y, g, h, D, s)
  BY <1>3, <1>4, <1>5, <1>11, <1>12, <1>13, <1>14, <1>15, <1>16 DEF Pays
<1> QED BY <1>1, <1>17, OwnedPay

----------------------------------------------------------------------------
(* A branch that closes.                                                   *)

Popped(x, s) == [x EXCEPT !.code = @ \o s, !.branches = Pop(@)]

\* What the end of a branch does to all but the code.
PopsTo(x, y) ==
  /\ y \in Executors
  /\ y.label = x.label /\ y.circuits = x.circuits /\ y.scopes = x.scopes
  /\ Len(y.locals) = Len(x.locals)
  /\ Len(y.branches) = Len(x.branches) - 1
  /\ \A i \in 1..(Len(x.branches) - 1) : Branchy(y.branches[i]) = Branchy(x.branches[i])

LEMMA PopFacts ==
  ASSUME NEW x \in Executors, NEW s \in Seq(Instructions), Len(x.branches) > 0
  PROVE  /\ PopsTo(x, Popped(x, s)) /\ Popped(x, s).code = x.code \o s
         /\ Popped(x, s).values = x.values
         /\ \A i \in 1..(Len(x.branches) - 1) : Popped(x, s).branches[i] = x.branches[i]
         /\ Emit([x EXCEPT !.branches = Pop(@)], s) = Popped(x, s)
         /\ [Emit(x, s) EXCEPT !.branches = Pop(@)] = Popped(x, s)
         /\ x.branches # <<>> /\ Top(x.branches) = x.branches[Len(x.branches)]
         /\ Top(x.branches) \in Contexts /\ Len(x.branches) \in DOMAIN x.branches
<1> DEFINE n == Len(x.branches)
           p == SubSeq(x.branches, 1, n - 1)
           t == x.code \o s
<1>1. n \in Nat /\ n \in 1..n /\ n - 1 \in Nat /\ DOMAIN x.branches = 1..n
      /\ x.branches \in Seq(Contexts)
  BY Fields
<1>2. t \in Seq(Instructions)
  BY Fields, Joined
<1>3. /\ p \in Seq(Contexts) /\ Len(p) = n - 1
      /\ \A i \in 1..(n - 1) : p[i] = x.branches[i]
  <2>1. \A i \in 1..(n - 1) : x.branches[i] \in Contexts
    BY <1>1, ElementOfSeq
  <2>2. /\ p \in Seq(Contexts) /\ Len(p) = IF 1 <= n - 1 THEN n - 1 - 1 + 1 ELSE 0
        /\ \A i \in 1..(n - 1 - 1 + 1) : p[i] = x.branches[1 + i - 1]
    BY <1>1, <2>1, SubSeqProperties
  <2>3. \A i \in 1..(n - 1) : 1 + i - 1 = i /\ i \in 1..(n - 1 - 1 + 1)
    BY <1>1
  <2>4. (IF 1 <= n - 1 THEN n - 1 - 1 + 1 ELSE 0) = n - 1
    BY <1>1
  <2> HIDE DEF p
  <2> QED BY <2>2, <2>3, <2>4
<1>4. Pop(x.branches) = p
  BY DEF Pop
<1>5. Popped(x, s) = [x EXCEPT !.code = t, !.branches = p]
  BY <1>4 DEF Popped
<1>6. x.branches # <<>> /\ Top(x.branches) = x.branches[n] /\ x.branches[n] \in Contexts
  BY <1>1, ElementOfSeq DEF Top
<1> HIDE DEF t, p
<1>7. /\ Popped(x, s) \in Executors
      /\ Popped(x, s).code = t /\ Popped(x, s).branches = p
      /\ Popped(x, s).label = x.label /\ Popped(x, s).circuits = x.circuits
      /\ Popped(x, s).scopes = x.scopes /\ Popped(x, s).locals = x.locals
      /\ Popped(x, s).values = x.values
  BY <1>2, <1>3, <1>5 DEF Executors
<1>8. PopsTo(x, Popped(x, s))
  BY <1>3, <1>7 DEF PopsTo
<1>9. Emit([x EXCEPT !.branches = Pop(@)], s) = Popped(x, s)
  BY DEF Emit, Popped, Executors
<1>10. [Emit(x, s) EXCEPT !.branches = Pop(@)] = Popped(x, s)
  BY DEF Emit, Popped, Executors
<1> QED BY <1>1, <1>3, <1>6, <1>7, <1>8, <1>9, <1>10 DEF t

LEMMA DebtsPop ==
  ASSUME NEW x \in Executors, NEW y, PopsTo(x, y), Len(x.branches) > 0, NEW g, NEW h,
         \A i \in 1..(Len(x.branches) - 1) : x.branches[i].kind # "ternary"
  PROVE  \A l : Debts(y, h, l) = Debts(x, g, l)
                                   \ {<<"end", Len(x.branches)>>, <<"else", Len(x.branches)>>}
<1> DEFINE n == Len(x.branches)
           D == {<<"end", n>>, <<"else", n>>}
<1>1. n \in Nat /\ n > 0 /\ DOMAIN x.branches = 1..n /\ y \in Executors /\ y.circuits = x.circuits
  BY Fields DEF PopsTo
<1>2. DOMAIN y.branches = 1..(n - 1)
  BY <1>1, Fields DEF PopsTo
<1>3. \A i \in 1..(n - 1) : Branchy(y.branches[i]) = Branchy(x.branches[i])
  BY DEF PopsTo
<1>4. \A i \in 1..(n - 1) :
        /\ y.branches[i].end = x.branches[i].end /\ y.branches[i].els = x.branches[i].els
        /\ y.branches[i].kind = x.branches[i].kind
  BY <1>3, BranchyFields
<1>5. \A i \in 1..(n - 1) : OwesElse(y, h, i) <=> OwesElse(x, g, i)
  BY <1>4 DEF OwesElse
<1>6. \A i : i \in 1..n <=> i \in 1..(n - 1) \/ i = n
  BY <1>1
<1>7. n \notin 1..(n - 1)
  BY <1>1
<1> HIDE DEF n
<1>8. TAKE l
<1>9. ASSUME NEW o \in Debts(y, h, l) PROVE o \in Debts(x, g, l) \ D
  <2>1. CASE \E i \in DOMAIN y.branches : o = <<"end", i>> /\ y.branches[i].end = l
    <3>1. PICK i \in 1..(n - 1) : o = <<"end", i>> /\ y.branches[i].end = l
      BY <2>1, <1>2
    <3>2. i # n /\ i \in DOMAIN x.branches /\ x.branches[i].end = l
      BY <3>1, <1>1, <1>4, <1>6, <1>7
    <3> QED BY <3>1, <3>2, DebtIs
  <2>2. CASE \E i \in DOMAIN y.branches :
               o = <<"else", i>> /\ OwesElse(y, h, i) /\ y.branches[i].els = l
    <3>1. PICK i \in 1..(n - 1) : o = <<"else", i>> /\ OwesElse(y, h, i) /\ y.branches[i].els = l
      BY <2>2, <1>2
    <3>2. i # n /\ i \in DOMAIN x.branches /\ x.branches[i].els = l /\ OwesElse(x, g, i)
      BY <3>1, <1>1, <1>4, <1>5, <1>6, <1>7
    <3> QED BY <3>1, <3>2, DebtIs
  <2>3. CASE \E i \in DOMAIN y.circuits : o = <<"circuit", i>> /\ y.circuits[i].end = l
    BY <2>3, <1>1, DebtIs
  <2> QED BY <1>9, <2>1, <2>2, <2>3, DebtIs
<1>10. ASSUME NEW o \in Debts(x, g, l) \ D PROVE o \in Debts(y, h, l)
  <2>1. CASE \E i \in DOMAIN x.branches : o = <<"end", i>> /\ x.branches[i].end = l
    <3>1. PICK i \in 1..n : o = <<"end", i>> /\ x.branches[i].end = l
      BY <2>1, <1>1
    <3>2. i # n
      BY <1>10, <3>1
    <3>3. i \in DOMAIN y.branches /\ y.branches[i].end = l
      BY <3>1, <3>2, <1>2, <1>4, <1>6
    <3> QED BY <3>1, <3>3, DebtIs
  <2>2. CASE \E i \in DOMAIN x.branches :
               o = <<"else", i>> /\ OwesElse(x, g, i) /\ x.branches[i].els = l
    <3>1. PICK i \in 1..n : o = <<"else", i>> /\ OwesElse(x, g, i) /\ x.branches[i].els = l
      BY <2>2, <1>1
    <3>2. i # n
      BY <1>10, <3>1
    <3>3. i \in DOMAIN y.branches /\ y.branches[i].els = l /\ OwesElse(y, h, i)
      BY <3>1, <3>2, <1>2, <1>4, <1>5, <1>6
    <3> QED BY <3>1, <3>3, DebtIs
  <2>3. CASE \E i \in DOMAIN x.circuits : o = <<"circuit", i>> /\ x.circuits[i].end = l
    BY <2>3, <1>1, DebtIs
  <2> QED BY <1>10, <2>1, <2>2, <2>3, DebtIs
<1> QED BY <1>9, <1>10 DEF n

\* The labels with which the innermost branch may end.
Ends(x, g, s) ==
  LET b == x.branches[Len(x.branches)]
  IN  /\ s \in Seq(Instructions)
      /\ \A l : PutBy(s, l) <=> l = b.end \/ (OwesElse(x, g, Len(x.branches)) /\ l = b.els)
      /\ \A l : \A j, k \in Landings(s, l) : j = k
      /\ \A k \in DOMAIN s : s[k].op \in {"jump", "branch"} => Owners(x, g, s[k].target) # {}

LEMMA OwnedPop ==
  ASSUME NEW x \in Executors, NEW y, NEW g, NEW h, NEW s, LabelsOwned(x, g),
         Len(x.branches) > 0, Ends(x, g, s), PopsTo(x, y), y.code = x.code \o s,
         \A i \in 1..(Len(x.branches) - 1) : x.branches[i].kind # "ternary"
  PROVE  LabelsOwned(y, h)
<1> DEFINE n == Len(x.branches)
           D == {<<"end", n>>, <<"else", n>>}
<1>1. n \in Nat /\ n > 0 /\ DOMAIN x.branches = 1..n /\ n \in 1..n
      /\ y \in Executors /\ y.circuits = x.circuits /\ y.label = x.label
  BY Fields DEF PopsTo
<1>2. DOMAIN y.branches = 1..(n - 1) /\ \A i \in 1..(n - 1) : i \in DOMAIN x.branches
  BY <1>1, Fields DEF PopsTo
<1>3. \A i \in 1..(n - 1) : Branchy(y.branches[i]) = Branchy(x.branches[i])
  BY DEF PopsTo
<1>4. \A i \in 1..(n - 1) :
        /\ y.branches[i].end = x.branches[i].end /\ y.branches[i].els = x.branches[i].els
        /\ y.branches[i].kind = x.branches[i].kind /\ y.branches[i].loop = x.branches[i].loop
  BY <1>3, BranchyFields
<1>5. \A l : Debts(y, h, l) = Debts(x, g, l) \ D
  BY DebtsPop
<1>6. ASSUME NEW l
      PROVE  PutBy(s, l) <=> \E o \in D : o \in Debts(x, g, l)
  <2>1. <<"end", n>> \in Debts(x, g, l) <=> l = x.branches[n].end
    BY <1>1, DebtIs
  <2>2. <<"else", n>> \in Debts(x, g, l) <=> OwesElse(x, g, n) /\ l = x.branches[n].els
    BY <1>1, DebtIs
  <2>3. PutBy(s, l) <=> l = x.branches[n].end \/ (OwesElse(x, g, n) /\ l = x.branches[n].els)
    BY DEF Ends
  <2> QED BY <2>1, <2>2, <2>3
<1>7. InRange(y)
  BY <1>1, <1>2, <1>4 DEF InRange, LabelsOwned
<1>8. \A i \in Loops(y) : i \in Loops(x) /\ y.branches[i].loop = x.branches[i].loop
  BY <1>2, <1>4 DEF Loops
<1> HIDE DEF D, n
<1>9. Pays(x, y, g, h, D, s)
  BY <1>1, <1>5, <1>6, <1>7, <1>8 DEF Pays, Ends
<1> QED BY <1>1, <1>9, OwnedPay

LEMMA OneInsn ==
  ASSUME NEW i \in Instructions
  PROVE  /\ <<i>> \in Seq(Instructions) /\ DOMAIN <<i>> = {1} /\ <<i>>[1] = i
         /\ \A l : \A j, k \in Landings(<<i>>, l) : j = k
         /\ \A l : PutBy(<<i>>, l) <=> i.op = "label" /\ i.target = l
<1> DEFINE s == <<i>>
<1>1. s \in Seq(Instructions) /\ DOMAIN s = {1} /\ s[1] = i
  OBVIOUS
<1> HIDE DEF s
<1>2. \A l : \A k : k \in Landings(s, l) <=> k = 1 /\ i.op = "label" /\ i.target = l
  BY <1>1 DEF Landings
<1>3. \A l : PutBy(s, l) <=> i.op = "label" /\ i.target = l
  BY <1>2 DEF PutBy
<1> QED BY <1>1, <1>2, <1>3 DEF s

LEMMA TwoInsns ==
  ASSUME NEW i \in Instructions, NEW j \in Instructions,
         i.op = "label" /\ j.op = "label" => i.target # j.target
  PROVE  /\ <<i, j>> \in Seq(Instructions) /\ DOMAIN <<i, j>> = {1, 2}
         /\ <<i, j>>[1] = i /\ <<i, j>>[2] = j
         /\ \A l : \A m, k \in Landings(<<i, j>>, l) : m = k
         /\ \A l : PutBy(<<i, j>>, l) <=> \/ i.op = "label" /\ i.target = l
                                          \/ j.op = "label" /\ j.target = l
<1> DEFINE s == <<i, j>>
<1>1. s \in Seq(Instructions) /\ DOMAIN s = {1, 2} /\ s[1] = i /\ s[2] = j
  OBVIOUS
<1> HIDE DEF s
<1>2. \A l : \A k : k \in Landings(s, l) <=> \/ k = 1 /\ i.op = "label" /\ i.target = l
                                             \/ k = 2 /\ j.op = "label" /\ j.target = l
  BY <1>1 DEF Landings
<1>3. \A l : PutBy(s, l) <=> \/ i.op = "label" /\ i.target = l
                             \/ j.op = "label" /\ j.target = l
  BY <1>2 DEF PutBy
<1> QED BY <1>1, <1>2, <1>3 DEF s

LEMMA TopLabels ==
  ASSUME NEW x \in Executors, NEW g, LabelsOwned(x, g), NEW n \in DOMAIN x.branches
  PROVE  /\ x.branches[n].end \in Nat /\ x.branches[n].els \in Nat
         /\ x.branches[n].loop \in Nat /\ x.branches[n] \in Contexts
         /\ x.branches[n].end \in 1..(x.label - 1) /\ x.branches[n].els \in 0..(x.label - 1)
         /\ OwesElse(x, g, n) => x.branches[n].els # x.branches[n].end
         /\ Owners(x, g, x.branches[n].end) # {}
<1> DEFINE b == x.branches[n]
<1>1. b \in Contexts
  BY Fields, ElementOfSeq
<1>2. b.end \in 1..(x.label - 1) /\ b.els \in 0..(x.label - 1)
  BY DEF LabelsOwned
<1>3. <<"end", n>> \in Owners(x, g, b.end)
  BY DebtIs, OwnerIs
<1>4. OwesElse(x, g, n) => <<"else", n>> \in Owners(x, g, b.els)
  BY DebtIs, OwnerIs
<1>5. OwesElse(x, g, n) => b.els # b.end
  BY <1>2, <1>3, <1>4 DEF LabelsOwned
<1> QED BY <1>1, <1>2, <1>3, <1>5 DEF Contexts

LEMMA EndsWith ==
  ASSUME NEW x \in Executors, NEW g, LabelsOwned(x, g), Len(x.branches) > 0
  PROVE  LET b == Top(x.branches)
             n == Len(x.branches)
         IN  /\ ~OwesElse(x, g, n) => Ends(x, g, <<Label(b.end)>>)
             /\ OwesElse(x, g, n) => Ends(x, g, <<Label(b.els), Label(b.end)>>)
             /\ ~OwesElse(x, g, n) => \A i \in Plain : Ends(x, g, <<i, Label(b.end)>>)
             /\ ~OwesElse(x, g, n) /\ b.kind \in {"while", "for"} =>
                  Ends(x, g, <<Jump(b.loop), Label(b.end)>>)
<1> DEFINE b == Top(x.branches)
           n == Len(x.branches)
<1>1. n \in DOMAIN x.branches /\ b = x.branches[n]
  BY Fields DEF Top
<1>2. /\ b.end \in Nat /\ b.els \in Nat /\ b.loop \in Nat
      /\ OwesElse(x, g, n) => b.els # b.end
  BY <1>1, TopLabels
<1>3. /\ Label(b.end) \in Instructions /\ Label(b.end).op = "label" /\ Label(b.end).target = b.end
      /\ Label(b.els) \in Instructions /\ Label(b.els).op = "label" /\ Label(b.els).target = b.els
      /\ Jump(b.loop) \in Instructions /\ Jump(b.loop).op = "jump"
      /\ Jump(b.loop).target = b.loop
  BY <1>2, ControlInsns
<1>4. b.kind \in {"while", "for"} => Owners(x, g, b.loop) # {}
  BY <1>1, Indebted DEF LabelsOwned, Loops
<1> HIDE DEF b, n
<1>5. ASSUME ~OwesElse(x, g, n)
      PROVE  Ends(x, g, <<Label(b.end)>>)
  BY <1>1, <1>3, <1>5, OneInsn DEF Ends, n
<1>6. ASSUME OwesElse(x, g, n)
      PROVE  Ends(x, g, <<Label(b.els), Label(b.end)>>)
  BY <1>1, <1>2, <1>3, <1>6, TwoInsns DEF Ends, n
<1>7. ASSUME ~OwesElse(x, g, n), NEW i \in Plain
      PROVE  Ends(x, g, <<i, Label(b.end)>>)
  <2>1. i \in Instructions /\ i.op \notin {"label", "jump", "branch"}
    BY DEF Plain, Controls
  <2> QED BY <2>1, <1>1, <1>2, <1>3, <1>7, TwoInsns DEF Ends, n
<1>8. ASSUME ~OwesElse(x, g, n), b.kind \in {"while", "for"}
      PROVE  Ends(x, g, <<Jump(b.loop), Label(b.end)>>)
  BY <1>1, <1>2, <1>3, <1>4, <1>8, TwoInsns, SMTT(30) DEF Ends, n
<1> QED BY <1>5, <1>6, <1>7, <1>8 DEF b, n

\* Of the goals, only telse takes the label of an arm from a branch.
LEMMA CloseArmFacts ==
  ASSUME NEW x \in Executors, NEW s \in Seq(Instructions), Len(x.branches) > 0
  PROVE  /\ PopsTo(x, CloseArm(x, s))
         /\ \A g, h :
              /\ LabelsOwned(x, g) /\ Ends(x, g, s)
              /\ \A k \in DOMAIN s : s[k].op = "label"
              /\ \A i \in 1..(Len(x.branches) - 1) : x.branches[i].kind # "ternary"
              => LabelsOwned(CloseArm(x, s), h)
<1> DEFINE n == Len(x.branches)
           y == SinkStore(x, n)
           b == Top(y.branches)
           z == Popped(y, s)
           w == SinkLoad(z, b)
<1>1. n \in DOMAIN x.branches /\ n \in Nat
  BY Fields
<1>2. Quiet(x, y)
  BY <1>1, QuietSinkStore
<1>3. y \in Executors /\ Len(y.branches) = n
  BY <1>2 DEF Quiet
<1> HIDE DEF y
<1>4. PopsTo(y, z) /\ z.code = y.code \o s /\ b \in Contexts
      /\ CloseArm(x, s) = w
  BY <1>3, PopFacts DEF CloseArm, y
<1>5. z \in Executors
  BY <1>4 DEF PopsTo
<1> HIDE DEF z, b
<1>6. Quiet(z, w) /\ w \in Executors
  BY <1>4, <1>5, QuietSinkLoad DEF Quiet
<1> HIDE DEF w
<1>7. PopsTo(x, w)
  <2>1. \A i \in 1..(n - 1) : i \in 1..n
    BY <1>1
  <2>2. \A i \in 1..(n - 1) : Branchy(y.branches[i]) = Branchy(x.branches[i])
    BY <1>2, <2>1 DEF Quiet
  <2>3. \A i \in 1..(n - 1) : Branchy(z.branches[i]) = Branchy(y.branches[i])
    BY <1>3, <1>4 DEF PopsTo
  <2>4. Len(z.branches) = n - 1
    BY <1>3, <1>4 DEF PopsTo
  <2>5. \A i \in 1..(n - 1) : Branchy(w.branches[i]) = Branchy(z.branches[i])
    BY <1>6, <2>4 DEF Quiet
  <2>6. \A i \in 1..(n - 1) : Branchy(w.branches[i]) = Branchy(x.branches[i])
    BY <2>2, <2>3, <2>5
  <2>7. /\ w.label = x.label /\ w.circuits = x.circuits /\ w.scopes = x.scopes
        /\ Len(w.locals) = Len(x.locals) /\ Len(w.branches) = n - 1
    BY <1>2, <1>4, <1>6, <2>4 DEF Quiet, PopsTo
  <2> QED BY <1>6, <2>6, <2>7 DEF PopsTo
<1>8. ASSUME NEW g, NEW h, LabelsOwned(x, g), Ends(x, g, s),
             \A k \in DOMAIN s : s[k].op = "label",
             \A i \in 1..(n - 1) : x.branches[i].kind # "ternary"
      PROVE  LabelsOwned(w, h)
  <2>1. LabelsOwned(y, g)
    BY <1>2, <1>8, QuietOwned DEF SameArm
  <2>2. \A i \in 1..n : Branchy(y.branches[i]) = Branchy(x.branches[i])
    BY <1>2 DEF Quiet
  <2>3. \A i \in 1..n : /\ y.branches[i].kind = x.branches[i].kind
                        /\ y.branches[i].end = x.branches[i].end
                        /\ y.branches[i].els = x.branches[i].els
    BY <2>2, BranchyFields
  <2>4. n \in 1..n /\ \A i \in 1..(n - 1) : i \in 1..n
    BY <1>1, Fields
  <2>5. OwesElse(y, g, n) <=> OwesElse(x, g, n)
    BY <2>3, <2>4 DEF OwesElse
  <2>6. Ends(y, g, s)
    BY <1>3, <1>8, <2>3, <2>4, <2>5 DEF Ends
  <2>7. \A i \in 1..(Len(y.branches) - 1) : y.branches[i].kind # "ternary"
    BY <1>3, <1>8, <2>3, <2>4
  <2>8. LabelsOwned(z, h)
    BY <1>1, <1>3, <1>4, <2>1, <2>6, <2>7, OwnedPop
  <2> QED BY <1>5, <1>6, <2>8, QuietOwned DEF SameArm
<1> QED BY <1>4, <1>7, <1>8

----------------------------------------------------------------------------
(* Circuits.                                                               *)

LEMMA ProduceFacts ==
  ASSUME NEW x \in Executors, NEW i
  PROVE  /\ Produce(x, i).branches = x.branches /\ Produce(x, i).circuits = x.circuits
         /\ Produce(x, i).code = x.code \o <<i>> /\ Produce(x, i).scopes = x.scopes
         /\ Produce(x, i).label = x.label /\ Produce(x, i).locals = x.locals
         /\ Produce(x, i).returned = x.returned /\ Produce(x, i).nonUnit = x.nonUnit
BY DEF Produce, Push, NewValues, Emit, Executors

Settles(x, y) ==
  /\ y \in Executors
  /\ y.branches = x.branches /\ y.label = x.label /\ y.scopes = x.scopes
  /\ Len(y.locals) = Len(x.locals)
  /\ x.circuits = <<>> => y.circuits = <<>>

LEMMA SettleFacts ==
  ASSUME NEW x \in Executors
  PROVE  /\ Settles(x, Settle(x))
         /\ \A g : LabelsOwned(x, g) => LabelsOwned(Settle(x), g)
<1> DEFINE c == Top(x.circuits)
           n == Len(x.circuits)
           s == <<Store(c.sink, Top(x.values).id), Label(c.end)>>
           q == SubSeq(x.circuits, 1, n - 1)
           p == PopValues(x, 1)
           y == [p EXCEPT !.circuits = Pop(@)]
           z == Emit(y, s)
           w == Produce(z, Load(x.value, c.sink))
<1>1. CASE x.circuits = <<>> \/ Len(x.values) # c.before + 1
  BY <1>1 DEF Settle, Settles
<1>2. CASE ~(x.circuits = <<>> \/ Len(x.values) # c.before + 1)
  <2>1. /\ n \in Nat /\ n > 0 /\ n \in 1..n /\ DOMAIN x.circuits = 1..n
        /\ x.circuits \in Seq(Circuits) /\ c = x.circuits[n] /\ c \in Circuits
    <3>1. n \in Nat /\ n > 0 /\ DOMAIN x.circuits = 1..n /\ x.circuits \in Seq(Circuits)
      BY <1>2, Fields, EmptySeq
    <3> QED BY <3>1, ElementOfSeq DEF Top
  <2>2. c.sink \in Names /\ c.end \in Nat /\ c.before \in Nat
    BY <2>1 DEF Circuits
  <2>3. Len(x.values) > 0
    BY <1>2, <2>2
  <2>4. Store(c.sink, Top(x.values).id) \in Plain /\ Load(x.value, c.sink) \in Plain
    BY <2>2, <2>3, TopValue, PlainInsns, Fields
  <2>5. Label(c.end) \in Instructions /\ Label(c.end).op = "label" /\ Label(c.end).target = c.end
    BY <2>2, ControlInsns
  <2>6. /\ s \in Seq(Instructions) /\ DOMAIN s = {1, 2}
        /\ s[1] = Store(c.sink, Top(x.values).id) /\ s[2] = Label(c.end)
        /\ \A l : \A m, k \in Landings(s, l) : m = k
        /\ \A l : PutBy(s, l) <=> l = c.end
        /\ \A k \in DOMAIN s : s[k].op \notin {"jump", "branch"}
    <3>1. Store(c.sink, Top(x.values).id) \in Instructions
          /\ Store(c.sink, Top(x.values).id).op \notin Controls
      BY <2>4 DEF Plain
    <3> QED BY <3>1, <2>5, TwoInsns DEF Controls
  <2>7. /\ q \in Seq(Circuits) /\ Len(q) = n - 1 /\ DOMAIN q = 1..(n - 1)
        /\ \A i \in 1..(n - 1) : q[i] = x.circuits[i]
    <3>1. \A i \in 1..(n - 1) : x.circuits[i] \in Circuits
      BY <2>1, ElementOfSeq
    <3>2. /\ q \in Seq(Circuits) /\ Len(q) = IF 1 <= n - 1 THEN n - 1 - 1 + 1 ELSE 0
          /\ \A i \in 1..(n - 1 - 1 + 1) : q[i] = x.circuits[1 + i - 1]
      BY <2>1, <3>1, SubSeqProperties
    <3>3. \A i \in 1..(n - 1) : 1 + i - 1 = i /\ i \in 1..(n - 1 - 1 + 1)
      BY <2>1
    <3>4. (IF 1 <= n - 1 THEN n - 1 - 1 + 1 ELSE 0) = n - 1
      BY <2>1
    <3> HIDE DEF q
    <3> QED BY <3>2, <3>3, <3>4
  <2>8. Settle(x) = w
    BY <1>2 DEF Settle
  <2>9. p \in Executors /\ p = [x EXCEPT !.values = SubSeq(x.values, 1, Len(x.values) - 1)]
    <3>1. Quiet(x, PopValues(x, 1))
      BY <2>3, TopValue, QuietPop
    <3> QED BY <3>1 DEF Quiet, PopValues
  <2>10. y = [p EXCEPT !.circuits = q]
    BY <2>9 DEF Pop, Executors
  <2> HIDE DEF q, s
  <2>11. /\ p.code = x.code /\ p.branches = x.branches /\ p.label = x.label
         /\ p.scopes = x.scopes /\ p.locals = x.locals
    BY <2>9 DEF Executors
  <2> HIDE DEF p
  <2>12. /\ y \in Executors /\ y.circuits = q /\ y.code = x.code
         /\ y.branches = x.branches /\ y.label = x.label
         /\ y.scopes = x.scopes /\ y.locals = x.locals
    BY <2>7, <2>9, <2>10, <2>11 DEF Executors
  <2> HIDE DEF y
  <2>13. /\ z \in Executors /\ z.code = x.code \o s
         /\ z.circuits = q /\ z.branches = x.branches /\ z.label = x.label
         /\ z.scopes = x.scopes /\ z.locals = x.locals
    <3>1. z \in Executors /\ z.code = y.code \o s
      BY <2>6, <2>12, EmitFacts
    <3> QED BY <3>1, <2>12 DEF Emit, Executors
  <2> HIDE DEF z
  <2>14. Quiet(z, w) /\ w \in Executors
    BY <2>4, <2>13, QuietProduce DEF Quiet
  <2>15. w.branches = x.branches
    BY <2>13, ProduceFacts
  <2>16. Settles(x, w)
    BY <1>2, <2>13, <2>14, <2>15 DEF Settles, Quiet
  <2>17. ASSUME NEW g, LabelsOwned(x, g) PROVE LabelsOwned(w, g)
    <3> DEFINE D == {<<"circuit", n>>}
    <3>1. n \notin 1..(n - 1) /\ \A i : i \in 1..n <=> i \in 1..(n - 1) \/ i = n
      BY <2>1
    <3>2. DOMAIN z.circuits = 1..(n - 1) /\ \A i \in 1..(n - 1) : z.circuits[i] = x.circuits[i]
      BY <2>7, <2>13
    <3>3. \A i \in DOMAIN x.branches : OwesElse(z, g, i) <=> OwesElse(x, g, i)
      BY <2>13 DEF OwesElse
    <3>4. c = x.circuits[n] /\ n \in 1..n /\ DOMAIN x.circuits = 1..n
      BY <2>1
    <3> HIDE DEF n, c
    <3>5. ASSUME NEW l, NEW o
          PROVE  o \in Debts(z, g, l) <=> o \in Debts(x, g, l) \ D
      <4>1. (\E i \in DOMAIN z.circuits : o = <<"circuit", i>> /\ z.circuits[i].end = l)
              <=> \E i \in DOMAIN x.circuits : o = <<"circuit", i>> /\ x.circuits[i].end = l /\ i # n
        BY <3>1, <3>2, <3>4
      <4>2. o = <<"circuit", n>> => \A i : o # <<"end", i>> /\ o # <<"else", i>>
        OBVIOUS
      <4>3. \A i : o = <<"circuit", i>> => (o \in D <=> i = n)
        OBVIOUS
      <4> HIDE DEF D
      <4>4. o \in D => o = <<"circuit", n>>
        BY DEF D
      <4> QED BY <4>1, <4>2, <4>3, <4>4, <3>3, <2>13, DebtIs
    <3>6. \A l : Debts(z, g, l) = Debts(x, g, l) \ D
      BY <3>5
    <3>7. \A l : <<"circuit", n>> \in Debts(x, g, l) <=> l = c.end
      BY <3>4, DebtIs
    <3>8. \A l : PutBy(s, l) <=> \E o \in D : o \in Debts(x, g, l)
      BY <3>7, <2>6
    <3>9. InRange(z)
      BY <2>13, <3>1, <3>2, <3>4, <2>17 DEF InRange, LabelsOwned
    <3>10. \A i \in Loops(z) : i \in Loops(x) /\ z.branches[i].loop = x.branches[i].loop
      BY <2>13 DEF Loops
    <3> HIDE DEF D
    <3>11. Pays(x, z, g, g, D, s)
      BY <2>6, <2>13, <2>17, <3>6, <3>8, <3>9, <3>10 DEF Pays
    <3>12. LabelsOwned(z, g)
      BY <3>11, <2>13, OwnedPay
    <3> QED BY <3>12, <2>13, <2>14, QuietOwned DEF SameArm
  <2> QED BY <2>8, <2>16, <2>17
<1> QED BY <1>1, <1>2

----------------------------------------------------------------------------
(* A branch that opens.                                                    *)

Opened(x, y, kind, end, els, loop, use, s) ==
  /\ y \in Executors
  /\ y.label = x.label + 2 /\ y.circuits = x.circuits /\ y.scopes = x.scopes
  /\ Len(y.locals) = Len(x.locals)
  /\ Len(y.branches) = Len(x.branches) + 1
  /\ \A i \in 1..Len(x.branches) : Branchy(y.branches[i]) = Branchy(x.branches[i])
  /\ Branchy(y.branches[Len(x.branches) + 1]) = <<kind, end, els, loop, Len(x.scopes), use>>
  /\ s \in Seq(Instructions) /\ y.code = x.code \o s

\* The branch is on top of those there were.
Branched(x, y, kind, end, els, loop, use) ==
  /\ y \in Executors
  /\ y.label = x.label /\ y.circuits = x.circuits /\ y.scopes = x.scopes
  /\ y.locals = x.locals /\ y.code = x.code
  /\ Len(y.branches) = Len(x.branches) + 1
  /\ \A i \in 1..Len(x.branches) : y.branches[i] = x.branches[i]
  /\ Branchy(y.branches[Len(x.branches) + 1]) = <<kind, end, els, loop, Len(x.scopes), use>>

LEMMA BranchFacts ==
  ASSUME NEW x \in Executors, NEW kind \in Kinds, NEW end \in Nat, NEW els \in Nat,
         NEW loop \in Nat, NEW emitted, emitted \in BOOLEAN, NEW var \in Names,
         NEW idx \in Names, NEW use \in Uses0
  PROVE  Branched(x, Branch(x, kind, end, els, loop, emitted, var, idx, use),
                  kind, end, els, loop, use)
<1> DEFINE mints == kind \in {"if", "ternary"} /\ HasSink(x)
           sink == IF mints THEN Sink(x.sinks + 1) ELSE Nothing
           b == [kind |-> kind, end |-> end, els |-> els, loop |-> loop, emitted |-> emitted,
                 var |-> var, idx |-> idx, depth |-> Len(x.scopes), entry |-> Height(x),
                 sink |-> sink, stored |-> "none", use |-> use]
           m == IF mints THEN x.sinks + 1 ELSE x.sinks
           t == Append(x.branches, b)
           y == Branch(x, kind, end, els, loop, emitted, var, idx, use)
<1>1. x.sinks \in Nat /\ Len(x.scopes) \in Nat /\ Height(x) \in Nat
      /\ x.branches \in Seq(Contexts) /\ Len(x.branches) \in Nat
  BY Fields, LastTyped
<1>2. m \in Nat
  BY <1>1
<1>3. sink \in {Nothing} \cup [sink : Nat]
  BY <1>1 DEF Sink
<1>4. y = [x EXCEPT !.branches = t, !.sinks = m]
  BY DEF Branch, Executors
<1> HIDE DEF m, sink
<1>5. b \in Contexts /\ Branchy(b) = <<kind, end, els, loop, Len(x.scopes), use>>
  BY <1>1, <1>3 DEF Contexts, Branchy
<1> HIDE DEF b
<1>6. /\ t \in Seq(Contexts) /\ Len(t) = Len(x.branches) + 1
      /\ \A i \in 1..Len(x.branches) : t[i] = x.branches[i]
      /\ t[Len(x.branches) + 1] = b
  BY <1>1, <1>5, AppendProperties
<1> HIDE DEF t, y
<1>7. /\ y \in Executors /\ y.branches = t
      /\ y.label = x.label /\ y.circuits = x.circuits /\ y.scopes = x.scopes
      /\ y.locals = x.locals /\ y.code = x.code
  BY <1>2, <1>4, <1>6 DEF Executors
<1>8. Branched(x, y, kind, end, els, loop, use)
  BY <1>5, <1>6, <1>7 DEF Branched
<1> QED BY <1>8 DEF y

LEMMA NewLabelsFacts ==
  ASSUME NEW x \in Executors, NEW n \in Nat
  PROVE  LET y == NewLabels(x, n)
         IN  /\ y \in Executors /\ y.label = x.label + n
             /\ y.circuits = x.circuits /\ y.scopes = x.scopes
             /\ y.locals = x.locals /\ y.code = x.code /\ y.branches = x.branches
             /\ y.values = x.values
<1> DEFINE m == x.label + n
           y == NewLabels(x, n)
<1>1. m \in Nat \ {0} /\ y = [x EXCEPT !.label = m]
  BY Fields DEF NewLabels
<1> HIDE DEF m, y
<1>2. /\ y \in Executors /\ y.label = m
      /\ y.circuits = x.circuits /\ y.scopes = x.scopes
      /\ y.locals = x.locals /\ y.code = x.code /\ y.branches = x.branches
      /\ y.values = x.values
  BY <1>1 DEF Executors
<1> QED BY <1>2 DEF m, y

\* The labels of the new branch are new: its own, or one that it places.
LEMMA OwnedOpen ==
  ASSUME NEW x \in Executors, NEW y, NEW g, NEW h, NEW kind, NEW end, NEW els, NEW loop,
         NEW use, NEW s, LabelsOwned(x, g), h # "telse",
         \A i \in DOMAIN x.branches : x.branches[i].kind # "ternary",
         Opened(x, y, kind, end, els, loop, use, s),
         \A l : \A j, k \in Landings(s, l) : j = k,
         \A k \in DOMAIN s : s[k].op \in {"jump", "branch"} => s[k].target = end,
         \/ /\ end = x.label /\ els = x.label + 1 /\ kind \in {"if", "ternary"}
            /\ \A l : ~PutBy(s, l)
         \/ /\ end = x.label + 1 /\ els = 0 /\ loop = x.label
            /\ \A l : PutBy(s, l) <=> l = x.label
  PROVE  LabelsOwned(y, h)
<1> DEFINE n == Len(x.branches)
<1>1. n \in Nat /\ DOMAIN x.branches = 1..n /\ y \in Executors /\ x.label \in Nat /\ x.label > 0
  BY Fields DEF Opened
<1>2. DOMAIN y.branches = 1..(n + 1) /\ y.circuits = x.circuits /\ y.label = x.label + 2
  BY <1>1, Fields DEF Opened
<1>3. \A i \in 1..n : /\ y.branches[i].kind = x.branches[i].kind
                      /\ y.branches[i].end = x.branches[i].end
                      /\ y.branches[i].els = x.branches[i].els
                      /\ y.branches[i].loop = x.branches[i].loop
  <2>1. \A i \in 1..n : Branchy(y.branches[i]) = Branchy(x.branches[i])
    BY DEF Opened
  <2> QED BY <2>1, BranchyFields
<1>4. /\ y.branches[n + 1].kind = kind /\ y.branches[n + 1].end = end
      /\ y.branches[n + 1].els = els /\ y.branches[n + 1].loop = loop
  BY DEF Opened, Branchy
<1>5. \A i : i \in 1..(n + 1) <=> i \in 1..n \/ i = n + 1
  BY <1>1
<1>6. n + 1 \notin 1..n
  BY <1>1
<1>7. \A i \in 1..n : OwesElse(y, h, i) <=> OwesElse(x, g, i)
  BY <1>1, <1>3 DEF OwesElse
<1>8. OwesElse(y, h, n + 1) <=> els # 0
  BY <1>4 DEF OwesElse
<1> HIDE DEF n
<1>9. ASSUME NEW l, NEW o
      PROVE  o \in Debts(y, h, l) <=> \/ o \in Debts(x, g, l)
                                      \/ o = <<"end", n + 1>> /\ l = end
                                      \/ o = <<"else", n + 1>> /\ l = els /\ els # 0
  <2>1. (\E i \in DOMAIN y.branches : o = <<"end", i>> /\ y.branches[i].end = l)
          <=> \/ \E i \in DOMAIN x.branches : o = <<"end", i>> /\ x.branches[i].end = l
              \/ o = <<"end", n + 1>> /\ l = end
    BY <1>1, <1>2, <1>3, <1>4, <1>5
  <2>2. (\E i \in DOMAIN y.branches : o = <<"else", i>> /\ OwesElse(y, h, i) /\ y.branches[i].els = l)
          <=> \/ \E i \in DOMAIN x.branches :
                   o = <<"else", i>> /\ OwesElse(x, g, i) /\ x.branches[i].els = l
              \/ o = <<"else", n + 1>> /\ l = els /\ els # 0
    <3>1. \A i \in 1..n :
            o = <<"else", i>> /\ OwesElse(y, h, i) /\ y.branches[i].els = l
              <=> o = <<"else", i>> /\ OwesElse(x, g, i) /\ x.branches[i].els = l
      BY <1>3, <1>7
    <3>2. o = <<"else", n + 1>> /\ OwesElse(y, h, n + 1) /\ y.branches[n + 1].els = l
            <=> o = <<"else", n + 1>> /\ l = els /\ els # 0
      BY <1>4, <1>8
    <3> QED BY <3>1, <3>2, <1>1, <1>2, <1>5
  <2>3. (\E i \in DOMAIN y.circuits : o = <<"circuit", i>> /\ y.circuits[i].end = l)
          <=> \E i \in DOMAIN x.circuits : o = <<"circuit", i>> /\ x.circuits[i].end = l
    BY <1>2
  <2>4. o \in Debts(y, h, l) <=>
           \/ \E i \in DOMAIN y.branches : o = <<"end", i>> /\ y.branches[i].end = l
           \/ \E i \in DOMAIN y.branches :
                o = <<"else", i>> /\ OwesElse(y, h, i) /\ y.branches[i].els = l
           \/ \E i \in DOMAIN y.circuits : o = <<"circuit", i>> /\ y.circuits[i].end = l
    BY DebtIs
  <2>5. o \in Debts(x, g, l) <=>
           \/ \E i \in DOMAIN x.branches : o = <<"end", i>> /\ x.branches[i].end = l
           \/ \E i \in DOMAIN x.branches :
                o = <<"else", i>> /\ OwesElse(x, g, i) /\ x.branches[i].els = l
           \/ \E i \in DOMAIN x.circuits : o = <<"circuit", i>> /\ x.circuits[i].end = l
    BY DebtIs
  <2> QED BY <2>1, <2>2, <2>3, <2>4, <2>5, Zenon
<1>10. \A l : Debts(x, g, l) # {} \/ Landings(x.code, l) # {} => l \in 1..(x.label - 1)
  BY OwedInRange, Indebted
<1>11. /\ y.label >= x.label /\ y.code = x.code \o s /\ s \in Seq(Instructions)
  BY <1>1, <1>2 DEF Opened
<1>12. InRange(y)
  <2>1. ASSUME NEW i \in DOMAIN y.branches
        PROVE  y.branches[i].end \in 1..(y.label - 1) /\ y.branches[i].els \in 0..(y.label - 1)
    <3>1. CASE i \in 1..n
      <4>1. y.branches[i].end \in 1..(x.label - 1) /\ y.branches[i].els \in 0..(x.label - 1)
        BY <3>1, <1>1, <1>3 DEF LabelsOwned
      <4> QED BY <4>1, <1>1, <1>2, SMTT(30)
    <3>2. CASE i = n + 1
      <4>1. y.branches[i].end = end /\ y.branches[i].els = els
        BY <3>2, <1>4
      <4>2. end \in 1..(y.label - 1) /\ els \in 0..(y.label - 1)
        BY <1>1, <1>2
      <4> QED BY <4>1, <4>2
    <3> QED BY <3>1, <3>2, <1>2, <1>5
  <2>2. ASSUME NEW i \in DOMAIN y.circuits PROVE y.circuits[i].end \in 1..(y.label - 1)
    <3>1. y.circuits[i].end \in 1..(x.label - 1)
      BY <2>2, <1>2 DEF LabelsOwned
    <3> QED BY <3>1, <1>1, <1>2
  <2> QED BY <2>1, <2>2 DEF InRange
<1>13. \A l \in 1..(x.label - 1) : Debts(y, h, l) = Debts(x, g, l)
  <2>1. TAKE l \in 1..(x.label - 1)
  <2>2. l # end /\ (els = 0 \/ l # els)
    BY <1>1
  <2>3. \A o : o \in Debts(y, h, l) <=> o \in Debts(x, g, l)
    BY <2>2, <1>9
  <2> QED BY <2>3
<1>14. \A l \in x.label..(y.label - 1) : \A o, p \in Debts(y, h, l) : o = p
  <2>1. TAKE l \in x.label..(y.label - 1)
  <2>2. TAKE o, p \in Debts(y, h, l)
  <2>3. \A q : q \notin Debts(x, g, l)
    <3>1. l \notin 1..(x.label - 1)
      BY <2>1, <1>1
    <3> QED BY <3>1, <1>10
  <2>4. end # els \/ els = 0
    BY <1>1
  <2> QED BY <2>3, <2>4, <1>9
<1>15. \A l : PutBy(s, l) => l \in 1..(y.label - 1) /\ Debts(y, h, l) = {}
                             /\ ~(l < x.label)
  <2> SUFFICES ASSUME NEW l, PutBy(s, l)
               PROVE  /\ l \in 1..(y.label - 1) /\ ~(l < x.label)
                      /\ \A o : o \notin Debts(y, h, l)
    OBVIOUS
  <2>1. l = x.label /\ end = x.label + 1 /\ els = 0
    OBVIOUS
  <2>2. l \in 1..(y.label - 1) /\ ~(l < x.label) /\ l # end /\ l \notin 1..(x.label - 1)
    BY <2>1, <1>1, <1>2
  <2>3. \A o : o \notin Debts(x, g, l)
    BY <2>2, <1>10
  <2> QED BY <2>1, <2>2, <2>3, <1>9
<1>16. Debts(y, h, end) # {}
  BY <1>9
<1>17. ASSUME NEW i \in Loops(y)
       PROVE  PutBy(s, y.branches[i].loop) \/ Landings(x.code, y.branches[i].loop) # {}
  <2>1. CASE i \in 1..n
    <3>1. i \in Loops(x) /\ y.branches[i].loop = x.branches[i].loop
      BY <2>1, <1>1, <1>3, <1>17 DEF Loops
    <3> QED BY <3>1 DEF LabelsOwned
  <2>2. CASE i = n + 1
    <3>1. kind \notin {"if", "ternary"} /\ y.branches[i].loop = loop
      BY <2>2, <1>4, <1>17 DEF Loops
    <3> QED BY <3>1
  <2> QED BY <2>1, <2>2, <1>2, <1>5, <1>17 DEF Loops
<1>18. Mints(x, y, g, h, s)
  BY <1>11, <1>12, <1>13, <1>14, <1>15, <1>16, <1>17 DEF Mints
<1> QED BY <1>1, <1>18, OwnedStep

----------------------------------------------------------------------------
(* Jumps, the arms of a branch, the opening of a circuit, and scopes.      *)

\* All but the code and the values.
SameShape(x, y) ==
  /\ y \in Executors
  /\ y.branches = x.branches /\ y.circuits = x.circuits /\ y.label = x.label
  /\ y.scopes = x.scopes /\ y.locals = x.locals

LEMMA OwnedJump ==
  ASSUME NEW x \in Executors, NEW i \in Instructions, i.op \in {"jump", "branch"}
  PROVE  /\ SameShape(x, Emit(x, <<i>>)) /\ Emit(x, <<i>>).values = x.values
         /\ \A g : LabelsOwned(x, g) /\ Owners(x, g, i.target) # {} => LabelsOwned(Emit(x, <<i>>), g)
<1> DEFINE y == Emit(x, <<i>>)
           s == <<i>>
<1>1. /\ s \in Seq(Instructions) /\ DOMAIN s = {1} /\ s[1] = i
      /\ \A l : \A j, k \in Landings(s, l) : j = k
      /\ \A l : ~PutBy(s, l)
  BY OneInsn
<1>2. y \in Executors /\ y.code = x.code \o s
  BY <1>1, EmitFacts
<1>3. SameShape(x, y) /\ y.values = x.values
  BY <1>2 DEF SameShape, Emit, Executors
<1> HIDE DEF y, s
<1>4. ASSUME NEW g, LabelsOwned(x, g), Owners(x, g, i.target) # {}
      PROVE  LabelsOwned(y, g)
  <2> DEFINE D == {}
  <2>1. \A l : Debts(y, g, l) = Debts(x, g, l)
    BY <1>3, DebtsSame DEF SameShape, OwesElse
  <2>2. \A l : Debts(y, g, l) = Debts(x, g, l) \ D
    BY <2>1
  <2>3. \A l : PutBy(s, l) <=> \E o \in D : o \in Debts(x, g, l)
    BY <1>1
  <2>4. InRange(y)
    BY <1>3, <1>4 DEF InRange, LabelsOwned, SameShape
  <2>5. \A j \in Loops(y) : j \in Loops(x) /\ y.branches[j].loop = x.branches[j].loop
    BY <1>3 DEF Loops, SameShape
  <2> HIDE DEF D
  <2>6. Pays(x, y, g, g, D, s)
    BY <1>1, <1>2, <1>3, <1>4, <2>2, <2>3, <2>4, <2>5 DEF Pays, SameShape
  <2> QED BY <1>2, <2>6, OwnedPay
<1> QED BY <1>3, <1>4 DEF y, s

\* The second arm begins: a jump over it, and its label.
LEMMA OwnedArm ==
  ASSUME NEW x \in Executors, NEW y \in Executors, NEW g, NEW h, LabelsOwned(x, g),
         NEW n, n = Len(x.branches), n > 0,
         y.label = x.label, y.circuits = x.circuits, Len(y.branches) = n,
         y.code = x.code \o <<Jump(x.branches[n].end), Label(x.branches[n].els)>>,
         \A i \in 1..(n - 1) : /\ y.branches[i] = x.branches[i]
                               /\ x.branches[i].kind # "ternary",
         y.branches[n].end = x.branches[n].end, y.branches[n].els \in {0, x.branches[n].els},
         y.branches[n].kind = x.branches[n].kind, x.branches[n].kind \in {"if", "ternary"},
         OwesElse(x, g, n), ~OwesElse(y, h, n)
  PROVE  LabelsOwned(y, h)
<1> DEFINE b == x.branches[n]
           s == <<Jump(b.end), Label(b.els)>>
           D == {<<"else", n>>}
<1>1. n \in Nat /\ DOMAIN x.branches = 1..n /\ DOMAIN y.branches = 1..n /\ n \in 1..n
  BY Fields
<1>2. /\ b.end \in Nat /\ b.els \in Nat /\ b.els \in 0..(x.label - 1) /\ x.label > 0
      /\ x.label \in Nat /\ Owners(x, g, b.end) # {}
  BY <1>1, TopLabels, Fields
<1>3. /\ Label(b.els) \in Instructions /\ Label(b.els).op = "label" /\ Label(b.els).target = b.els
      /\ Jump(b.end) \in Instructions /\ Jump(b.end).op = "jump" /\ Jump(b.end).target = b.end
  BY <1>2, ControlInsns
<1>4. /\ s \in Seq(Instructions) /\ DOMAIN s = {1, 2} /\ s[1] = Jump(b.end) /\ s[2] = Label(b.els)
      /\ \A l : \A j, k \in Landings(s, l) : j = k
      /\ \A l : PutBy(s, l) <=> l = b.els
  BY <1>3, TwoInsns
<1>5. \A i \in 1..n : i # n => i \in 1..(n - 1)
  BY <1>1
<1>6. \A i \in 1..n : y.branches[i].end = x.branches[i].end
  BY <1>5
<1>7. \A i \in 1..n : i # n => (OwesElse(y, h, i) <=> OwesElse(x, g, i))
  BY <1>5 DEF OwesElse
<1>8. \A i \in 1..n : i # n => y.branches[i].els = x.branches[i].els
  BY <1>5
<1>9. /\ y.code = x.code \o s
      /\ \A k \in DOMAIN s : s[k].op \in {"jump", "branch"} => Owners(x, g, s[k].target) # {}
  BY <1>2, <1>3, <1>4
<1> HIDE DEF s
<1>10. ASSUME NEW l, NEW o
       PROVE  o \in Debts(y, h, l) <=> o \in Debts(x, g, l) /\ o # <<"else", n>>
  <2>1. (\E i \in 1..n : o = <<"end", i>> /\ y.branches[i].end = l)
          <=> (\E i \in 1..n : o = <<"end", i>> /\ x.branches[i].end = l) /\ o # <<"else", n>>
    <3>1. \A i : <<"end", i>> # <<"else", n>>
      OBVIOUS
    <3>2. (\E i \in 1..n : o = <<"end", i>> /\ y.branches[i].end = l)
            <=> \E i \in 1..n : o = <<"end", i>> /\ x.branches[i].end = l
      BY <1>6
    <3> QED BY <3>1, <3>2, Zenon
  <2>2. (\E i \in 1..n : o = <<"else", i>> /\ OwesElse(y, h, i) /\ y.branches[i].els = l)
          <=> /\ \E i \in 1..n : o = <<"else", i>> /\ OwesElse(x, g, i) /\ x.branches[i].els = l
              /\ o # <<"else", n>>
    <3>1. \A i : <<"else", i>> = <<"else", n>> => i = n
      OBVIOUS
    <3>2. ASSUME NEW i \in 1..n, i # n
          PROVE  OwesElse(y, h, i) /\ y.branches[i].els = l
                   <=> OwesElse(x, g, i) /\ x.branches[i].els = l
      <4>1. OwesElse(y, h, i) <=> OwesElse(x, g, i)
        BY <3>2, <1>7
      <4>2. y.branches[i].els = x.branches[i].els
        BY <3>2, <1>8
      <4> QED BY <4>1, <4>2
    <3> QED BY <3>1, <3>2, Zenon
  <2>3. (\E i \in DOMAIN y.circuits : o = <<"circuit", i>> /\ y.circuits[i].end = l)
          <=> /\ \E i \in DOMAIN x.circuits : o = <<"circuit", i>> /\ x.circuits[i].end = l
              /\ o # <<"else", n>>
    OBVIOUS
  <2>4. o \in Debts(y, h, l) <=>
           \/ \E i \in 1..n : o = <<"end", i>> /\ y.branches[i].end = l
           \/ \E i \in 1..n : o = <<"else", i>> /\ OwesElse(y, h, i) /\ y.branches[i].els = l
           \/ \E i \in DOMAIN y.circuits : o = <<"circuit", i>> /\ y.circuits[i].end = l
    BY <1>1, DebtIs, SMTT(30)
  <2>5. o \in Debts(x, g, l) <=>
           \/ \E i \in 1..n : o = <<"end", i>> /\ x.branches[i].end = l
           \/ \E i \in 1..n : o = <<"else", i>> /\ OwesElse(x, g, i) /\ x.branches[i].els = l
           \/ \E i \in DOMAIN x.circuits : o = <<"circuit", i>> /\ x.circuits[i].end = l
    BY <1>1, DebtIs
  <2> QED BY <2>1, <2>2, <2>3, <2>4, <2>5, Zenon
<1>11. \A l : Debts(y, h, l) = Debts(x, g, l) \ D
  BY <1>10
<1>12. \A l : <<"else", n>> \in Debts(x, g, l) <=> l = b.els
  BY <1>1, DebtIs
<1>13. \A l : PutBy(s, l) <=> \E o \in D : o \in Debts(x, g, l)
  BY <1>4, <1>12
<1>14. InRange(y)
  <2>1. ASSUME NEW i \in 1..n
        PROVE  y.branches[i].end \in 1..(y.label - 1) /\ y.branches[i].els \in 0..(y.label - 1)
    <3>1. /\ x.branches[i].end \in 1..(x.label - 1) /\ x.branches[i].els \in 0..(x.label - 1)
          /\ 0 \in 0..(x.label - 1)
      BY <1>1, <1>2 DEF LabelsOwned
    <3> QED BY <3>1, <1>6, <1>8
  <2> QED BY <2>1, <1>1 DEF InRange, LabelsOwned
<1>15. \A i \in Loops(y) : i \in Loops(x) /\ y.branches[i].loop = x.branches[i].loop
  <2>1. TAKE i \in Loops(y)
  <2>2. i \in 1..n /\ y.branches[i].kind \in {"while", "for"}
    BY <1>1 DEF Loops
  <2>3. i # n
    BY <2>2
  <2> QED BY <2>2, <2>3, <1>1, <1>5 DEF Loops
<1> HIDE DEF D
<1>16. Pays(x, y, g, h, D, s)
  BY <1>4, <1>9, <1>11, <1>13, <1>14, <1>15 DEF Pays
<1> QED BY <1>16, OwnedPay

\* A circuit takes a new label, and branches to it.
LEMMA OwnedCircuit ==
  ASSUME NEW x \in Executors, NEW y \in Executors, NEW g, NEW c, NEW s, LabelsOwned(x, g),
         y.label = x.label + 1, y.circuits = Append(x.circuits, c), c.end = x.label,
         c \in Circuits, y.branches = x.branches, s \in Seq(Instructions), y.code = x.code \o s,
         \A k \in DOMAIN s : s[k].op # "label",
         \A k \in DOMAIN s : s[k].op \in {"jump", "branch"} => s[k].target = x.label
  PROVE  LabelsOwned(y, g)
<1> DEFINE n == Len(x.circuits)
<1>1. /\ n \in Nat /\ DOMAIN x.circuits = 1..n /\ x.label \in Nat /\ x.label > 0
      /\ x.circuits \in Seq(Circuits)
  BY Fields
<1>2. /\ DOMAIN y.circuits = 1..(n + 1) /\ y.circuits[n + 1] = c
      /\ \A i \in 1..n : y.circuits[i] = x.circuits[i]
  <2>1. Len(Append(x.circuits, c)) = n + 1
    BY <1>1, AppendProperties
  <2>2. DOMAIN y.circuits = 1..(n + 1)
    BY <2>1, Fields
  <2> QED BY <1>1, <2>2, AppendProperties
<1>3. \A i : i \in 1..(n + 1) <=> i \in 1..n \/ i = n + 1
  BY <1>1
<1> HIDE DEF n
<1>4. ASSUME NEW l, NEW o
      PROVE  o \in Debts(y, g, l) <=> o \in Debts(x, g, l) \/ (o = <<"circuit", n + 1>> /\ l = x.label)
  <2>1. (\E i \in DOMAIN y.branches : o = <<"end", i>> /\ y.branches[i].end = l)
          <=> \E i \in DOMAIN x.branches : o = <<"end", i>> /\ x.branches[i].end = l
    OBVIOUS
  <2>2. (\E i \in DOMAIN y.branches : o = <<"else", i>> /\ OwesElse(y, g, i) /\ y.branches[i].els = l)
          <=> \E i \in DOMAIN x.branches : o = <<"else", i>> /\ OwesElse(x, g, i) /\ x.branches[i].els = l
    BY DEF OwesElse
  <2>3. (\E i \in DOMAIN y.circuits : o = <<"circuit", i>> /\ y.circuits[i].end = l)
          <=> \/ \E i \in DOMAIN x.circuits : o = <<"circuit", i>> /\ x.circuits[i].end = l
              \/ o = <<"circuit", n + 1>> /\ l = x.label
    BY <1>1, <1>2, <1>3
  <2>4. o \in Debts(y, g, l) <=>
           \/ \E i \in DOMAIN y.branches : o = <<"end", i>> /\ y.branches[i].end = l
           \/ \E i \in DOMAIN y.branches :
                o = <<"else", i>> /\ OwesElse(y, g, i) /\ y.branches[i].els = l
           \/ \E i \in DOMAIN y.circuits : o = <<"circuit", i>> /\ y.circuits[i].end = l
    BY DebtIs
  <2>5. o \in Debts(x, g, l) <=>
           \/ \E i \in DOMAIN x.branches : o = <<"end", i>> /\ x.branches[i].end = l
           \/ \E i \in DOMAIN x.branches :
                o = <<"else", i>> /\ OwesElse(x, g, i) /\ x.branches[i].els = l
           \/ \E i \in DOMAIN x.circuits : o = <<"circuit", i>> /\ x.circuits[i].end = l
    BY DebtIs
  <2> QED BY <2>1, <2>2, <2>3, <2>4, <2>5, Zenon
<1>5. \A l : Debts(x, g, l) # {} => l \in 1..(x.label - 1)
  BY OwedInRange, Indebted
<1>6. \A l \in 1..(x.label - 1) : Debts(y, g, l) = Debts(x, g, l)
  <2>1. TAKE l \in 1..(x.label - 1)
  <2>2. l # x.label
    BY <1>1
  <2>3. \A o : o \in Debts(y, g, l) <=> o \in Debts(x, g, l)
    BY <2>2, <1>4
  <2> QED BY <2>3
<1>7. \A l \in x.label..(y.label - 1) : \A o, p \in Debts(y, g, l) : o = p
  <2>1. TAKE l \in x.label..(y.label - 1)
  <2>2. l \notin 1..(x.label - 1)
    BY <1>1
  <2>3. \A o : o \notin Debts(x, g, l)
    BY <2>2, <1>5
  <2> QED BY <2>3, <1>4
<1>8. \A l : Landings(s, l) = {} /\ ~PutBy(s, l)
  BY NoLandings
<1>9. Debts(y, g, x.label) # {}
  BY <1>4
<1>10. InRange(y)
  <2>1. \A l \in 1..(x.label - 1) : l \in 1..(y.label - 1)
    BY <1>1
  <2>2. \A l \in 0..(x.label - 1) : l \in 0..(y.label - 1)
    BY <1>1
  <2>3. \A i \in DOMAIN y.branches : /\ y.branches[i].end \in 1..(y.label - 1)
                                     /\ y.branches[i].els \in 0..(y.label - 1)
    BY <2>1, <2>2 DEF LabelsOwned
  <2>4. ASSUME NEW i \in DOMAIN y.circuits PROVE y.circuits[i].end \in 1..(y.label - 1)
    <3>1. CASE i \in 1..n
      BY <3>1, <1>1, <1>2, <2>1 DEF LabelsOwned
    <3>2. CASE i = n + 1
      <4>1. x.label \in 1..(y.label - 1)
        BY <1>1
      <4> QED BY <4>1, <3>2, <1>2
    <3> QED BY <3>1, <3>2, <1>2, <1>3
  <2> QED BY <2>3, <2>4 DEF InRange
<1>11. \A i \in Loops(y) : Landings(x.code, y.branches[i].loop) # {}
  BY DEF Loops, LabelsOwned
<1>12. y.label >= x.label
  BY <1>1
<1>13. Mints(x, y, g, g, s)
  BY <1>6, <1>7, <1>8, <1>9, <1>10, <1>11, <1>12 DEF Mints
<1> QED BY <1>13, OwnedStep

LEMMA OwnedSame ==
  ASSUME NEW x, NEW y, NEW g,
         y.code = x.code, y.branches = x.branches, y.circuits = x.circuits, y.label = x.label
  PROVE  LabelsOwned(y, g) <=> LabelsOwned(x, g)
<1>1. \A l : Debts(y, g, l) = Debts(x, g, l)
  BY DebtsSame DEF OwesElse
<1>2. \A l : Owners(y, g, l) = Owners(x, g, l)
  BY <1>1 DEF Owners
<1> QED BY <1>2 DEF LabelsOwned, Jumps, Loops

LEMMA PushScopeFacts ==
  ASSUME NEW x \in Executors, Len(x.locals) > 0
  PROVE  LET y == PushScope(x)
         IN  /\ y \in Executors /\ Len(y.scopes) = Len(x.scopes) + 1
             /\ Len(y.locals) = Len(x.locals) + 1
             /\ y.code = x.code /\ y.branches = x.branches /\ y.circuits = x.circuits
             /\ y.label = x.label
<1> DEFINE y == PushScope(x)
           s == Append(x.scopes, x.decl)
           t == Append(x.locals, Top(x.locals))
<1>1. s \in Seq({Nothing} \cup Names) /\ Len(s) = Len(x.scopes) + 1
  BY Fields, AppendProperties
<1>2. t \in Seq(SUBSET Names) /\ Len(t) = Len(x.locals) + 1
  <2>1. Top(x.locals) \in SUBSET Names
    BY Fields, ElementOfSeq DEF Top
  <2> QED BY <2>1, Fields, AppendProperties
<1>3. y = [x EXCEPT !.scopes = s, !.decl = Nothing, !.locals = t]
  BY DEF PushScope, Executors
<1> HIDE DEF s, t, y
<1>4. /\ y \in Executors /\ y.scopes = s /\ y.locals = t
      /\ y.code = x.code /\ y.branches = x.branches /\ y.circuits = x.circuits
      /\ y.label = x.label
  BY <1>1, <1>2, <1>3 DEF Executors
<1> QED BY <1>1, <1>2, <1>4 DEF y

LEMMA PopScopeFacts ==
  ASSUME NEW x \in Executors, Len(x.scopes) > 1, Len(x.locals) = Len(x.scopes)
  PROVE  LET y == PopScope(x)
         IN  /\ y \in Executors /\ Len(y.scopes) = Len(x.scopes) - 1
             /\ Len(y.locals) = Len(x.locals) - 1
             /\ y.code = x.code /\ y.branches = x.branches /\ y.circuits = x.circuits
             /\ y.label = x.label
<1> DEFINE y == PopScope(x)
           n == Len(x.scopes)
           s == SubSeq(x.scopes, 1, n - 1)
           t == SubSeq(x.locals, 1, n - 1)
           d == IF x.decl = Nothing THEN Top(x.scopes) ELSE x.decl
<1>1. n \in Nat /\ n > 1 /\ x.scopes \in Seq({Nothing} \cup Names) /\ x.locals \in Seq(SUBSET Names)
  BY Fields
<1>2. 1 <= n - 1 /\ n - 1 - 1 + 1 = n - 1 /\ n - 1 \in Int /\ \A i \in 1..(n - 1) : i \in 1..n
  BY <1>1
<1>3. s \in Seq({Nothing} \cup Names) /\ Len(s) = n - 1
  <2>1. \A i \in 1..(n - 1) : x.scopes[i] \in {Nothing} \cup Names
    BY <1>1, <1>2, ElementOfSeq
  <2> QED BY <1>2, <2>1, SubSeqProperties
<1>4. t \in Seq(SUBSET Names) /\ Len(t) = n - 1
  <2>1. \A i \in 1..(n - 1) : x.locals[i] \in SUBSET Names
    BY <1>1, <1>2, ElementOfSeq
  <2> QED BY <1>2, <2>1, SubSeqProperties
<1>5. d \in {Nothing} \cup Names
  <2>1. Top(x.scopes) \in {Nothing} \cup Names
    <3>1. n \in 1..n
      BY <1>1
    <3> QED BY <1>1, <3>1, ElementOfSeq DEF Top
  <2> QED BY <2>1, Fields
<1>6. y = [x EXCEPT !.decl = d, !.scopes = s, !.locals = t]
  BY DEF PopScope, Pop, Executors
<1> HIDE DEF s, t, y, d
<1>7. /\ y \in Executors /\ y.scopes = s /\ y.locals = t
      /\ y.code = x.code /\ y.branches = x.branches /\ y.circuits = x.circuits
      /\ y.label = x.label
  BY <1>3, <1>4, <1>5, <1>6 DEF Executors
<1> QED BY <1>3, <1>4, <1>7 DEF y

----------------------------------------------------------------------------
(* Nesting.                                                                *)

Calm == {"stmt", "tail", "full", "end", "close"}

\* Alike but for the code, the values and the labels.
Like(x, y) ==
  /\ x \in Executors /\ y \in Executors
  /\ Len(y.scopes) = Len(x.scopes)
  /\ Len(y.branches) = Len(x.branches)
  /\ \A i \in 1..Len(x.branches) : Branchy(y.branches[i]) = Branchy(x.branches[i])

LEMMA LikeFields ==
  ASSUME NEW x, NEW y, Like(x, y)
  PROVE  /\ DOMAIN y.branches = DOMAIN x.branches /\ DOMAIN x.branches = 1..Len(x.branches)
         /\ Len(x.branches) \in Nat /\ Len(x.scopes) \in Nat
         /\ Len(y.branches) = Len(x.branches) /\ Len(y.scopes) = Len(x.scopes)
         /\ \A i \in DOMAIN x.branches :
              /\ y.branches[i].kind = x.branches[i].kind
              /\ y.branches[i].els = x.branches[i].els
              /\ y.branches[i].depth = x.branches[i].depth
              /\ y.branches[i].use = x.branches[i].use
              /\ y.branches[i].depth \in Nat /\ y.branches[i].els \in Nat
<1>1. /\ DOMAIN y.branches = DOMAIN x.branches /\ DOMAIN x.branches = 1..Len(x.branches)
      /\ Len(x.branches) \in Nat /\ Len(x.scopes) \in Nat
      /\ y.branches \in Seq(Contexts)
  BY Fields DEF Like
<1>2. \A i \in DOMAIN x.branches : y.branches[i] \in Contexts
  BY <1>1, ElementOfSeq
<1>3. \A i \in DOMAIN x.branches : Branchy(y.branches[i]) = Branchy(x.branches[i])
  BY <1>1 DEF Like
<1>4. \A i \in DOMAIN x.branches : y.branches[i].depth \in Nat /\ y.branches[i].els \in Nat
  BY <1>2 DEF Contexts
<1> QED BY <1>1, <1>3, <1>4, BranchyFields DEF Like

LEMMA NestedStay ==
  ASSUME NEW x, NEW y, Like(x, y), NEW g, NEW h, Nested(x, g),
         \/ g \in Calm /\ h \in Calm
         \/ g \in TernaryGoals /\ h \in TernaryGoals
         \/ g = h,
         y.circuits # <<>> => h \in {"cond", "tail", "full"}
  PROVE  Nested(y, h)
<1>1. /\ DOMAIN y.branches = DOMAIN x.branches
      /\ Len(y.branches) = Len(x.branches) /\ Len(y.scopes) = Len(x.scopes)
      /\ \A i \in DOMAIN x.branches :
           /\ y.branches[i].kind = x.branches[i].kind
           /\ y.branches[i].els = x.branches[i].els
           /\ y.branches[i].depth = x.branches[i].depth
  BY LikeFields
<1>2. /\ g \in Facing <=> h \in Facing
      /\ g \in TernaryGoals <=> h \in TernaryGoals
      /\ g = "merge" <=> h = "merge"
      /\ g = "done" <=> h = "done"
      /\ h \in Facing => g = h
  BY DEF Calm, TernaryGoals, Facing
<1>3. Depths(y, h)
  BY <1>1, <1>2 DEF Depths, Nested
<1>4. Chains(y)
  BY <1>1 DEF Chains, Nested
<1>5. Ternaries(y, h) /\ Arms(y)
  BY <1>1, <1>2 DEF Ternaries, Arms, Nested
<1>6. ScopesOpened(y, h)
  <2> DEFINE m == Len(x.scopes) - IF g = "merge" THEN 2 ELSE 1
  <2>1. m = Len(y.scopes) - IF h = "merge" THEN 2 ELSE 1
    BY <1>1, <1>2
  <2>2. \A d \in 1..m : \E i \in DOMAIN x.branches :
          x.branches[i].depth = d /\ x.branches[i].kind # "ternary"
    BY DEF ScopesOpened, Nested
  <2> HIDE DEF m
  <2>3. \A d \in 1..m : \E i \in DOMAIN y.branches :
          y.branches[i].depth = d /\ y.branches[i].kind # "ternary"
    BY <2>2, <1>1
  <2> QED BY <2>1, <2>3 DEF ScopesOpened
<1>7. Faces(y, h)
  <2>1. CASE h \in Facing
    <3>1. Len(x.branches) > 0 /\ Len(x.branches) \in DOMAIN x.branches
      BY <2>1, <1>2, LikeFields DEF Faces, Nested
    <3> QED BY <2>1, <3>1, <1>1, <1>2 DEF Faces, Nested
  <2>2. CASE h \notin Facing
    BY <2>2 DEF Faces
  <2> QED BY <2>1, <2>2
<1>8. Merges(y, h)
  BY <1>1, <1>2 DEF Merges, Nested
<1>9. h = "done" => y.branches = <<>>
  <2>1. h = "done" => Len(y.branches) = 0
    BY <1>1, <1>2, LikeFields DEF Nested
  <2> QED BY <2>1, EmptySeq, Fields DEF Like
<1> QED BY <1>3, <1>4, <1>5, <1>6, <1>7, <1>8, <1>9 DEF Nested

\* A branch is met by a statement or an expression, or in an `else`.
LEMMA NestedOpen ==
  ASSUME NEW x \in Executors, NEW y, NEW g, NEW h, NEW kind, NEW end, NEW els, NEW loop,
         NEW use, NEW s, Nested(x, g), Opened(x, y, kind, end, els, loop, use, s),
         Len(x.scopes) > 0, y.circuits = <<>>,
         \/ kind = "if" /\ h = "cond" /\ g \in Calm \cup {"else"} /\ els # 0
         \/ kind = "ternary" /\ h = "tcond" /\ g \in Calm /\ els # 0
         \/ kind \in {"while", "for"} /\ h \in {"cond", "open"} /\ g \in Calm /\ els = 0
  PROVE  Nested(y, h)
<1> DEFINE n == Len(x.branches)
           m == Len(x.scopes)
<1>1. /\ n \in Nat /\ DOMAIN x.branches = 1..n /\ m \in Nat /\ m > 0
      /\ x.branches \in Seq(Contexts) /\ y \in Executors
  BY Fields DEF Opened
<1>2. Len(y.branches) = n + 1 /\ DOMAIN y.branches = 1..(n + 1) /\ Len(y.scopes) = m
  BY <1>1, Fields DEF Opened
<1>3. \A i \in 1..n : /\ y.branches[i].kind = x.branches[i].kind
                      /\ y.branches[i].els = x.branches[i].els
                      /\ y.branches[i].depth = x.branches[i].depth
                      /\ x.branches[i].depth \in Nat
  <2>1. \A i \in 1..n : Branchy(y.branches[i]) = Branchy(x.branches[i])
    BY DEF Opened
  <2>2. \A i \in 1..n : x.branches[i] \in Contexts
    BY <1>1, ElementOfSeq
  <2> QED BY <2>1, <2>2, BranchyFields DEF Contexts
<1>4. /\ y.branches[n + 1].kind = kind /\ y.branches[n + 1].els = els
      /\ y.branches[n + 1].depth = m
  BY DEF Opened, Branchy
<1>5. \A i : i \in 1..(n + 1) <=> i \in 1..n \/ i = n + 1
  BY <1>1
<1>6. g # "merge" /\ g \notin TernaryGoals /\ h # "merge" /\ h # "done"
  BY DEF Calm, TernaryGoals
<1>7. \A i \in 1..n : /\ x.branches[i].kind # "ternary"
                      /\ x.branches[i].depth \in 1..m
                      /\ g \in Calm => x.branches[i].depth < m
  <2>1. g \in Calm => g \notin Facing
    BY DEF Calm, Facing
  <2>2. \A i \in 1..n : x.branches[i].kind # "ternary"
    BY <1>1, <1>6 DEF Nested, Ternaries
  <2> QED BY <1>1, <2>1, <2>2 DEF Nested, Depths
<1>8. g = "else" => /\ n \in 1..n /\ x.branches[n].depth = m /\ x.branches[n].kind = "if"
                    /\ x.branches[n].els = 0
  BY <1>1 DEF Nested, Faces, Facing
<1>9. \A i \in 1..n : x.branches[i].depth = m =>
        kind = "if" /\ x.branches[i].kind = "if" /\ x.branches[i].els = 0
  <2>1. TAKE i \in 1..n
  <2>2. HAVE x.branches[i].depth = m
  <2>3. g = "else" /\ kind = "if"
    BY <2>2, <1>1, <1>7
  <2>4. CASE i = n
    BY <2>3, <2>4, <1>8
  <2>5. CASE i < n
    BY <2>2, <2>3, <2>5, <1>1, <1>8 DEF Nested, Chains
  <2> QED BY <2>1, <2>4, <2>5, <1>1
<1>10. /\ \A i, j \in 1..n : i < j =>
           /\ x.branches[i].depth <= x.branches[j].depth
           /\ x.branches[i].depth = x.branches[j].depth =>
                x.branches[i].kind = "if" /\ x.branches[i].els = 0 /\ x.branches[j].kind = "if"
       /\ \A i \in 1..n : x.branches[i].kind \in {"while", "for"} => x.branches[i].els = 0
       /\ \A d \in 1..(m - 1) : \E i \in 1..n : x.branches[i].depth = d
  <2>1. m - 1 = m - IF g = "merge" THEN 2 ELSE 1
    BY <1>6
  <2>2. \A d \in 1..(m - 1) : \E i \in 1..n : x.branches[i].depth = d
    BY <2>1, <1>1 DEF Nested, ScopesOpened
  <2>3. \A i, j \in 1..n : i < j =>
          /\ x.branches[i].depth <= x.branches[j].depth
          /\ x.branches[i].depth = x.branches[j].depth =>
               x.branches[i].kind = "if" /\ x.branches[i].els = 0 /\ x.branches[j].kind = "if"
    BY <1>1 DEF Nested, Chains
  <2>4. \A i \in 1..n : x.branches[i].kind \in {"while", "for"} => x.branches[i].els = 0
    BY <1>1 DEF Nested, Arms
  <2> QED BY <2>2, <2>3, <2>4
<1> HIDE DEF n, m
<1>11. Depths(y, h)
  <2>1. h \in Facing \/ h = "tcond"
    BY DEF Facing
  <2>2. ASSUME NEW i \in 1..(n + 1)
        PROVE  /\ y.branches[i].depth \in 1..m
               /\ y.branches[i].kind # "ternary" /\ h \notin Facing => y.branches[i].depth < m
    <3>1. CASE i \in 1..n
      <4>1. h \notin Facing => g \in Calm
        BY DEF Facing
      <4> QED BY <3>1, <4>1, <1>3, <1>7
    <3>2. CASE i = n + 1
      <4>1. h \notin Facing => kind = "ternary"
        BY DEF Facing
      <4>2. m \in 1..m
        BY <1>1
      <4> QED BY <3>2, <4>1, <4>2, <1>4
    <3> QED BY <3>1, <3>2, <1>5
  <2> QED BY <2>2, <1>2 DEF Depths
<1>12. Chains(y)
  <2>1. ASSUME NEW i \in 1..(n + 1), NEW j \in 1..(n + 1), i < j
        PROVE  /\ y.branches[i].depth <= y.branches[j].depth
               /\ y.branches[i].depth = y.branches[j].depth =>
                    y.branches[i].kind = "if" /\ y.branches[i].els = 0 /\ y.branches[j].kind = "if"
    <3>1. i \in 1..n
      BY <2>1, <1>1
    <3>2. CASE j \in 1..n
      BY <2>1, <3>1, <3>2, <1>3, <1>10
    <3>3. CASE j = n + 1
      <4>1. y.branches[j].depth = m /\ y.branches[j].kind = kind
        BY <3>3, <1>4
      <4>2. y.branches[i].depth = x.branches[i].depth /\ x.branches[i].depth <= m
        BY <3>1, <1>1, <1>3, <1>7
      <4> QED BY <3>1, <4>1, <4>2, <1>3, <1>9
    <3> QED BY <3>2, <3>3, <1>5
  <2> QED BY <2>1, <1>2 DEF Chains
<1>13. Ternaries(y, h)
  <2>1. n + 1 > 0 /\ \A i \in 1..n : i # n + 1
    BY <1>1
  <2>2. kind = "ternary" <=> h \in TernaryGoals
    BY DEF TernaryGoals
  <2> QED BY <2>1, <2>2, <1>2, <1>3, <1>4, <1>5, <1>7 DEF Ternaries
<1>14. Arms(y)
  <2>1. ASSUME NEW i \in 1..(n + 1)
        PROVE  /\ y.branches[i].kind \in {"while", "for"} => y.branches[i].els = 0
               /\ y.branches[i].kind = "ternary" => y.branches[i].els # 0
    <3>1. CASE i \in 1..n
      BY <3>1, <1>3, <1>7, <1>10
    <3>2. CASE i = n + 1
      BY <3>2, <1>4
    <3> QED BY <3>1, <3>2, <1>5
  <2> QED BY <2>1, <1>2 DEF Arms
<1>15. ScopesOpened(y, h)
  <2>1. ASSUME NEW d \in 1..(m - 1)
        PROVE  \E i \in 1..(n + 1) : y.branches[i].depth = d /\ y.branches[i].kind # "ternary"
    <3>1. PICK i \in 1..n : x.branches[i].depth = d
      BY <1>10
    <3> QED BY <3>1, <1>3, <1>5, <1>7
  <2> QED BY <2>1, <1>2, <1>6 DEF ScopesOpened
<1>16. Faces(y, h)
  <2>1. h \notin {"else", "elsetok"} /\ n + 1 > 0
    BY <1>1
  <2> QED BY <2>1, <1>2, <1>4 DEF Faces
<1> QED BY <1>6, <1>11, <1>12, <1>13, <1>14, <1>15, <1>16 DEF Nested, Merges

\* What a popped branch leaves.
LEMMA PopLeaves ==
  ASSUME NEW x \in Executors, NEW y, NEW g, Nested(x, g), PopsTo(x, y), Len(x.branches) > 0
  PROVE  /\ DOMAIN y.branches = 1..(Len(x.branches) - 1)
         /\ Len(x.branches) \in DOMAIN x.branches
         /\ \A i \in DOMAIN y.branches :
              /\ i \in DOMAIN x.branches /\ i < Len(x.branches)
              /\ y.branches[i].kind = x.branches[i].kind
              /\ y.branches[i].els = x.branches[i].els
              /\ y.branches[i].depth = x.branches[i].depth
              /\ y.branches[i].kind # "ternary"
              /\ y.branches[i].depth \in Nat
         /\ Chains(y) /\ Arms(y)
<1> DEFINE n == Len(x.branches)
<1>1. n \in Nat /\ n > 0 /\ DOMAIN x.branches = 1..n /\ x.branches \in Seq(Contexts)
      /\ y \in Executors
  BY Fields DEF PopsTo
<1>2. DOMAIN y.branches = 1..(n - 1) /\ n \in 1..n /\ \A i \in 1..(n - 1) : i \in 1..n /\ i < n
  BY <1>1, Fields DEF PopsTo
<1>3. \A i \in 1..(n - 1) : /\ y.branches[i].kind = x.branches[i].kind
                            /\ y.branches[i].els = x.branches[i].els
                            /\ y.branches[i].depth = x.branches[i].depth
                            /\ x.branches[i].depth \in Nat
  <2>1. \A i \in 1..(n - 1) : Branchy(y.branches[i]) = Branchy(x.branches[i])
    BY DEF PopsTo
  <2>2. \A i \in 1..(n - 1) : x.branches[i] \in Contexts
    BY <1>1, <1>2, ElementOfSeq
  <2> QED BY <2>1, <2>2, BranchyFields DEF Contexts
<1>4. \A i \in 1..(n - 1) : y.branches[i].kind # "ternary"
  <2>1. TAKE i \in 1..(n - 1)
  <2>2. i \in DOMAIN x.branches /\ i # n
    BY <1>1, <1>2
  <2>3. Ternaries(x, g)
    BY DEF Nested
  <2>4. x.branches[i].kind # "ternary"
    BY <2>2, <2>3 DEF Ternaries
  <2> QED BY <2>4, <1>3
<1>5. Chains(y)
  <2>1. ASSUME NEW i \in 1..(n - 1), NEW j \in 1..(n - 1), i < j
        PROVE  /\ y.branches[i].depth <= y.branches[j].depth
               /\ y.branches[i].depth = y.branches[j].depth =>
                    y.branches[i].kind = "if" /\ y.branches[i].els = 0 /\ y.branches[j].kind = "if"
    <3>1. i \in DOMAIN x.branches /\ j \in DOMAIN x.branches
      BY <1>1, <1>2
    <3>2. Chains(x)
      BY DEF Nested
    <3>3. /\ x.branches[i].depth <= x.branches[j].depth
          /\ x.branches[i].depth = x.branches[j].depth =>
               x.branches[i].kind = "if" /\ x.branches[i].els = 0 /\ x.branches[j].kind = "if"
      BY <2>1, <3>1, <3>2 DEF Chains
    <3> QED BY <3>3, <1>3
  <2> QED BY <2>1, <1>2 DEF Chains
<1>6. Arms(y)
  BY <1>1, <1>2, <1>3 DEF Nested, Arms
<1> QED BY <1>1, <1>2, <1>3, <1>4, <1>5, <1>6

LEMMA NestedCalm ==
  ASSUME NEW y \in Executors, NEW h \in Calm, y.circuits = <<>>, Chains(y), Arms(y),
         \A i \in DOMAIN y.branches : /\ y.branches[i].kind # "ternary"
                                      /\ y.branches[i].depth \in Nat
                                      /\ y.branches[i].depth > 0
                                      /\ y.branches[i].depth < Len(y.scopes),
         \A d \in 1..(Len(y.scopes) - 1) : \E i \in DOMAIN y.branches : y.branches[i].depth = d
  PROVE  Nested(y, h)
<1>1. h \notin Facing /\ h \notin TernaryGoals /\ h # "merge" /\ h # "done" /\ Len(y.scopes) \in Nat
  BY Fields DEF Calm, Facing, TernaryGoals
<1>2. Depths(y, h)
  <2>1. \A i \in DOMAIN y.branches : y.branches[i].depth \in 1..Len(y.scopes)
    BY <1>1
  <2> QED BY <2>1 DEF Depths
<1>3. Ternaries(y, h)
  BY <1>1 DEF Ternaries
<1>4. ScopesOpened(y, h)
  <2>1. Len(y.scopes) - (IF h = "merge" THEN 2 ELSE 1) = Len(y.scopes) - 1
    BY <1>1
  <2>2. \A d \in 1..(Len(y.scopes) - 1) : \E i \in DOMAIN y.branches :
          y.branches[i].depth = d /\ y.branches[i].kind # "ternary"
    OBVIOUS
  <2> QED BY <2>1, <2>2 DEF ScopesOpened
<1>5. Faces(y, h) /\ Merges(y, h)
  BY <1>1 DEF Faces, Merges
<1> QED BY <1>1, <1>2, <1>3, <1>4, <1>5 DEF Nested

\* The parts of Nested, without their exceptions.
LEMMA NestedParts ==
  ASSUME NEW x \in Executors, NEW g, Nested(x, g)
  PROVE  /\ \A i \in DOMAIN x.branches :
              /\ x.branches[i].depth \in Nat /\ x.branches[i].depth > 0
              /\ x.branches[i].depth <= Len(x.scopes)
              /\ g \in Calm => x.branches[i].depth < Len(x.scopes)
              /\ g = "merge" => x.branches[i].depth < Len(x.scopes)
              /\ g \in TernaryGoals /\ i < Len(x.branches) => x.branches[i].depth < Len(x.scopes)
              /\ g \notin TernaryGoals => x.branches[i].kind # "ternary"
              /\ i < Len(x.branches) => x.branches[i].kind # "ternary"
         /\ g # "merge" => \A d \in 1..(Len(x.scopes) - 1) :
              \E i \in DOMAIN x.branches : x.branches[i].depth = d /\ x.branches[i].kind # "ternary"
         /\ g = "merge" => \A d \in 1..(Len(x.scopes) - 2) :
              \E i \in DOMAIN x.branches : x.branches[i].depth = d
<1>1. Len(x.scopes) \in Nat /\ Len(x.branches) \in Nat /\ DOMAIN x.branches = 1..Len(x.branches)
  BY Fields
<1>2. \A i \in DOMAIN x.branches :
        /\ g \notin TernaryGoals => x.branches[i].kind # "ternary"
        /\ i < Len(x.branches) => x.branches[i].kind # "ternary"
  BY <1>1 DEF Nested, Ternaries
<1>3. \A i \in DOMAIN x.branches : x.branches[i].depth \in 1..Len(x.scopes)
  BY DEF Nested, Depths
<1>4. \A i \in DOMAIN x.branches :
        x.branches[i].kind # "ternary" /\ g \notin Facing => x.branches[i].depth < Len(x.scopes)
  BY DEF Nested, Depths
<1>5. (g \in Calm \/ g = "merge" => g \notin Facing /\ g \notin TernaryGoals)
      /\ (g \in TernaryGoals => g \notin Facing)
  BY DEF Calm, Facing, TernaryGoals
<1>6. ASSUME g # "merge"
      PROVE  \A d \in 1..(Len(x.scopes) - 1) :
               \E i \in DOMAIN x.branches : x.branches[i].depth = d /\ x.branches[i].kind # "ternary"
  <2>1. Len(x.scopes) - 1 = Len(x.scopes) - IF g = "merge" THEN 2 ELSE 1
    BY <1>6
  <2> QED BY <2>1 DEF Nested, ScopesOpened
<1>7. ASSUME g = "merge"
      PROVE  \A d \in 1..(Len(x.scopes) - 2) : \E i \in DOMAIN x.branches : x.branches[i].depth = d
  <2>1. Len(x.scopes) - 2 = Len(x.scopes) - IF g = "merge" THEN 2 ELSE 1
    BY <1>7
  <2> QED BY <2>1 DEF Nested, ScopesOpened
<1> QED BY <1>1, <1>2, <1>3, <1>4, <1>5, <1>6, <1>7

LEMMA ScopesHaveBranches ==
  ASSUME NEW x \in Executors, NEW g, Nested(x, g), g # "merge"
  PROVE  \A d \in 1..(Len(x.scopes) - 1) :
           \E i \in DOMAIN x.branches : x.branches[i].depth = d /\ x.branches[i].kind # "ternary"
<1> QED BY NestedParts, Zenon

LEMMA NestedTernary ==
  ASSUME NEW x \in Executors, NEW y, NEW g \in TernaryGoals, NEW h \in Calm,
         Nested(x, g), PopsTo(x, y)
  PROVE  Nested(y, h)
<1>1. y \in Executors /\ y.scopes = x.scopes /\ Len(x.scopes) \in Nat /\ y.circuits = <<>>
  BY Fields DEF PopsTo, Nested, TernaryGoals
<1>2. Len(x.branches) > 0 /\ g # "merge"
  BY DEF Nested, Ternaries, TernaryGoals
<1>3. Chains(y) /\ Arms(y) /\ DOMAIN y.branches = 1..(Len(x.branches) - 1)
      /\ \A i \in DOMAIN y.branches :
           /\ i \in DOMAIN x.branches /\ i < Len(x.branches)
           /\ y.branches[i].depth = x.branches[i].depth
           /\ y.branches[i].kind # "ternary"
  BY <1>2, PopLeaves, ZenonT(60)
<1>4. \A i \in DOMAIN y.branches : /\ y.branches[i].kind # "ternary"
                                   /\ y.branches[i].depth \in Nat
                                   /\ y.branches[i].depth > 0
                                   /\ y.branches[i].depth < Len(y.scopes)
  BY <1>1, <1>3, NestedParts
<1>5. \A d \in 1..(Len(y.scopes) - 1) : \E i \in DOMAIN y.branches : y.branches[i].depth = d
  <2>1. TAKE d \in 1..(Len(y.scopes) - 1)
  <2>2. PICK i \in DOMAIN x.branches : x.branches[i].depth = d /\ x.branches[i].kind # "ternary"
    BY <1>1, <1>2, ScopesHaveBranches
  <2>3. i # Len(x.branches)
    BY <2>2 DEF Nested, Ternaries
  <2>4. i \in DOMAIN y.branches
    BY <2>3, <1>3, Fields
  <2> QED BY <2>2, <2>4, <1>3
<1> QED BY <1>1, <1>3, <1>4, <1>5, NestedCalm

\* A block has its branch.
LEMMA Innermost ==
  ASSUME NEW x \in Executors, NEW g \in Calm, Nested(x, g), Len(x.scopes) > 1
  PROVE  /\ Len(x.branches) > 0 /\ Len(x.branches) \in DOMAIN x.branches
         /\ x.branches[Len(x.branches)].depth = Len(x.scopes) - 1
         /\ x.branches[Len(x.branches)].kind # "ternary"
<1> DEFINE n == Len(x.branches)
           m == Len(x.scopes)
<1>1. n \in Nat /\ m \in Nat /\ DOMAIN x.branches = 1..n /\ m - 1 \in 1..(m - 1)
  BY Fields
<1>2. g # "merge" /\ g \notin TernaryGoals
  BY DEF Calm, TernaryGoals
<1>3. PICK i \in 1..n : x.branches[i].depth = m - 1
  <2>1. \A d \in 1..(m - 1) : \E i \in DOMAIN x.branches : x.branches[i].depth = d
    BY <1>2, NestedParts
  <2> QED BY <2>1, <1>1
<1>4. n > 0 /\ n \in 1..n
  BY <1>1, <1>3
<1>5. i = n \/ i < n
  BY <1>1, <1>3
<1>6. x.branches[i].depth <= x.branches[n].depth
  BY <1>1, <1>3, <1>4, <1>5 DEF Nested, Chains
<1>7. x.branches[n].depth \in Nat /\ x.branches[n].depth < m /\ x.branches[n].kind # "ternary"
  BY <1>1, <1>2, <1>4, NestedParts
<1> QED BY <1>1, <1>3, <1>4, <1>6, <1>7

LEMMA NestedMerge ==
  ASSUME NEW x \in Executors, NEW y, NEW g \in Calm \cup {"merge"},
         Nested(x, g), PopsTo(x, y), y.circuits = <<>>, Len(x.branches) > 0, Len(x.scopes) > 1,
         x.branches[Len(x.branches)].depth = Len(x.scopes) - 1,
         x.branches[Len(x.branches)].kind = "if"
  PROVE  Nested(y, "merge")
<1> DEFINE n == Len(x.branches)
           m == Len(x.scopes)
<1>1. /\ y \in Executors /\ Len(y.scopes) = m /\ m \in Nat /\ n \in Nat
      /\ DOMAIN x.branches = 1..n
  BY Fields DEF PopsTo
<1>2. Chains(y) /\ Arms(y) /\ DOMAIN y.branches = 1..(n - 1) /\ n \in DOMAIN x.branches
      /\ \A i \in DOMAIN y.branches :
           /\ i \in DOMAIN x.branches /\ i < n
           /\ y.branches[i].kind = x.branches[i].kind
           /\ y.branches[i].els = x.branches[i].els
           /\ y.branches[i].depth = x.branches[i].depth
           /\ y.branches[i].kind # "ternary"
  BY PopLeaves
<1>3. \A i \in DOMAIN x.branches : x.branches[i].depth \in Nat /\ x.branches[i].depth > 0
                                   /\ x.branches[i].depth < m
  BY NestedParts
<1>4. Depths(y, "merge")
  BY <1>1, <1>2, <1>3 DEF Depths
<1>5. Ternaries(y, "merge")
  BY <1>2 DEF Ternaries, TernaryGoals
<1>6. \A d \in 1..(m - 2) : \E i \in DOMAIN y.branches : y.branches[i].depth = d
  <2>1. TAKE d \in 1..(m - 2)
  <2>2. PICK i \in DOMAIN x.branches : x.branches[i].depth = d
    <3>1. d \in 1..(m - 1)
      BY <1>1
    <3> QED BY <3>1, NestedParts
  <2>3. i # n
    BY <2>2, <1>1
  <2>4. i \in DOMAIN y.branches
    BY <2>2, <2>3, <1>1, <1>2
  <2> QED BY <2>2, <2>4, <1>2
<1>7. ScopesOpened(y, "merge")
  <2>1. Len(y.scopes) - (IF "merge" = "merge" THEN 2 ELSE 1) = m - 2
    BY <1>1
  <2>2. \A d \in 1..(m - 2) : \E i \in DOMAIN y.branches :
          y.branches[i].depth = d /\ y.branches[i].kind # "ternary"
    BY <1>2, <1>6
  <2> QED BY <2>1, <2>2 DEF ScopesOpened
<1>8. Faces(y, "merge")
  BY DEF Faces, Facing
<1>9. Merges(y, "merge")
  <2>1. ASSUME NEW i \in DOMAIN y.branches, y.branches[i].depth = m - 1
        PROVE  y.branches[i].kind = "if" /\ y.branches[i].els = 0
    <3>1. i \in DOMAIN x.branches /\ i < n /\ x.branches[i].depth = m - 1
      BY <2>1, <1>2
    <3>2. x.branches[i].kind = "if" /\ x.branches[i].els = 0
      BY <3>1, <1>2 DEF Nested, Chains
    <3> QED BY <3>2, <1>2
  <2> QED BY <2>1, <1>1 DEF Merges
<1> QED BY <1>2, <1>4, <1>5, <1>7, <1>8, <1>9 DEF Nested

\* A block ends, and none of its branches is left.
LEMMA NestedBlockEnd ==
  ASSUME NEW x \in Executors, NEW z \in Executors, NEW h \in Calm, z.circuits = <<>>,
         Len(x.scopes) > 1, Len(z.scopes) = Len(x.scopes) - 1, z.branches = x.branches,
         Chains(x), Arms(x),
         \A i \in DOMAIN x.branches : /\ x.branches[i].kind # "ternary"
                                      /\ x.branches[i].depth \in Nat
                                      /\ x.branches[i].depth > 0
                                      /\ x.branches[i].depth < Len(x.scopes)
                                      /\ x.branches[i].depth # Len(x.scopes) - 1,
         \A d \in 1..(Len(x.scopes) - 2) : \E i \in DOMAIN x.branches : x.branches[i].depth = d
  PROVE  Nested(z, h)
<1>1. Len(x.scopes) \in Nat
  BY Fields
<1>2. Chains(z) /\ Arms(z)
  BY DEF Chains, Arms
<1>3. \A i \in DOMAIN z.branches : /\ z.branches[i].kind # "ternary"
                                   /\ z.branches[i].depth \in Nat
                                   /\ z.branches[i].depth > 0
                                   /\ z.branches[i].depth < Len(z.scopes)
  BY <1>1
<1>4. Len(z.scopes) - 1 = Len(x.scopes) - 2
  BY <1>1
<1>5. \A d \in 1..(Len(z.scopes) - 1) : \E i \in DOMAIN z.branches : z.branches[i].depth = d
  BY <1>4
<1> QED BY <1>2, <1>3, <1>5, NestedCalm

LEMMA NestedLoopEnd ==
  ASSUME NEW x \in Executors, NEW y, NEW z \in Executors, NEW g \in Calm, NEW h \in Calm,
         Nested(x, g), PopsTo(x, y), y.circuits = <<>>, Len(x.branches) > 0, Len(x.scopes) > 1,
         x.branches[Len(x.branches)].depth = Len(x.scopes) - 1,
         x.branches[Len(x.branches)].kind # "if",
         z.circuits = y.circuits, Len(z.scopes) = Len(y.scopes) - 1, z.branches = y.branches
  PROVE  Nested(z, h)
<1> DEFINE n == Len(x.branches)
           m == Len(x.scopes)
<1>1. /\ y \in Executors /\ Len(y.scopes) = m /\ m \in Nat /\ n \in Nat
      /\ DOMAIN x.branches = 1..n /\ g # "merge"
  BY Fields DEF PopsTo, Calm
<1>2. Chains(y) /\ Arms(y) /\ DOMAIN y.branches = 1..(n - 1) /\ n \in DOMAIN x.branches
      /\ \A i \in DOMAIN y.branches :
           /\ i \in DOMAIN x.branches /\ i < n
           /\ y.branches[i].kind = x.branches[i].kind
           /\ y.branches[i].depth = x.branches[i].depth
           /\ y.branches[i].kind # "ternary"
  <2>1. /\ DOMAIN y.branches = 1..(Len(x.branches) - 1)
        /\ Len(x.branches) \in DOMAIN x.branches
        /\ \A i \in DOMAIN y.branches :
             /\ i \in DOMAIN x.branches /\ i < Len(x.branches)
             /\ y.branches[i].kind = x.branches[i].kind
             /\ y.branches[i].els = x.branches[i].els
             /\ y.branches[i].depth = x.branches[i].depth
             /\ y.branches[i].kind # "ternary"
             /\ y.branches[i].depth \in Nat
        /\ Chains(y) /\ Arms(y)
    BY PopLeaves, Zenon
  <2> QED BY <2>1
<1>3. \A i \in DOMAIN x.branches : x.branches[i].depth \in Nat /\ x.branches[i].depth > 0
                                   /\ x.branches[i].depth < m
  BY NestedParts
<1>4. \A i \in DOMAIN y.branches : y.branches[i].depth # m - 1
  BY <1>2 DEF Nested, Chains
<1>5. \A d \in 1..(m - 2) : \E i \in DOMAIN y.branches : y.branches[i].depth = d
  <2>1. TAKE d \in 1..(m - 2)
  <2>2. PICK i \in DOMAIN x.branches : x.branches[i].depth = d
    <3>1. d \in 1..(m - 1)
      BY <1>1
    <3> QED BY <3>1, <1>1, ScopesHaveBranches, ZenonT(60)
  <2>3. i # n
    BY <2>2, <1>1
  <2>4. i \in DOMAIN y.branches
    BY <2>2, <2>3, <1>1, <1>2
  <2> QED BY <2>2, <2>4, <1>2
<1>6. \A i \in DOMAIN y.branches : /\ y.branches[i].kind # "ternary"
                                   /\ y.branches[i].depth \in Nat
                                   /\ y.branches[i].depth > 0
                                   /\ y.branches[i].depth < Len(y.scopes)
                                   /\ y.branches[i].depth # Len(y.scopes) - 1
  BY <1>1, <1>2, <1>3, <1>4
<1> QED BY <1>1, <1>2, <1>5, <1>6, NestedBlockEnd

LEMMA NestedMergeEnd ==
  ASSUME NEW x \in Executors, NEW z \in Executors, NEW h \in Calm,
         Nested(x, "merge"), ~Cascades(x), z.circuits = x.circuits,
         Len(z.scopes) = Len(x.scopes) - 1, z.branches = x.branches
  PROVE  Nested(z, h)
<1> DEFINE n == Len(x.branches)
           m == Len(x.scopes)
<1>1. /\ m \in Nat /\ n \in Nat /\ m > 1 /\ DOMAIN x.branches = 1..n /\ x.circuits = <<>>
  BY Fields DEF Nested, Merges
<1>2. \A i \in 1..n : /\ x.branches[i].depth \in Nat /\ x.branches[i].depth > 0
                      /\ x.branches[i].depth < m /\ x.branches[i].kind # "ternary"
  BY <1>1, NestedParts DEF TernaryGoals
<1>3. ASSUME NEW i \in 1..n, x.branches[i].depth = m - 1
      PROVE  FALSE
  <2>1. n \in 1..n /\ (i = n \/ i < n)
    BY <1>1
  <2>2. x.branches[i].depth <= x.branches[n].depth
    BY <2>1, <1>1, <1>2, SMTT(30) DEF Nested, Chains
  <2>3. x.branches[n].depth = m - 1
    BY <2>1, <2>2, <1>1, <1>2, <1>3
  <2>4. x.branches[n].kind = "if" /\ x.branches[n].els = 0
    BY <2>1, <2>3, <1>1 DEF Nested, Merges
  <2>5. x.branches # <<>> /\ Top(x.branches) = x.branches[n]
    BY <2>1, <1>1, EmptySeq, Fields DEF Top
  <2>6. m = m - 1 + 1
    BY <1>1
  <2> QED BY <2>3, <2>4, <2>5, <2>6 DEF Cascades, IsLast
<1>4. \A d \in 1..(m - 2) : \E i \in 1..n : x.branches[i].depth = d
  BY <1>1, NestedParts
<1>5. Chains(x) /\ Arms(x)
  BY DEF Nested
<1> QED BY <1>1, <1>2, <1>3, <1>4, <1>5, NestedBlockEnd

\* A brace opens.
LEMMA NestedEnter ==
  ASSUME NEW x \in Executors, NEW y \in Executors, NEW g \in {"cond", "open", "else"},
         Nested(x, g), y.circuits = <<>>, Len(y.scopes) = Len(x.scopes) + 1,
         Len(y.branches) = Len(x.branches),
         \A i \in 1..Len(x.branches) : Branchy(y.branches[i]) = Branchy(x.branches[i])
  PROVE  Nested(y, "stmt")
<1> DEFINE n == Len(x.branches)
           m == Len(x.scopes)
<1>1. /\ n \in Nat /\ m \in Nat /\ DOMAIN x.branches = 1..n /\ DOMAIN y.branches = 1..n
      /\ g \in Facing /\ g \notin TernaryGoals /\ g # "merge"
  BY Fields DEF Facing, TernaryGoals
<1>2. \A i \in 1..n : /\ y.branches[i].kind = x.branches[i].kind
                      /\ y.branches[i].els = x.branches[i].els
                      /\ y.branches[i].depth = x.branches[i].depth
  BY BranchyFields
<1>3. \A i \in 1..n : /\ x.branches[i].depth \in Nat /\ x.branches[i].depth > 0
                      /\ x.branches[i].depth <= m /\ x.branches[i].kind # "ternary"
  BY <1>1, NestedParts
<1>4. Chains(y)
  BY <1>1, <1>2 DEF Nested, Chains
<1>5. Arms(y)
  BY <1>1, <1>2 DEF Nested, Arms
<1>6. \A i \in DOMAIN y.branches : /\ y.branches[i].kind # "ternary"
                                   /\ y.branches[i].depth \in Nat
                                   /\ y.branches[i].depth > 0
                                   /\ y.branches[i].depth < Len(y.scopes)
  BY <1>1, <1>2, <1>3
<1>7. \A d \in 1..(Len(y.scopes) - 1) : \E i \in DOMAIN y.branches : y.branches[i].depth = d
  <2>1. TAKE d \in 1..(Len(y.scopes) - 1)
  <2>2. CASE d = m
    <3>1. n \in 1..n /\ x.branches[n].depth = m
      BY <1>1 DEF Nested, Faces
    <3> QED BY <2>2, <3>1, <1>1, <1>2
  <2>3. CASE d # m
    <3>1. d \in 1..(m - 1)
      BY <2>3, <1>1
    <3>2. PICK i \in 1..n : x.branches[i].depth = d
      BY <3>1, <1>1, ScopesHaveBranches, SMTT(30)
    <3> QED BY <3>2, <1>1, <1>2
  <2> QED BY <2>2, <2>3
<1> QED BY <1>4, <1>5, <1>6, <1>7, NestedCalm DEF Calm

\* The first arm of an if ends.
LEMMA NestedLeave ==
  ASSUME NEW x \in Executors, NEW y \in Executors, NEW g \in Calm, Nested(x, g),
         Len(x.scopes) > 1, Len(y.scopes) = Len(x.scopes) - 1, y.branches = x.branches,
         y.circuits = <<>>,
         x.branches[Len(x.branches)].kind = "if", x.branches[Len(x.branches)].els # 0
  PROVE  Nested(y, "elsetok")
<1> DEFINE n == Len(x.branches)
           m == Len(x.scopes)
<1>1. /\ n \in Nat /\ m \in Nat /\ m > 1 /\ DOMAIN x.branches = 1..n
      /\ g \notin TernaryGoals /\ g # "merge"
  BY Fields DEF Calm, TernaryGoals
<1>2. n > 0 /\ n \in 1..n /\ x.branches[n].depth = m - 1
  BY Innermost
<1>3. \A i \in 1..n : /\ x.branches[i].depth \in Nat /\ x.branches[i].depth > 0
                      /\ x.branches[i].depth < m /\ x.branches[i].kind # "ternary"
  BY <1>1, NestedParts
<1>4. Chains(y) /\ Arms(y)
  BY DEF Nested, Chains, Arms
<1>5. Depths(y, "elsetok")
  BY <1>1, <1>3 DEF Depths, Facing
<1>6. Ternaries(y, "elsetok")
  BY <1>1, <1>3 DEF Ternaries, TernaryGoals
<1>7. ScopesOpened(y, "elsetok")
  <2>1. Len(y.scopes) - (IF "elsetok" = "merge" THEN 2 ELSE 1) = m - 2
    BY <1>1
  <2>2. \A d \in 1..(m - 2) : d \in 1..(m - 1)
    BY <1>1
  <2>3. \A d \in 1..(m - 2) : \E i \in DOMAIN y.branches :
          y.branches[i].depth = d /\ y.branches[i].kind # "ternary"
    <3>1. \A d \in 1..(m - 1) : \E i \in DOMAIN x.branches :
            x.branches[i].depth = d /\ x.branches[i].kind # "ternary"
      BY <1>1, ScopesHaveBranches
    <3> QED BY <3>1, <2>2
  <2> QED BY <2>1, <2>3 DEF ScopesOpened
<1>8. Faces(y, "elsetok")
  BY <1>1, <1>2 DEF Faces, Facing
<1> QED BY <1>4, <1>5, <1>6, <1>7, <1>8 DEF Nested, Merges

LEMMA NestedElse ==
  ASSUME NEW x \in Executors, NEW y \in Executors, Nested(x, "elsetok"),
         y.scopes = x.scopes, y.circuits = x.circuits,
         Len(y.branches) = Len(x.branches),
         \A i \in 1..(Len(x.branches) - 1) : y.branches[i] = x.branches[i],
         y.branches[Len(x.branches)].kind = x.branches[Len(x.branches)].kind,
         y.branches[Len(x.branches)].depth = x.branches[Len(x.branches)].depth,
         y.branches[Len(x.branches)].els = 0
  PROVE  Nested(y, "else")
<1> DEFINE n == Len(x.branches)
           m == Len(x.scopes)
<1>1. /\ n \in Nat /\ m \in Nat /\ DOMAIN x.branches = 1..n /\ DOMAIN y.branches = 1..n
      /\ x.circuits = <<>>
  BY Fields DEF Nested
<1>2. /\ n > 0 /\ n \in 1..n /\ x.branches[n].depth = m /\ x.branches[n].kind = "if"
  BY <1>1 DEF Nested, Faces, Facing
<1>3. \A i \in 1..n : i # n => i \in 1..(n - 1)
  BY <1>1
<1>4. \A i \in 1..n : /\ y.branches[i].kind = x.branches[i].kind
                      /\ y.branches[i].depth = x.branches[i].depth
                      /\ i # n => y.branches[i].els = x.branches[i].els
  BY <1>3
<1>5. Chains(y)
  <2>1. ASSUME NEW i \in 1..n, NEW j \in 1..n, i < j
        PROVE  /\ y.branches[i].depth <= y.branches[j].depth
               /\ y.branches[i].depth = y.branches[j].depth =>
                    y.branches[i].kind = "if" /\ y.branches[i].els = 0 /\ y.branches[j].kind = "if"
    <3>1. i # n
      BY <2>1, <1>1
    <3>2. /\ x.branches[i].depth <= x.branches[j].depth
          /\ x.branches[i].depth = x.branches[j].depth =>
               x.branches[i].kind = "if" /\ x.branches[i].els = 0 /\ x.branches[j].kind = "if"
      BY <2>1, <1>1, SMTT(30) DEF Nested, Chains
    <3> QED BY <2>1, <3>1, <3>2, <1>4
  <2> QED BY <2>1, <1>1 DEF Chains
<1>6. Arms(y)
  <2>1. ASSUME NEW i \in 1..n
        PROVE  /\ y.branches[i].kind \in {"while", "for"} => y.branches[i].els = 0
               /\ y.branches[i].kind = "ternary" => y.branches[i].els # 0
    <3>1. CASE i = n
      BY <3>1, <1>2, <1>4
    <3>2. CASE i # n
      BY <3>2, <1>1, <1>4 DEF Nested, Arms
    <3> QED BY <3>1, <3>2
  <2> QED BY <2>1, <1>1 DEF Arms
<1>7. Depths(y, "else")
  BY <1>1, <1>4 DEF Nested, Depths, Facing
<1>8. Ternaries(y, "else")
  BY <1>1, <1>4 DEF Nested, Ternaries, TernaryGoals
<1>9. ScopesOpened(y, "else")
  <2>1. Len(y.scopes) - (IF "else" = "merge" THEN 2 ELSE 1) = m - 1
    BY <1>1
  <2>2. \A d \in 1..(m - 1) : \E i \in DOMAIN y.branches :
          y.branches[i].depth = d /\ y.branches[i].kind # "ternary"
    <3>1. \A d \in 1..(m - 1) : \E i \in DOMAIN x.branches :
            x.branches[i].depth = d /\ x.branches[i].kind # "ternary"
      BY NestedParts
    <3>2. TAKE d \in 1..(m - 1)
    <3>3. PICK i \in 1..n : x.branches[i].depth = d /\ x.branches[i].kind # "ternary"
      BY <3>1, <1>1
    <3> QED BY <3>3, <1>1, <1>4
  <2> QED BY <2>1, <2>2 DEF ScopesOpened
<1>10. Faces(y, "else")
  BY <1>1, <1>2, <1>4 DEF Faces, Facing
<1> QED BY <1>1, <1>5, <1>6, <1>7, <1>8, <1>9, <1>10 DEF Nested, Merges

\* At the end of the function nothing is open.
LEMMA NestedDone ==
  ASSUME NEW x \in Executors, NEW y, NEW g \in Calm, Nested(x, g), Len(x.scopes) = 1,
         Like(x, y), y.circuits = <<>>
  PROVE  Nested(y, "done")
<1>1. \A i \in DOMAIN x.branches : x.branches[i].depth \in Nat /\ x.branches[i].depth > 0
                                   /\ x.branches[i].depth < 1
  BY NestedParts
<1>2. Len(x.branches) = 0
  <2>1. \A i \in DOMAIN x.branches : FALSE
    BY <1>1
  <2>2. Len(x.branches) \in Nat /\ DOMAIN x.branches = 1..Len(x.branches)
    BY Fields
  <2>3. Len(x.branches) > 0 => 1 \in DOMAIN x.branches
    BY <2>2
  <2> QED BY <2>1, <2>2, <2>3
<1>3. y \in Executors /\ Len(y.branches) = 0 /\ Len(y.scopes) = 1
  BY <1>2 DEF Like
<1>4. y.branches = <<>> /\ \A i \in DOMAIN y.branches : FALSE
  <2>1. DOMAIN y.branches = 1..0
    BY <1>3, Fields
  <2>2. y.branches = <<>>
    BY <1>3, Fields, EmptySeq
  <2> QED BY <2>1, <2>2
<1>5. Depths(y, "done") /\ Chains(y) /\ Arms(y)
  BY <1>4 DEF Depths, Chains, Arms
<1>6. Ternaries(y, "done") /\ Faces(y, "done") /\ Merges(y, "done")
  BY <1>4 DEF Ternaries, Faces, Merges, Facing, TernaryGoals
<1>7. ScopesOpened(y, "done")
  BY <1>3 DEF ScopesOpened
<1> QED BY <1>4, <1>5, <1>6, <1>7 DEF Nested

----------------------------------------------------------------------------
(* The invariant of a walk, and the steps that are quiet.                  *)

Good(x, g) ==
  /\ x \in Executors /\ Len(x.locals) = Len(x.scopes) /\ Len(x.scopes) > 0
  /\ LabelsOwned(x, g) /\ Nested(x, g)

LEMMA InvIs ==
  IInv <=> (Good(ex, goal) /\ goal \in Goals /\ tokens \in 0..MaxTokens)
BY DEF IInv, TypeOK, Good

\* How a handler ends.
LEMMA Ended ==
  ASSUME NEW x, NEW g \in Goals, Good(x, g), IInv, Node(x, g) \/ Begin(x, g)
  PROVE  IInv'
<1>1. ex' = x /\ goal' = g
  BY DEF Node, Begin
<1>2. tokens' \in 0..MaxTokens
  BY LoweringAssumption, InvIs DEF Node, Begin
<1>3. IInv' <=> Good(ex', goal') /\ goal' \in Goals /\ tokens' \in 0..MaxTokens
  BY DEF IInv, TypeOK, Good
<1> QED BY <1>1, <1>2, <1>3

LEMMA QuietLike ==
  ASSUME NEW x \in Executors, NEW y, Quiet(x, y)
  PROVE  Like(x, y) /\ y.circuits = x.circuits /\ y.scopes = x.scopes
         /\ Len(y.locals) = Len(x.locals) /\ y.label = x.label
BY DEF Quiet, Like

LEMMA GoodQuiet ==
  ASSUME NEW x, NEW y, NEW g, NEW h, Good(x, g), Quiet(x, y),
         \/ g \in Calm /\ h \in Calm
         \/ g = h,
         x.circuits = <<>> \/ h \in {"cond", "tail", "full"} \/ g = h
  PROVE  Good(y, h)
<1>1. x \in Executors /\ y \in Executors /\ Like(x, y) /\ y.circuits = x.circuits
      /\ Len(y.scopes) = Len(x.scopes) /\ Len(y.locals) = Len(x.locals)
  BY QuietLike DEF Good, Quiet
<1>2. SameArm(x, g, h)
  BY DEF SameArm, Calm
<1>3. LabelsOwned(y, h)
  BY <1>1, <1>2, QuietOwned DEF Good
<1>4. Nested(x, g)
  BY DEF Good
<1>5. y.circuits # <<>> => h \in {"cond", "tail", "full"}
  BY <1>1, <1>4 DEF Nested
<1>6. Nested(y, h)
  BY <1>1, <1>4, <1>5, NestedStay
<1> QED BY <1>1, <1>3, <1>6 DEF Good

LEMMA GoodLeave ==
  ASSUME NEW x, NEW g, Good(x, g)
  PROVE  /\ Good(LeaveBehind(x), g) /\ LeaveBehind(x) \in Executors
         /\ LeaveBehind(x).branches = x.branches /\ LeaveBehind(x).scopes = x.scopes
         /\ LeaveBehind(x).circuits = x.circuits
<1>1. x \in Executors
  BY DEF Good
<1>2. Quiet(x, LeaveBehind(x))
  BY <1>1, QuietLeave
<1>3. /\ LeaveBehind(x).branches = x.branches /\ LeaveBehind(x).scopes = x.scopes
      /\ LeaveBehind(x).circuits = x.circuits
  BY <1>1 DEF LeaveBehind, Executors
<1> QED BY <1>2, <1>3, GoodQuiet DEF Quiet

LEMMA GoodSettle ==
  ASSUME NEW x, NEW g, Good(x, g)
  PROVE  /\ Good(Settle(x), g) /\ Settle(x).branches = x.branches
         /\ Settle(x).scopes = x.scopes
<1> DEFINE y == Settle(x)
<1>1. x \in Executors /\ Settles(x, y) /\ LabelsOwned(y, g)
  BY SettleFacts DEF Good
<1> HIDE DEF y
<1>2. /\ y \in Executors /\ y.branches = x.branches /\ y.scopes = x.scopes
      /\ Len(y.locals) = Len(x.locals) /\ (x.circuits = <<>> => y.circuits = <<>>)
  BY <1>1 DEF Settles
<1>3. Like(x, y)
  BY <1>1, <1>2 DEF Like
<1>4. y.circuits # <<>> => g \in {"cond", "tail", "full"}
  BY <1>2 DEF Good, Nested
<1>5. Nested(y, g)
  BY <1>3, <1>4, NestedStay DEF Good
<1> QED BY <1>1, <1>2, <1>5 DEF Good, y

\* What goals an expression serves.
LEMMA ServesIs ==
  ASSUME IInv, NEW g \in Serves
  PROVE  /\ g \in Goals
         /\ \/ goal \in Calm /\ g \in Calm
            \/ goal = g
         /\ ex.circuits = <<>> \/ g \in {"cond", "tail", "full"} \/ goal = g
         /\ goal \in Calm => g \in {"tail", "full"}
<1>1. (goal \in Expressions /\ g = goal) \/ (goal = "stmt" /\ g \in {"full", "tail"})
  BY DEF Serves
<1>2. g \in Goals
  <2>1. goal \in Goals
    BY InvIs
  <2>2. "full" \in Goals /\ "tail" \in Goals
    BY DEF Goals
  <2> QED BY <1>1, <2>1, <2>2
<1>3. goal = "stmt" => g \in Calm /\ goal \in Calm
  BY <1>1 DEF Calm, Expressions
<1>4. goal \in Calm => g \in {"tail", "full"}
  BY <1>1 DEF Calm, Expressions
<1> QED BY <1>1, <1>2, <1>3, <1>4

LEMMA VisibleTyped ==
  ASSUME ex \in Executors
  PROVE  Visible \subseteq Names
<1>1. \A i \in DOMAIN ex.locals : ex.locals[i] \in SUBSET Names
  BY Fields, ElementOfSeq
<1> QED BY <1>1 DEF Visible

LEMMA OperandInv == IInv /\ Operand => IInv'
<1> SUFFICES ASSUME IInv, Operand PROVE IInv'
  OBVIOUS
<1>1. Good(ex, goal) /\ ex \in Executors /\ ex.value \in Nat
  BY InvIs, Fields DEF Good
<1>2. PICK g \in Serves :
        \E x \in {Produce(ex, Load(ex.value, v)) : v \in Visible \cup Params}
                \cup {Produce(ex, Const(ex.value, cls)) : cls \in Classes} :
          Node(x, g) \/ Begin(x, g)
  BY DEF Operand
<1>3. PICK i \in Plain : Node(Produce(ex, i), g) \/ Begin(Produce(ex, i), g)
  <2>1. \A v \in Visible \cup Params : Load(ex.value, v) \in Plain
    BY <1>1, VisibleTyped, LoweringAssumption, PlainInsns
  <2>2. \A cls \in Classes : Const(ex.value, cls) \in Plain
    BY <1>1, PlainInsns
  <2> QED BY <1>2, <2>1, <2>2
<1>4. Quiet(ex, Produce(ex, i))
  BY <1>1, QuietProduce
<1>5. Good(Produce(ex, i), g) /\ g \in Goals
  BY <1>1, <1>4, ServesIs, GoodQuiet
<1> QED BY <1>3, <1>5, Ended

LEMMA CallInv ==
  ASSUME NEW sig \in Signatures
  PROVE  IInv /\ CallNode(sig) => IInv'
<1> SUFFICES ASSUME IInv, CallNode(sig) PROVE IInv'
  OBVIOUS
<1> DEFINE n == Len(sig.args)
           base == Len(ex.values) - n
           args == [i \in 1..n |-> ex.values[base + i].id]
           x == PopValues(ex, n)
<1>1. /\ Good(ex, goal) /\ ex \in Executors /\ ex.value \in Nat
      /\ ex.values \in Seq(Results) /\ Len(ex.values) \in Nat
  BY InvIs, Fields DEF Good
<1>2. n \in Nat /\ base >= 0 /\ n \in 0..Len(ex.values) /\ sig.ret \in Classes \cup {"unit"}
  <2>1. n \in Nat /\ sig.ret \in Classes \cup {"unit"}
    BY LoweringAssumption
  <2>2. base >= 0
    <3>1. x.waiting = ex.waiting
      BY <1>1 DEF PopValues, Executors
    <3>2. base \in Int /\ ex.waiting \in Nat
      BY <1>1, <2>1, Fields
    <3>3. base >= x.waiting
      BY DEF CallNode
    <3> HIDE DEF base, x
    <3> QED BY <3>1, <3>2, <3>3
  <2> QED BY <2>1, <2>2, <1>1
<1>3. args \in Seq(Nat)
  <2>1. \A i \in 1..n : ex.values[base + i].id \in Nat
    <3>1. TAKE i \in 1..n
    <3>2. base + i \in 1..Len(ex.values)
      <4>1. n \in Nat /\ i \in Int /\ 1 <= i /\ i <= n /\ Len(ex.values) \in Nat /\ n <= Len(ex.values)
        BY <1>1, <1>2
      <4> HIDE DEF n
      <4> QED BY <4>1
    <3>3. ex.values[base + i] \in Results
      BY <3>2, <1>1, ElementOfSeq
    <3> QED BY <3>3 DEF Results
  <2> HIDE DEF base, n
  <2>2. args \in [1..n -> Nat]
    BY <2>1
  <2> HIDE DEF args
  <2> QED BY <2>2, <1>2
<1>4. Quiet(ex, x) /\ x \in Executors
  <2>1. Quiet(ex, x)
    BY <1>1, <1>2, QuietPop
  <2> QED BY <2>1 DEF Quiet
<1>5. \/ /\ sig.ret # "unit"
         /\ \E g \in Serves : Begin(Produce(x, Call(ex.value, args, sig.ret)), g)
      \/ /\ goal = "stmt"
         /\ Begin(NewValues(Emit(x, <<Call(ex.value, args, "gp")>>), 1), "end")
  BY DEF CallNode
<1> HIDE DEF args, x
<1>6. CASE sig.ret # "unit" /\ \E g \in Serves : Begin(Produce(x, Call(ex.value, args, sig.ret)), g)
  <2> DEFINE i == Call(ex.value, args, sig.ret)
  <2>1. PICK g \in Serves : Begin(Produce(x, i), g)
    BY <1>6
  <2>2. i \in Plain
    BY <1>1, <1>2, <1>3, <1>6, PlainInsns
  <2> HIDE DEF i
  <2>3. Quiet(x, Produce(x, i))
    BY <1>4, <2>2, QuietProduce
  <2>4. Quiet(ex, Produce(x, i))
    BY <1>1, <1>4, <2>3, QuietTrans
  <2>5. Good(Produce(x, i), g) /\ g \in Goals
    BY <1>1, <2>4, ServesIs, GoodQuiet
  <2> QED BY <2>1, <2>5, Ended
<1>7. CASE goal = "stmt" /\ Begin(NewValues(Emit(x, <<Call(ex.value, args, "gp")>>), 1), "end")
  <2> DEFINE s == <<Call(ex.value, args, "gp")>>
             y == Emit(x, s)
             z == NewValues(y, 1)
  <2>1. Call(ex.value, args, "gp") \in Plain
    BY <1>1, <1>3, NamesTyped, PlainInsns
  <2>2. s \in Seq(Plain)
    BY <2>1
  <2> HIDE DEF s
  <2>3. Quiet(x, y) /\ y \in Executors
    BY <1>4, <2>2, QuietEmit DEF Quiet
  <2> HIDE DEF y
  <2>4. Quiet(y, z)
    BY <2>3, QuietNewValues
  <2>5. Quiet(ex, z)
    BY <1>1, <1>4, <2>3, <2>4, QuietTrans
  <2> HIDE DEF z
  <2>6. ex.circuits = <<>>
    BY <1>1, <1>7 DEF Good, Nested
  <2>7. Good(z, "end") /\ "end" \in Goals
    BY <1>1, <1>7, <2>5, <2>6, GoodQuiet DEF Calm, Goals
  <2> QED BY <2>7, <1>7, Ended DEF z, y, s
<1> QED BY <1>5, <1>6, <1>7

LEMMA BinOpInv == IInv /\ BinOpNode => IInv'
<1> SUFFICES ASSUME IInv, BinOpNode PROVE IInv'
  OBVIOUS
<1> DEFINE x == Settle(ex)
           n == Len(x.values)
           i == BinOp(x.value, x.values[n - 1].id, x.values[n].id, x.values[n].cls)
           p == PopValues(x, 2)
           m == IF x.waiting < n - 2 THEN x.waiting ELSE n - 2
           y == [p EXCEPT !.waiting = m]
<1>1. Good(ex, goal) /\ goal \in Goals
  BY InvIs
<1>2. Good(x, goal)
  BY <1>1, GoodSettle
<1>3. n >= 2 /\ Begin(Produce([p EXCEPT !.waiting = IF @ < n - 2 THEN @ ELSE n - 2], i), goal)
  BY DEF BinOpNode
<1> HIDE DEF x
<1>4. x \in Executors /\ x.waiting \in Nat /\ x.value \in Nat /\ x.values \in Seq(Results) /\ n \in Nat
  BY <1>2, Fields DEF Good
<1>5. i \in Plain
  <2>1. n - 1 \in 1..n /\ n \in 1..n
    BY <1>3, <1>4
  <2>2. x.values[n - 1] \in Results /\ x.values[n] \in Results
    BY <2>1, <1>4, ElementOfSeq
  <2>3. x.values[n - 1].id \in Nat /\ x.values[n].id \in Nat /\ x.values[n].cls \in Classes
    BY <2>2 DEF Results
  <2> QED BY <2>3, <1>4, PlainInsns
<1>6. Quiet(x, y) /\ y \in Executors
  <2>1. 2 \in 0..n
    BY <1>3, <1>4
  <2>2. Quiet(x, p) /\ p \in Executors
    BY <1>4, <2>1, QuietPop DEF Quiet
  <2>3. p.waiting = x.waiting
    BY <1>4 DEF PopValues, Executors
  <2>4. m \in Nat
    BY <1>3, <1>4
  <2> HIDE DEF p, m
  <2>5. y \in Executors
    BY <2>2, <2>4 DEF Executors
  <2>6. Quiet(p, y)
    BY <2>2, <2>5, QuietSame DEF Executors
  <2> QED BY <1>4, <2>2, <2>5, <2>6, QuietTrans
<1>61. Begin(Produce(y, i), goal)
  <2>1. p.waiting = x.waiting /\ p \in Executors
    <3>1. p.waiting = x.waiting
      BY <1>4 DEF PopValues, Executors
    <3> QED BY <1>3, <1>4, <3>1, QuietPop DEF Quiet
  <2> HIDE DEF i, p
  <2>2. [p EXCEPT !.waiting = IF @ < n - 2 THEN @ ELSE n - 2] = y
    BY <2>1 DEF Executors
  <2> QED BY <1>3, <2>2
<1> HIDE DEF i, y
<1>7. Quiet(x, Produce(y, i))
  BY <1>4, <1>5, <1>6, QuietProduce, QuietTrans
<1>8. Good(Produce(y, i), goal)
  BY <1>2, <1>7, GoodQuiet
<1> QED BY <1>1, <1>61, <1>8, Ended

\* A handler met at a statement, where no circuit is open.
LEMMA Statement ==
  ASSUME IInv, goal = "stmt"
  PROVE  Good(ex, "stmt") /\ ex \in Executors /\ ex.circuits = <<>>
         /\ Len(ex.locals) > 0 /\ Len(ex.scopes) > 0
BY InvIs DEF Good, Nested

LEMMA DeclInv ==
  ASSUME NEW v \in Vars
  PROVE  IInv /\ DeclNode(v) => IInv'
<1> SUFFICES ASSUME IInv, DeclNode(v) PROVE IInv'
  OBVIOUS
<1> DEFINE y == [ex EXCEPT !.decl = v]
<1>1. goal = "stmt" /\ Begin(y, "full")
  BY DEF DeclNode
<1>2. Good(ex, "stmt") /\ ex \in Executors /\ ex.circuits = <<>>
  BY <1>1, Statement
<1>3. v \in Names
  BY LoweringAssumption
<1>4. Quiet(ex, y)
  BY <1>2, <1>3, QuietFields
<1> HIDE DEF y
<1>5. Good(y, "full") /\ "full" \in Goals
  BY <1>2, <1>4, GoodQuiet DEF Calm, Goals
<1> QED BY <1>1, <1>5, Ended

LEMMA AssignInv ==
  ASSUME NEW v \in Vars
  PROVE  IInv /\ AssignNode(v) => IInv'
<1> SUFFICES ASSUME IInv, AssignNode(v) PROVE IInv'
  OBVIOUS
<1> DEFINE i == Load(ex.value, v)
           x == Produce(ex, i)
           y == PopValues(x, 1)
           z == [y EXCEPT !.assign = v]
<1>1. goal = "stmt" /\ Begin(z, "full")
  BY DEF AssignNode
<1>2. Good(ex, "stmt") /\ ex \in Executors /\ ex.circuits = <<>> /\ ex.value \in Nat
  BY <1>1, Statement, Fields
<1>3. v \in Names /\ i \in Plain
  BY <1>2, LoweringAssumption, PlainInsns
<1> HIDE DEF i
<1>4. Quiet(ex, x) /\ x \in Executors
  BY <1>2, <1>3, QuietProduce DEF Quiet
<1>5. 1 \in 0..Len(x.values)
  <2>1. x.values = Append(ex.values, [id |-> i.dst, cls |-> i.cls])
    BY <1>2 DEF Produce, Push, NewValues, Emit, Executors
  <2>2. ex.values \in Seq(Results)
    BY <1>2, Fields
  <2>3. [id |-> i.dst, cls |-> i.cls] \in Results
    BY <1>3 DEF Plain, Instructions, Results
  <2>4. Len(x.values) = Len(ex.values) + 1 /\ Len(ex.values) \in Nat
    BY <2>1, <2>2, <2>3, AppendProperties
  <2> QED BY <2>4
<1> HIDE DEF x
<1>6. Quiet(x, y) /\ y \in Executors
  BY <1>4, <1>5, QuietPop DEF Quiet
<1> HIDE DEF y
<1>7. Quiet(y, z)
  BY <1>3, <1>6, QuietFields
<1>8. Quiet(ex, z)
  BY <1>2, <1>4, <1>6, <1>7, QuietTrans
<1> HIDE DEF z
<1>9. Good(z, "full") /\ "full" \in Goals
  BY <1>2, <1>8, GoodQuiet DEF Calm, Goals
<1> QED BY <1>1, <1>9, Ended DEF z, y, x, i

LEMMA ReturnInv == IInv /\ ReturnNode => IInv'
<1> SUFFICES ASSUME IInv, ReturnNode PROVE IInv'
  OBVIOUS
<1> DEFINE y == [ex EXCEPT !.returning = TRUE, !.returned = TRUE]
<1>1. goal = "stmt" /\ \E h \in {"full", "end"} : Begin(y, h)
  BY DEF ReturnNode
<1>2. Good(ex, "stmt") /\ ex \in Executors /\ ex.circuits = <<>>
  BY <1>1, Statement
<1>3. Quiet(ex, y)
  BY <1>2, QuietFields
<1> HIDE DEF y
<1>4. \A h \in {"full", "end"} : Good(y, h) /\ h \in Goals
  <2>1. TAKE h \in {"full", "end"}
  <2>2. h \in Calm /\ "stmt" \in Calm /\ h \in Goals
    BY DEF Calm, Goals
  <2> QED BY <1>2, <1>3, <2>2, GoodQuiet
<1> QED BY <1>1, <1>4, Ended

\* `&&` over a value that an earlier block has left.
LEMMA QuietEager ==
  ASSUME NEW x \in Executors, Len(x.values) > 0, x.left # <<>>
  PROVE  Quiet(x, EagerAnd(x))
<1> DEFINE b == BinOp(x.value, Top(x.left).id, Top(x.values).id, "gp")
           p == PopValues(x, 1)
           e == Emit(p, <<b>>)
           n == NewValues(e, 1)
           l == Append(Pop(x.left), [id |-> x.value, cls |-> "gp"])
<1>1. x.left \in Seq(Results) /\ x.value \in Nat /\ Len(x.left) \in 1..Len(x.left)
  BY Fields, EmptySeq
<1>2. Top(x.left).id \in Nat
  <2>1. Top(x.left) \in Results
    BY <1>1, ElementOfSeq DEF Top
  <2> QED BY <2>1 DEF Results
<1>3. <<b>> \in Seq(Plain)
  <2>1. b \in Plain
    BY <1>1, <1>2, TopValue, PlainInsns DEF Classes
  <2> QED BY <2>1
<1>4. l \in Seq(Results)
  <2>1. [id |-> x.value, cls |-> "gp"] \in Results
    BY <1>1 DEF Results, Classes
  <2>2. Pop(x.left) \in Seq(Results)
    BY <1>1, SubSeqProperties DEF Pop
  <2> QED BY <2>1, <2>2, AppendProperties
<1>5. Quiet(x, p) /\ p \in Executors /\ p.left = x.left
  <2>1. p.left = x.left
    BY DEF PopValues, Executors
  <2> QED BY <2>1, TopValue, QuietPop DEF Quiet
<1>6. EagerAnd(x) = [n EXCEPT !.left = Append(Pop(@), [id |-> x.value, cls |-> "gp"])]
  BY DEF EagerAnd
<1> HIDE DEF p, b
<1>7. Quiet(p, e) /\ e \in Executors /\ e.left = p.left
  <2>1. e.left = p.left
    BY <1>5 DEF Emit, Executors
  <2> QED BY <1>3, <1>5, <2>1, QuietEmit DEF Quiet
<1> HIDE DEF e
<1>8. Quiet(e, n) /\ n \in Executors /\ n.left = x.left
  <2>1. n.left = e.left
    BY <1>7 DEF NewValues, Executors
  <2> QED BY <1>5, <1>7, <2>1, QuietNewValues DEF Quiet
<1>9. EagerAnd(x) = [n EXCEPT !.left = l]
  <2> HIDE DEF n
  <2> QED BY <1>6, <1>8 DEF Executors
<1> HIDE DEF n, l
<1>10. Quiet(n, [n EXCEPT !.left = l])
  <2>1. [n EXCEPT !.left = l] \in Executors
    BY <1>4, <1>8 DEF Executors
  <2> QED BY <1>8, <2>1, QuietSame DEF Executors
<1> QED BY <1>5, <1>7, <1>8, <1>9, <1>10, QuietTrans

LEMMA AndInv == IInv /\ AndNode => IInv'
<1> SUFFICES ASSUME IInv, AndNode PROVE IInv'
  OBVIOUS
<1> DEFINE x == Settle(ex)
           n == Len(x.values)
           sink == Var("sink", x.sinks + 1, "gp")
           left == Top(x.values).id
           c == [sink |-> sink, end |-> x.label, before |-> n - 1]
           s == <<Store(sink, left), BranchIfNot(left, x.label)>>
           y == PopValues(x, 1)
           e == Emit(y, s)
           l == NewLabels(e, 1)
           z == [l EXCEPT !.sinks = @ + 1, !.waiting = n - 1, !.circuits = Append(@, c)]
<1>1. Good(ex, goal) /\ goal \in Goals
  BY InvIs
<1>2. Good(x, goal)
  BY <1>1, GoodSettle
<1>3. /\ n >= 1 /\ goal \in {"cond", "tail", "full"}
      /\ x.left = <<>> => Begin(z, goal)
      /\ x.left # <<>> => Begin(EagerAnd(x), goal)
  BY DEF AndNode, ShortCircuit, Expressions
<1> HIDE DEF x
<1>4. x \in Executors /\ x.label \in Nat /\ x.sinks \in Nat /\ n \in Nat
      /\ Len(x.values) > 0
  BY <1>2, <1>3, Fields DEF Good
<1>5. left \in Nat /\ 1 \in 0..n
  BY <1>4, TopValue
<1>6. sink \in Names
  BY <1>4, NamesTyped
<1>7. Quiet(x, y) /\ y \in Executors /\ y.code = x.code /\ y.branches = x.branches
      /\ y.circuits = x.circuits /\ y.label = x.label /\ y.scopes = x.scopes
      /\ Len(y.locals) = Len(x.locals)
  <2>1. Quiet(x, y)
    BY <1>4, <1>5, QuietPop
  <2>2. y.code = x.code /\ y.branches = x.branches
    BY <1>4 DEF PopValues, Executors
  <2> QED BY <2>1, <2>2 DEF Quiet
<1> HIDE DEF sink, left, n
<1>8. /\ Store(sink, left) \in Instructions /\ Store(sink, left).op \notin Controls
      /\ BranchIfNot(left, x.label) \in Instructions
      /\ BranchIfNot(left, x.label).op = "branch"
      /\ BranchIfNot(left, x.label).target = x.label
  BY <1>4, <1>5, <1>6, PlainInsns, ControlInsns DEF Plain
<1>9. s \in Seq(Instructions) /\ DOMAIN s = {1, 2} /\ s[1] = Store(sink, left)
      /\ s[2] = BranchIfNot(left, x.label)
  BY <1>8, TwoInsns
<1> HIDE DEF y, s
<1>10. e \in Executors /\ e.code = x.code \o s /\ e = [y EXCEPT !.code = y.code \o s]
  BY <1>7, <1>9, EmitFacts
<1>11. e.branches = x.branches /\ e.circuits = x.circuits /\ e.label = x.label
       /\ e.scopes = x.scopes /\ e.locals = y.locals
  BY <1>7, <1>10 DEF Executors
<1> HIDE DEF e
<1>12. l \in Executors /\ l.label = x.label + 1 /\ l.code = x.code \o s
       /\ l.branches = x.branches /\ l.circuits = x.circuits
       /\ l.scopes = x.scopes /\ l.locals = y.locals
  <2>1. /\ l \in Executors /\ l.label = e.label + 1 /\ l.code = e.code
        /\ l.branches = e.branches /\ l.circuits = e.circuits
        /\ l.scopes = e.scopes /\ l.locals = e.locals
    BY <1>10, NewLabelsFacts
  <2> QED BY <1>10, <1>11, <2>1
<1> HIDE DEF l
<1>13. c \in Circuits /\ c.end = x.label
  BY <1>3, <1>4, <1>6 DEF Circuits, n
<1> HIDE DEF c
<1>14. Append(l.circuits, c) \in Seq(Circuits) /\ l.sinks + 1 \in Nat /\ n - 1 \in Nat
  BY <1>3, <1>4, <1>12, <1>13, Fields DEF n
<1>15. z \in Executors /\ z.label = x.label + 1 /\ z.code = x.code \o s
       /\ z.branches = x.branches /\ z.circuits = Append(x.circuits, c)
       /\ z.scopes = x.scopes /\ z.locals = y.locals
  BY <1>12, <1>14 DEF Executors
<1> HIDE DEF z
<1>16. LabelsOwned(z, goal)
  <2>1. \A k \in DOMAIN s : s[k].op # "label"
    BY <1>8, <1>9 DEF Controls
  <2>2. \A k \in DOMAIN s : s[k].op \in {"jump", "branch"} => s[k].target = x.label
    BY <1>8, <1>9 DEF Controls
  <2>3. LabelsOwned(x, goal)
    BY <1>2 DEF Good
  <2> QED BY <1>4, <1>9, <1>13, <1>15, <2>1, <2>2, <2>3, OwnedCircuit, ZenonT(60)
<1>17. Nested(z, goal)
  <2>1. Like(x, z)
    BY <1>4, <1>15 DEF Like
  <2>2. Nested(x, goal)
    BY <1>2 DEF Good
  <2> QED BY <2>1, <2>2, <1>3, NestedStay
<1>18. Good(z, goal)
  BY <1>2, <1>7, <1>15, <1>16, <1>17 DEF Good
<1>19. CASE x.left = <<>>
  <2>1. Begin(z, goal)
    BY <1>3, <1>19 DEF z, c, l, e, y, s, sink, left, n
  <2> QED BY <1>1, <1>18, <2>1, Ended
<1>20. CASE x.left # <<>>
  <2>1. Quiet(x, EagerAnd(x))
    BY <1>4, <1>20, QuietEager
  <2>2. Good(EagerAnd(x), goal)
    BY <1>2, <2>1, GoodQuiet
  <2> QED BY <1>1, <1>3, <1>20, <2>2, Ended
<1> QED BY <1>19, <1>20

----------------------------------------------------------------------------
(* The handlers that open a branch.                                        *)

Drawn(x, y, s) ==
  /\ x \in Executors /\ y \in Executors /\ s \in Seq(Instructions)
  /\ y.code = x.code \o s /\ y.branches = x.branches /\ y.label = x.label
  /\ y.circuits = x.circuits /\ y.scopes = x.scopes /\ Len(y.locals) = Len(x.locals)

\* What Branch does after code has been emitted.
LEMMA BranchOpened ==
  ASSUME NEW x, NEW d, NEW s, Drawn(x, d, s),
         NEW kind \in Kinds, NEW end \in Nat, NEW els \in Nat,
         NEW loop \in Nat, NEW emitted, emitted \in BOOLEAN, NEW var \in Names,
         NEW idx \in Names, NEW use \in Uses0
  PROVE  LET y == Branch(d, kind, end, els, loop, emitted, var, idx, use)
         IN  /\ Opened(x, NewLabels(y, 2), kind, end, els, loop, use, s)
             /\ \A n \in Nat : Opened(x, NewLabels(NewValues(y, n), 2), kind, end, els, loop, use, s)
<1> DEFINE y == Branch(d, kind, end, els, loop, emitted, var, idx, use)
<1>1. x \in Executors /\ d \in Executors /\ s \in Seq(Instructions)
      /\ d.code = x.code \o s /\ d.branches = x.branches /\ d.label = x.label
      /\ d.circuits = x.circuits /\ d.scopes = x.scopes /\ Len(d.locals) = Len(x.locals)
  BY DEF Drawn
<1>2. /\ y \in Executors
      /\ y.label = d.label /\ y.circuits = d.circuits /\ y.scopes = d.scopes
      /\ y.locals = d.locals /\ y.code = d.code
      /\ Len(y.branches) = Len(d.branches) + 1
      /\ \A i \in 1..Len(d.branches) : y.branches[i] = d.branches[i]
      /\ Branchy(y.branches[Len(d.branches) + 1])
           = <<kind, end, els, loop, Len(d.scopes), use>>
  <2>1. d \in Executors
    BY <1>1
  <2>2. Branched(d, y, kind, end, els, loop, use)
    BY <2>1, BranchFacts
  <2> HIDE DEF y
  <2> QED BY <2>2 DEF Branched
<1> HIDE DEF y
<1>3. ASSUME NEW v \in Executors, v.label = y.label, v.circuits = y.circuits,
             v.scopes = y.scopes, v.locals = y.locals, v.code = y.code, v.branches = y.branches
      PROVE  Opened(x, NewLabels(v, 2), kind, end, els, loop, use, s)
  <2> DEFINE z == NewLabels(v, 2)
  <2>1. z \in Executors /\ z.label = v.label + 2 /\ z.circuits = v.circuits
        /\ z.scopes = v.scopes /\ z.locals = v.locals /\ z.code = v.code
        /\ z.branches = v.branches
    BY <1>3, NewLabelsFacts
  <2> HIDE DEF z
  <2>2. z.label = x.label + 2 /\ z.circuits = x.circuits /\ z.scopes = x.scopes
        /\ Len(z.locals) = Len(x.locals) /\ z.code = x.code \o s
        /\ z.branches = y.branches
    BY <1>1, <1>2, <1>3, <2>1
  <2>3. Opened(x, z, kind, end, els, loop, use, s)
    BY <1>1, <1>2, <2>1, <2>2 DEF Opened
  <2> QED BY <2>3 DEF z
<1>4. Opened(x, NewLabels(y, 2), kind, end, els, loop, use, s)
  BY <1>2, <1>3
<1>5. ASSUME NEW n \in Nat
      PROVE  Opened(x, NewLabels(NewValues(y, n), 2), kind, end, els, loop, use, s)
  <2> DEFINE v == NewValues(y, n)
  <2>1. v \in Executors /\ v.label = y.label /\ v.circuits = y.circuits
        /\ v.scopes = y.scopes /\ v.locals = y.locals /\ v.code = y.code
        /\ v.branches = y.branches
    <3> DEFINE m == y.value + n
    <3>1. m \in Nat /\ v = [y EXCEPT !.value = m]
      <4>1. y.value \in Nat
        BY <1>2, Fields
      <4> QED BY <4>1 DEF NewValues
    <3> HIDE DEF m, v
    <3> QED BY <3>1, <1>2 DEF Executors
  <2> HIDE DEF v
  <2>2. Opened(x, NewLabels(v, 2), kind, end, els, loop, use, s)
    BY <1>3, <2>1
  <2> QED BY <2>2 DEF v
<1> QED BY <1>4, <1>5 DEF y

\* The walk after a branch has been opened.
Opening(x, y, kind, g, h, use, s) ==
  \/ /\ Opened(x, y, kind, x.label, x.label + 1, 0, use, s) /\ s = <<>>
     /\ \/ kind = "if" /\ h = "cond" /\ g \in Calm \cup {"else"}
        \/ kind = "ternary" /\ h = "tcond" /\ g \in Calm
  \/ /\ Opened(x, y, kind, x.label + 1, 0, x.label, use, s)
     /\ kind \in {"while", "for"} /\ h \in {"cond", "open"} /\ g \in Calm
     /\ \A l : \A j, k \in Landings(s, l) : j = k
     /\ \A l : PutBy(s, l) <=> l = x.label
     /\ \A k \in DOMAIN s : s[k].op \in {"jump", "branch"} => s[k].target = x.label + 1

LEMMA GoodOpen ==
  ASSUME NEW x, NEW y, NEW kind, NEW g, NEW h, NEW use, NEW s,
         Good(x, g), x.circuits = <<>>, Opening(x, y, kind, g, h, use, s)
  PROVE  Good(y, h)
<1>1. x \in Executors /\ Len(x.locals) = Len(x.scopes) /\ Len(x.scopes) > 0
      /\ LabelsOwned(x, g) /\ Nested(x, g) /\ x.label \in Nat /\ x.label > 0
  BY Fields DEF Good
<1>2. \A i \in DOMAIN x.branches : x.branches[i].kind # "ternary"
  <2>1. g \notin TernaryGoals
    BY DEF Opening, Calm, TernaryGoals
  <2> QED BY <1>1, <2>1, NestedParts
<1>3. h # "telse"
  BY DEF Opening
<1>4. CASE /\ Opened(x, y, kind, x.label, x.label + 1, 0, use, s) /\ s = <<>>
           /\ \/ kind = "if" /\ h = "cond" /\ g \in Calm \cup {"else"}
              \/ kind = "ternary" /\ h = "tcond" /\ g \in Calm
  <2>1. DOMAIN s = {} /\ \A l : Landings(s, l) = {} /\ ~PutBy(s, l)
    BY <1>4, NoLandings
  <2>2. LabelsOwned(y, h)
    <3>1. kind \in {"if", "ternary"}
      BY <1>4
    <3>2. \A l : \A j, k \in Landings(s, l) : j = k
      BY <2>1
    <3>3. \A k \in DOMAIN s : s[k].op \in {"jump", "branch"} => s[k].target = x.label
      BY <2>1
    <3>4. \A l : ~PutBy(s, l)
      BY <2>1
    <3>5. Opened(x, y, kind, x.label, x.label + 1, 0, use, s)
      BY <1>4
    <3> QED BY <1>1, <1>2, <1>3, <3>1, <3>2, <3>3, <3>4, <3>5, OwnedOpen
  <2>3. y.circuits = <<>> /\ y \in Executors /\ Len(y.locals) = Len(x.locals)
        /\ y.scopes = x.scopes
    BY <1>4 DEF Opened
  <2>4. Nested(y, h)
    <3>1. x.label + 1 # 0
      BY <1>1
    <3> QED BY <1>1, <1>4, <2>3, <3>1, NestedOpen
  <2> QED BY <1>1, <2>2, <2>3, <2>4 DEF Good
<1>5. CASE /\ Opened(x, y, kind, x.label + 1, 0, x.label, use, s)
           /\ kind \in {"while", "for"} /\ h \in {"cond", "open"} /\ g \in Calm
           /\ \A l : \A j, k \in Landings(s, l) : j = k
           /\ \A l : PutBy(s, l) <=> l = x.label
           /\ \A k \in DOMAIN s : s[k].op \in {"jump", "branch"} => s[k].target = x.label + 1
  <2>1. LabelsOwned(y, h)
    BY <1>1, <1>2, <1>3, <1>5, OwnedOpen
  <2>2. y.circuits = <<>> /\ y \in Executors /\ Len(y.locals) = Len(x.locals)
        /\ y.scopes = x.scopes
    BY <1>5 DEF Opened
  <2>3. Nested(y, h)
    BY <1>1, <1>5, <2>2, NestedOpen
  <2> QED BY <1>1, <2>1, <2>2, <2>3 DEF Good
<1> QED BY <1>4, <1>5 DEF Opening

LEMMA DrawnNothing ==
  ASSUME NEW x \in Executors
  PROVE  Drawn(x, x, <<>>)
<1>1. x.code \o <<>> = x.code
  BY Fields, ConcatEmptySeq
<1>2. <<>> \in Seq(Instructions)
  OBVIOUS
<1> QED BY <1>1, <1>2 DEF Drawn

\* Where a branch is met.
LEMMA OpensAre ==
  ASSUME IInv, NEW use \in Opens
  PROVE  /\ use \in Uses0 /\ goal \in {"stmt", "full", "else"} /\ ex.circuits = <<>>
         /\ Good(ex, goal) /\ ex \in Executors /\ ex.label \in Nat /\ ex.label > 0
<1>1. Good(ex, goal) /\ ex \in Executors /\ ex.label \in Nat /\ ex.label > 0
  BY InvIs, Fields DEF Good
<1>2. goal \in {"stmt", "full", "else"}
  BY DEF Opens
<1>3. Nested(ex, goal)
  BY <1>1 DEF Good
<1>4. ex.circuits = <<>>
  BY <1>2, <1>3 DEF Opens, Nested
<1>5. use \in Uses0
  <2>1. CASE goal = "else"
    <3>1. Len(ex.branches) > 0
      BY <2>1, <1>3 DEF Nested, Faces, Facing
    <3>2. Top(ex.branches) \in Contexts
      BY <1>1, <3>1, Fields, ElementOfSeq DEF Top
    <3>3. use = Top(ex.branches).use
      BY <2>1 DEF Opens
    <3> QED BY <3>2, <3>3 DEF Contexts
  <2>2. CASE goal = "stmt"
    BY <2>2 DEF Opens, Uses0
  <2>3. CASE goal = "full"
    BY <2>3 DEF Opens, Uses0
  <2> QED BY <1>2, <2>1, <2>2, <2>3
<1> QED BY <1>1, <1>2, <1>4, <1>5

LEMMA IfInv == IInv /\ IfNode => IInv'
<1> SUFFICES ASSUME IInv, IfNode PROVE IInv'
  OBVIOUS
<1>1. PICK use \in Opens :
        Begin(NewLabels(Branch(ex, "if", ex.label, ex.label + 1, 0, FALSE, NoVar, NoVar, use), 2),
              "cond")
  BY DEF IfNode
<1> DEFINE y == NewLabels(Branch(ex, "if", ex.label, ex.label + 1, 0, FALSE, NoVar, NoVar, use), 2)
<1>2. /\ use \in Uses0 /\ goal \in {"stmt", "full", "else"} /\ ex.circuits = <<>>
      /\ Good(ex, goal) /\ ex \in Executors /\ ex.label \in Nat /\ ex.label > 0
  BY OpensAre
<1>3. Opened(ex, y, "if", ex.label, ex.label + 1, 0, use, <<>>)
  <2>1. Drawn(ex, ex, <<>>) /\ NoVar \in Names
    BY <1>2, DrawnNothing, NamesTyped
  <2>2. "if" \in Kinds /\ FALSE \in BOOLEAN /\ 0 \in Nat /\ ex.label + 1 \in Nat
    BY <1>2 DEF Kinds
  <2> QED BY <1>2, <2>1, <2>2, BranchOpened
<1> HIDE DEF y
<1>4. Opening(ex, y, "if", goal, "cond", use, <<>>)
  BY <1>2, <1>3 DEF Opening, Calm
<1>5. Good(y, "cond") /\ "cond" \in Goals
  BY <1>2, <1>4, GoodOpen DEF Goals, Facing
<1> QED BY <1>1, <1>5, Ended DEF y

LEMMA WhenInv == IInv /\ WhenNode => IInv'
<1> SUFFICES ASSUME IInv, WhenNode PROVE IInv'
  OBVIOUS
<1>1. PICK use \in Opens : goal # "else" /\
        Begin(NewLabels(Branch(ex, "ternary", ex.label, ex.label + 1, 0, FALSE, NoVar, NoVar, use), 2),
              "tcond")
  BY DEF WhenNode
<1> DEFINE y == NewLabels(Branch(ex, "ternary", ex.label, ex.label + 1, 0, FALSE, NoVar, NoVar, use), 2)
<1>2. /\ use \in Uses0 /\ goal \in {"stmt", "full", "else"} /\ ex.circuits = <<>>
      /\ Good(ex, goal) /\ ex \in Executors /\ ex.label \in Nat /\ ex.label > 0
  BY OpensAre
<1>3. Opened(ex, y, "ternary", ex.label, ex.label + 1, 0, use, <<>>)
  <2>1. Drawn(ex, ex, <<>>) /\ NoVar \in Names
    BY <1>2, DrawnNothing, NamesTyped
  <2>2. "ternary" \in Kinds /\ FALSE \in BOOLEAN /\ 0 \in Nat /\ ex.label + 1 \in Nat
    BY <1>2 DEF Kinds
  <2> QED BY <1>2, <2>1, <2>2, BranchOpened
<1> HIDE DEF y
<1>4. Opening(ex, y, "ternary", goal, "tcond", use, <<>>)
  BY <1>1, <1>2, <1>3 DEF Opening, Calm
<1>5. Good(y, "tcond") /\ "tcond" \in Goals
  BY <1>2, <1>4, GoodOpen DEF Goals, TernaryGoals
<1> QED BY <1>1, <1>5, Ended DEF y

LEMMA WhileInv == IInv /\ WhileNode => IInv'
<1> SUFFICES ASSUME IInv, WhileNode PROVE IInv'
  OBVIOUS
<1> DEFINE s == <<Label(ex.label)>>
           d == Emit(ex, s)
           y == NewLabels(Branch(d, "while", ex.label + 1, 0, ex.label, FALSE, NoVar, NoVar, "stmt"), 2)
<1>1. goal = "stmt" /\ Begin(y, "cond")
  BY DEF WhileNode
<1>2. Good(ex, "stmt") /\ ex \in Executors /\ ex.circuits = <<>> /\ ex.label \in Nat
  BY <1>1, Statement, Fields
<1>3. Label(ex.label) \in Instructions /\ Label(ex.label).op = "label"
      /\ Label(ex.label).target = ex.label
  BY <1>2, ControlInsns
<1>4. /\ s \in Seq(Instructions) /\ DOMAIN s = {1} /\ s[1] = Label(ex.label)
      /\ \A l : \A j, k \in Landings(s, l) : j = k
      /\ \A l : PutBy(s, l) <=> l = ex.label
  BY <1>3, OneInsn
<1> HIDE DEF s
<1>5. Drawn(ex, d, s)
  <2>1. d \in Executors /\ d.code = ex.code \o s /\ d = [ex EXCEPT !.code = ex.code \o s]
    BY <1>2, <1>4, EmitFacts
  <2> QED BY <1>2, <1>4, <2>1 DEF Drawn, Executors
<1> HIDE DEF d
<1>6. Opened(ex, y, "while", ex.label + 1, 0, ex.label, "stmt", s)
  <2>1. "while" \in Kinds /\ FALSE \in BOOLEAN /\ 0 \in Nat /\ ex.label + 1 \in Nat
        /\ NoVar \in Names /\ "stmt" \in Uses0
    BY <1>2, NamesTyped DEF Kinds, Uses0
  <2> QED BY <1>2, <1>5, <2>1, BranchOpened
<1> HIDE DEF y
<1>7. Opening(ex, y, "while", "stmt", "cond", "stmt", s)
  BY <1>3, <1>4, <1>6 DEF Opening, Calm
<1>8. Good(y, "cond") /\ "cond" \in Goals
  BY <1>2, <1>7, GoodOpen DEF Goals, Facing
<1> QED BY <1>1, <1>8, Ended DEF y, d, s

\* Code with one label in it.
LEMMA OneLabel ==
  ASSUME NEW s \in Seq(Instructions), NEW p \in DOMAIN s, s[p].op = "label",
         \A k \in DOMAIN s : k # p => s[k].op # "label"
  PROVE  /\ \A l : \A j, k \in Landings(s, l) : j = k
         /\ \A l : PutBy(s, l) <=> l = s[p].target
<1>1. \A l : \A k : k \in Landings(s, l) <=> k \in DOMAIN s /\ s[k].op = "label" /\ s[k].target = l
  BY DEF Landings
<1>2. \A l : \A k \in Landings(s, l) : k = p
  BY <1>1
<1>3. \A l : PutBy(s, l) <=> \E k : k \in Landings(s, l)
  BY DEF PutBy
<1> QED BY <1>1, <1>2, <1>3

LEMMA RangeInv ==
  ASSUME NEW v \in Vars
  PROVE  IInv /\ RangeNode(v) => IInv'
<1> SUFFICES ASSUME IInv, RangeNode(v) PROVE IInv'
  OBVIOUS
<1> DEFINE i == ex.value
           end == Var("end", Len(ex.code) + 4, "gp")
           a1 == Const(i, "gp")
           a2 == Const(i + 1, "gp")
           a3 == VarDef(v, <<i>>)
           a4 == Store(v, i)
           a5 == VarDef(end, <<i + 1>>)
           a6 == Store(end, i + 1)
           a7 == Label(ex.label)
           a8 == Load(i + 2, v)
           a9 == Load(i + 3, end)
           a10 == BinOp(i + 4, i + 2, i + 3, "gp")
           a11 == BranchIfNot(i + 4, ex.label + 1)
           s == <<a1, a2, a3, a4, a5, a6, a7, a8, a9, a10, a11>>
           x == Emit(ex, s)
           d == Declare(x, v)
           y == Branch(d, "for", ex.label + 1, 0, ex.label, TRUE, v, NoVar, "stmt")
           z == NewLabels(NewValues(y, 5), 2)
<1>1. goal = "stmt" /\ Begin(z, "open")
  BY DEF RangeNode
<1>2. Good(ex, "stmt") /\ ex \in Executors /\ ex.circuits = <<>> /\ ex.label \in Nat
      /\ ex.value \in Nat /\ Len(ex.code) \in Nat /\ Len(ex.locals) > 0
  BY <1>1, Statement, Fields
<1>3. v \in Names /\ end \in Names /\ NoVar \in Names
  BY <1>2, LoweringAssumption, NamesTyped
<1>4. i \in Nat /\ i + 1 \in Nat /\ i + 2 \in Nat /\ i + 3 \in Nat /\ i + 4 \in Nat
      /\ ex.label + 1 \in Nat
  BY <1>2, SMTT(30)
<1>5. /\ a1 \in Plain /\ a2 \in Plain /\ a3 \in Plain /\ a4 \in Plain /\ a5 \in Plain
      /\ a6 \in Plain /\ a8 \in Plain /\ a9 \in Plain /\ a10 \in Plain
  <2> HIDE DEF i, end
  <2>1. "gp" \in Classes
    BY NamesTyped
  <2>2. a1 \in Plain /\ a2 \in Plain /\ a3 \in Plain /\ a4 \in Plain
    BY <1>3, <1>4, <2>1, PlainInsns
  <2>3. a5 \in Plain /\ a6 \in Plain
    BY <1>3, <1>4, <2>1, PlainInsns
  <2>4. a8 \in Plain /\ a9 \in Plain /\ a10 \in Plain
    BY <1>3, <1>4, <2>1, PlainInsns
  <2> QED BY <2>2, <2>3, <2>4
<1>6. /\ a7 \in Instructions /\ a7.op = "label" /\ a7.target = ex.label
      /\ a11 \in Instructions /\ a11.op = "branch" /\ a11.target = ex.label + 1
  <2> HIDE DEF i
  <2>1. a7 \in Instructions /\ a7.op = "label" /\ a7.target = ex.label
    BY <1>2, <1>4, ControlInsns
  <2>2. a11 \in Instructions /\ a11.op = "branch" /\ a11.target = ex.label + 1
    BY <1>4, ControlInsns
  <2> QED BY <2>1, <2>2
<1> HIDE DEF a1, a2, a3, a4, a5, a6, a7, a8, a9, a10, a11
<1>7. /\ s \in Seq(Instructions) /\ DOMAIN s = 1..11 /\ s[7] = a7 /\ s[11] = a11
      /\ \A k \in 1..11 : k # 7 /\ k # 11 => s[k] \in Plain
  <2>1. /\ a1 \in Instructions /\ a2 \in Instructions /\ a3 \in Instructions
        /\ a4 \in Instructions /\ a5 \in Instructions /\ a6 \in Instructions
        /\ a8 \in Instructions /\ a9 \in Instructions /\ a10 \in Instructions
    BY <1>5 DEF Plain
  <2>2. s \in Seq(Instructions)
    BY <1>6, <2>1
  <2>3. DOMAIN s = 1..11 /\ s[7] = a7 /\ s[11] = a11
    OBVIOUS
  <2>4. \A k \in 1..11 : k # 7 /\ k # 11 => s[k] \in Plain
    BY <1>5
  <2> QED BY <2>2, <2>3, <2>4
<1> HIDE DEF s
<1>8. /\ \A l : \A j, k \in Landings(s, l) : j = k
      /\ \A l : PutBy(s, l) <=> l = ex.label
      /\ \A k \in DOMAIN s : s[k].op \in {"jump", "branch"} => s[k].target = ex.label + 1
  <2>1. \A k \in 1..11 : k # 7 /\ k # 11 => s[k].op \notin Controls
    BY <1>7 DEF Plain
  <2>2. \A k \in DOMAIN s : k # 7 => s[k].op # "label"
    BY <1>6, <1>7, <2>1 DEF Controls
  <2>3. \A k \in DOMAIN s : s[k].op \in {"jump", "branch"} => s[k].target = ex.label + 1
    BY <1>6, <1>7, <2>1 DEF Controls
  <2>4. 7 \in DOMAIN s
    BY <1>7
  <2> QED BY <1>6, <1>7, <2>2, <2>3, <2>4, OneLabel
<1>9. Drawn(ex, d, s)
  <2>1. x \in Executors /\ x.code = ex.code \o s /\ x = [ex EXCEPT !.code = ex.code \o s]
    BY <1>2, <1>7, EmitFacts
  <2>2. x.locals = ex.locals /\ x.branches = ex.branches /\ x.label = ex.label
        /\ x.circuits = ex.circuits /\ x.scopes = ex.scopes
    BY <1>2, <2>1 DEF Executors
  <2> HIDE DEF x
  <2>3. Quiet(x, d)
    BY <1>2, <1>3, <2>1, <2>2, QuietDeclare
  <2>4. d.code = x.code /\ d.branches = x.branches
    BY <2>1 DEF Declare, Executors
  <2> QED BY <1>2, <1>7, <2>1, <2>2, <2>3, <2>4 DEF Drawn, Quiet
<1> HIDE DEF d
<1>10. Opened(ex, z, "for", ex.label + 1, 0, ex.label, "stmt", s)
  <2>1. "for" \in Kinds /\ TRUE \in BOOLEAN /\ 0 \in Nat /\ 5 \in Nat /\ "stmt" \in Uses0
    BY DEF Kinds, Uses0
  <2> QED BY <1>2, <1>3, <1>4, <1>9, <2>1, BranchOpened
<1> HIDE DEF z
<1>11. Opening(ex, z, "for", "stmt", "open", "stmt", s)
  BY <1>8, <1>10 DEF Opening, Calm
<1>12. Good(z, "open") /\ "open" \in Goals
  BY <1>2, <1>11, GoodOpen DEF Goals, Facing
<1> QED BY <1>1, <1>12, Ended DEF z, d, s, a1, a2, a3, a4, a5, a6, a7, a8, a9, a10, a11

LEMMA ArrayInv ==
  ASSUME NEW v \in Vars, NEW p \in Params
  PROVE  IInv /\ ArrayNode(v, p) => IInv'
<1> SUFFICES ASSUME IInv, ArrayNode(v, p) PROVE IInv'
  OBVIOUS
<1> DEFINE i == ex.value
           n == Len(ex.code) + 1
           arr == Var("arr", n, "gp")
           idx == Var("idx", n, "gp")
           a1 == Load(i, p)
           a2 == VarDef(arr, <<i>>)
           a3 == Store(arr, i)
           a4 == Const(i + 1, "gp")
           a5 == VarDef(idx, <<i + 1>>)
           a6 == Store(idx, i + 1)
           a7 == VarDef(v, <<>>)
           a8 == Label(ex.label)
           a9 == Load(i + 2, arr)
           a10 == ArrayLen(i + 3, i + 2)
           a11 == Load(i + 4, idx)
           a12 == BinOp(i + 5, i + 4, i + 3, "gp")
           a13 == BranchIfNot(i + 5, ex.label + 1)
           a14 == Load(i + 6, arr)
           a15 == Load(i + 7, idx)
           a16 == ArrayIndex(i + 8, i + 6, i + 7, v.cls)
           a17 == Store(v, i + 8)
           s == <<a1, a2, a3, a4, a5, a6, a7, a8, a9,
                  a10, a11, a12, a13, a14, a15, a16, a17>>
           x == Emit(ex, s)
           d == Declare(x, v)
           y == Branch(d, "for", ex.label + 1, 0, ex.label, TRUE, v, idx, "stmt")
           z == NewLabels(NewValues(y, 9), 2)
<1>1. goal = "stmt" /\ Begin(z, "open")
  BY DEF ArrayNode
<1>2. Good(ex, "stmt") /\ ex \in Executors /\ ex.circuits = <<>> /\ ex.label \in Nat
      /\ ex.value \in Nat /\ Len(ex.code) \in Nat /\ Len(ex.locals) > 0
  BY <1>1, Statement, Fields
<1>3. v \in Names /\ p \in Names /\ arr \in Names /\ idx \in Names /\ v.cls \in Classes
  <2>1. n \in Nat
    BY <1>2
  <2>2. v \in Names /\ p \in Names
    BY LoweringAssumption
  <2>3. v.cls \in Classes
    BY <2>2, NamesTyped
  <2> HIDE DEF n
  <2>4. arr \in Names /\ idx \in Names
    BY <2>1, NamesTyped
  <2> QED BY <2>2, <2>3, <2>4
<1>4. /\ i \in Nat /\ i + 1 \in Nat /\ i + 2 \in Nat /\ i + 3 \in Nat /\ i + 4 \in Nat
      /\ i + 5 \in Nat /\ i + 6 \in Nat /\ i + 7 \in Nat /\ i + 8 \in Nat
      /\ ex.label + 1 \in Nat
  <2>1. i \in Nat /\ ex.label \in Nat
    BY <1>2
  <2> HIDE DEF i
  <2> QED BY <2>1
<1>5. /\ a1 \in Plain /\ a2 \in Plain /\ a3 \in Plain /\ a4 \in Plain /\ a5 \in Plain
      /\ a6 \in Plain /\ a7 \in Plain /\ a9 \in Plain /\ a10 \in Plain /\ a11 \in Plain
      /\ a12 \in Plain /\ a14 \in Plain /\ a15 \in Plain /\ a16 \in Plain /\ a17 \in Plain
  <2> HIDE DEF i, arr, idx
  <2>1. "gp" \in Classes
    BY NamesTyped
  <2>2. a1 \in Plain /\ a2 \in Plain /\ a3 \in Plain /\ a4 \in Plain
    BY <1>3, <1>4, <2>1, PlainInsns
  <2>3. a5 \in Plain /\ a6 \in Plain /\ a7 \in Plain
    BY <1>3, <1>4, <2>1, PlainInsns
  <2>4. a9 \in Plain /\ a10 \in Plain /\ a11 \in Plain /\ a12 \in Plain
    BY <1>3, <1>4, <2>1, PlainInsns
  <2>5. a14 \in Plain /\ a15 \in Plain /\ a16 \in Plain /\ a17 \in Plain
    BY <1>3, <1>4, <2>1, PlainInsns
  <2> QED BY <2>2, <2>3, <2>4, <2>5
<1>6. /\ a8 \in Instructions /\ a8.op = "label" /\ a8.target = ex.label
      /\ a13 \in Instructions /\ a13.op = "branch" /\ a13.target = ex.label + 1
  <2>1. ex.label \in Nat /\ ex.label + 1 \in Nat /\ i + 5 \in Nat
    BY <1>2, <1>4
  <2> HIDE DEF i
  <2> QED BY <2>1, ControlInsns
<1> HIDE DEF a1, a2, a3, a4, a5, a6, a7, a8, a9,
             a10, a11, a12, a13, a14, a15, a16, a17
<1>7. /\ s \in Seq(Instructions) /\ DOMAIN s = 1..17 /\ s[8] = a8 /\ s[13] = a13
      /\ \A k \in 1..17 : k # 8 /\ k # 13 => s[k] \in Plain
  <2>1. /\ a1 \in Instructions /\ a2 \in Instructions /\ a3 \in Instructions
        /\ a4 \in Instructions /\ a5 \in Instructions /\ a6 \in Instructions
        /\ a7 \in Instructions /\ a9 \in Instructions /\ a10 \in Instructions
        /\ a11 \in Instructions /\ a12 \in Instructions /\ a14 \in Instructions
        /\ a15 \in Instructions /\ a16 \in Instructions /\ a17 \in Instructions
    BY <1>5 DEF Plain
  <2>2. s \in Seq(Instructions)
    BY <1>6, <2>1
  <2>3. DOMAIN s = 1..17 /\ s[8] = a8 /\ s[13] = a13
    OBVIOUS
  <2>4. \A k \in 1..17 : k # 8 /\ k # 13 => s[k] \in Plain
    BY <1>5
  <2> QED BY <2>2, <2>3, <2>4
<1> HIDE DEF s
<1>8. /\ \A l : \A j, k \in Landings(s, l) : j = k
      /\ \A l : PutBy(s, l) <=> l = ex.label
      /\ \A k \in DOMAIN s : s[k].op \in {"jump", "branch"} => s[k].target = ex.label + 1
  <2>1. \A k \in 1..17 : k # 8 /\ k # 13 => s[k].op \notin Controls
    BY <1>7 DEF Plain
  <2>2. \A k \in DOMAIN s : k # 8 => s[k].op # "label"
    BY <1>6, <1>7, <2>1 DEF Controls
  <2>3. \A k \in DOMAIN s : s[k].op \in {"jump", "branch"} => s[k].target = ex.label + 1
    BY <1>6, <1>7, <2>1 DEF Controls
  <2>4. 8 \in DOMAIN s
    BY <1>7
  <2> QED BY <1>6, <1>7, <2>2, <2>3, <2>4, OneLabel
<1>9. Drawn(ex, d, s)
  <2>1. x \in Executors /\ x.code = ex.code \o s /\ x = [ex EXCEPT !.code = ex.code \o s]
    BY <1>2, <1>7, EmitFacts
  <2>2. x.locals = ex.locals /\ x.branches = ex.branches /\ x.label = ex.label
        /\ x.circuits = ex.circuits /\ x.scopes = ex.scopes
    BY <1>2, <2>1 DEF Executors
  <2> HIDE DEF x
  <2>3. Quiet(x, d)
    BY <1>2, <1>3, <2>1, <2>2, QuietDeclare
  <2>4. d.code = x.code /\ d.branches = x.branches
    BY <2>1 DEF Declare, Executors
  <2> QED BY <1>2, <1>7, <2>1, <2>2, <2>3, <2>4 DEF Drawn, Quiet
<1> HIDE DEF d
<1>10. Opened(ex, z, "for", ex.label + 1, 0, ex.label, "stmt", s)
  <2>1. "for" \in Kinds /\ TRUE \in BOOLEAN /\ 0 \in Nat /\ 9 \in Nat /\ "stmt" \in Uses0
    BY DEF Kinds, Uses0
  <2> QED BY <1>2, <1>3, <1>4, <1>9, <2>1, BranchOpened
<1> HIDE DEF z
<1>11. Opening(ex, z, "for", "stmt", "open", "stmt", s)
  BY <1>8, <1>10 DEF Opening, Calm
<1>12. Good(z, "open") /\ "open" \in Goals
  BY <1>2, <1>11, GoodOpen DEF Goals, Facing
<1> QED BY <1>1, <1>12, Ended DEF z, d, s, a1, a2, a3, a4, a5, a6, a7, a8, a9,
             a10, a11, a12, a13, a14, a15, a16, a17

----------------------------------------------------------------------------
(* The handlers that jump to a label, or place one that is owed.           *)

LEMMA QuietEmitted ==
  ASSUME NEW x \in Executors, NEW i \in DOMAIN x.branches
  PROVE  Quiet(x, [x EXCEPT !.branches[i].emitted = TRUE])
<1> DEFINE b == x.branches[i]
           c == [b EXCEPT !.emitted = TRUE]
           s == [x.branches EXCEPT ![i] = c]
           y == [x EXCEPT !.branches[i].emitted = TRUE]
<1>1. b \in Contexts /\ i \in 1..Len(x.branches) /\ Len(x.branches) \in Nat
      /\ x.branches \in [1..Len(x.branches) -> Contexts]
  BY Fields, ElementOfSeq, LenProperties
<1>2. c \in Contexts /\ Branchy(c) = Branchy(b)
  BY <1>1 DEF Contexts, Branchy
<1>3. y = [x EXCEPT !.branches = s]
  OBVIOUS
<1> HIDE DEF c
<1>4. s \in [1..Len(x.branches) -> Contexts] /\ s[i] = c
      /\ \A j \in 1..Len(x.branches) : j # i => s[j] = x.branches[j]
  BY <1>1, <1>2
<1>5. s \in Seq(Contexts) /\ Len(s) = Len(x.branches)
  BY <1>1, <1>4
<1> HIDE DEF s, y
<1>6. /\ y \in Executors /\ y.branches = s /\ y.label = x.label /\ y.circuits = x.circuits
      /\ y.scopes = x.scopes /\ y.locals = x.locals /\ y.code = x.code
  BY <1>3, <1>5 DEF Executors
<1>7. \A j \in 1..Len(x.branches) : Branchy(y.branches[j]) = Branchy(x.branches[j])
  BY <1>2, <1>4, <1>6
<1>8. Quiet(x, y)
  BY <1>5, <1>6, <1>7, Fields DEF Quiet
<1> QED BY <1>8 DEF y

LEMMA GoodJump ==
  ASSUME NEW x, NEW g, Good(x, g), NEW i \in Instructions, i.op \in {"jump", "branch"},
         Owners(x, g, i.target) # {}
  PROVE  /\ Good(Emit(x, <<i>>), g) /\ SameShape(x, Emit(x, <<i>>))
         /\ Emit(x, <<i>>).values = x.values
<1> DEFINE y == Emit(x, <<i>>)
<1>1. x \in Executors /\ LabelsOwned(x, g) /\ Nested(x, g)
      /\ Len(x.locals) = Len(x.scopes) /\ Len(x.scopes) > 0
  BY DEF Good
<1>2. SameShape(x, y) /\ y.values = x.values /\ LabelsOwned(y, g)
  BY <1>1, OwnedJump
<1> HIDE DEF y
<1>3. Like(x, y) /\ y.circuits = x.circuits
  BY <1>1, <1>2 DEF Like, SameShape
<1>4. Nested(y, g)
  <2>1. y.circuits # <<>> => g \in {"cond", "tail", "full"}
    BY <1>1, <1>3 DEF Nested
  <2> QED BY <1>1, <1>3, <2>1, NestedStay
<1> QED BY <1>1, <1>2, <1>4 DEF Good, SameShape, y

\* The ternary the walk is in.
LEMMA InTernary ==
  ASSUME NEW x, NEW g \in TernaryGoals, Good(x, g)
  PROVE  LET n == Len(x.branches)
         IN  /\ n > 0 /\ n \in DOMAIN x.branches /\ x.branches[n].kind = "ternary"
             /\ x.branches[n].els # 0 /\ x.circuits = <<>>
             /\ OwesElse(x, g, n) <=> g # "telse"
             /\ x.branches # <<>> /\ Top(x.branches) = x.branches[n]
             /\ \A i \in 1..(n - 1) : x.branches[i].kind # "ternary"
<1> DEFINE n == Len(x.branches)
<1>1. x \in Executors /\ Nested(x, g) /\ n \in Nat /\ DOMAIN x.branches = 1..n
  BY Fields DEF Good
<1>2. n > 0
  BY <1>1 DEF Nested, Ternaries
<1>3. n \in DOMAIN x.branches
  BY <1>1, <1>2
<1>4. x.branches[n].kind = "ternary"
  BY <1>1, <1>3 DEF Nested, Ternaries
<1>5. x.branches[n].els # 0
  BY <1>1, <1>3, <1>4 DEF Nested, Arms
<1>6. x.circuits = <<>>
  BY <1>1 DEF Nested, TernaryGoals
<1>7. OwesElse(x, g, n) <=> g # "telse"
  BY <1>4, <1>5 DEF OwesElse
<1>8. x.branches # <<>> /\ Top(x.branches) = x.branches[n]
  <2>1. x.branches # <<>>
    BY <1>1, <1>2, EmptySeq
  <2> QED BY <2>1 DEF Top
<1>9. \A i \in 1..(n - 1) : x.branches[i].kind # "ternary"
  <2>1. TAKE i \in 1..(n - 1)
  <2>2. i \in DOMAIN x.branches /\ i < Len(x.branches)
    BY <1>1
  <2> QED BY <1>1, <2>2, NestedParts
<1> QED BY <1>2, <1>3, <1>4, <1>5, <1>6, <1>7, <1>8, <1>9

\* Who owes a label owns it.
LEMMA OwedArm ==
  ASSUME NEW x, NEW g, NEW n \in DOMAIN x.branches
  PROVE  /\ OwesElse(x, g, n) => Owners(x, g, x.branches[n].els) # {}
         /\ Owners(x, g, x.branches[n].end) # {}
<1>1. OwesElse(x, g, n) => <<"else", n>> \in Debts(x, g, x.branches[n].els)
  BY DebtIs
<1>2. <<"end", n>> \in Debts(x, g, x.branches[n].end)
  BY DebtIs
<1> QED BY <1>1, <1>2, Indebted

LEMMA QuestionInv == IInv /\ QuestionNode => IInv'
<1> SUFFICES ASSUME IInv, QuestionNode PROVE IInv'
  OBVIOUS
<1> DEFINE n == Len(ex.branches)
           t == Top(ex.values).id
           i == BranchIfNot(t, ex.branches[n].els)
           x == Emit(ex, <<i>>)
           y == PopValues(x, 1)
           z == [y EXCEPT !.branches[n].emitted = TRUE]
<1>1. goal = "tcond" /\ Len(ex.values) = 1 /\ Node(z, "tthen")
  BY DEF QuestionNode
<1>2. Good(ex, "tcond") /\ ex \in Executors
  BY <1>1, InvIs DEF Good
<1>3. /\ n \in DOMAIN ex.branches /\ ex.circuits = <<>>
      /\ OwesElse(ex, "tcond", n)
  BY <1>2, InTernary DEF TernaryGoals
<1>4. ex.branches[n].els \in Nat
  <2>1. ex.branches[n] \in Contexts
    BY <1>2, <1>3, Fields, ElementOfSeq
  <2> QED BY <2>1 DEF Contexts
<1>5. Len(ex.values) > 0 /\ t \in Nat /\ 1 \in 0..Len(ex.values)
  <2>1. Len(ex.values) > 0
    BY <1>1
  <2> QED BY <1>2, <2>1, TopValue
<1> HIDE DEF n, t
<1>6. i \in Instructions /\ i.op = "branch" /\ i.target = ex.branches[n].els
  BY <1>4, <1>5, ControlInsns
<1>7. Owners(ex, "tcond", i.target) # {}
  BY <1>3, <1>6, OwedArm
<1> HIDE DEF i
<1>8. Good(x, "tcond") /\ SameShape(ex, x) /\ x.values = ex.values
  BY <1>2, <1>6, <1>7, GoodJump
<1> HIDE DEF x
<1>9. x \in Executors /\ x.circuits = <<>> /\ n \in DOMAIN x.branches
  BY <1>3, <1>8 DEF SameShape
<1>10. Quiet(x, y) /\ y \in Executors /\ n \in DOMAIN y.branches
  <2>1. Quiet(x, y) /\ y \in Executors
    BY <1>5, <1>8, <1>9, QuietPop DEF Quiet
  <2>2. Len(y.branches) = Len(x.branches)
    BY <2>1 DEF Quiet
  <2> QED BY <1>9, <2>1, <2>2, Fields
<1> HIDE DEF y
<1>11. Quiet(y, z)
  BY <1>10, QuietEmitted
<1>12. Quiet(x, z) /\ z \in Executors
  <2>1. Quiet(x, z)
    BY <1>9, <1>10, <1>11, QuietTrans
  <2> QED BY <2>1 DEF Quiet
<1> HIDE DEF z
<1>13. LabelsOwned(z, "tthen")
  BY <1>8, <1>9, <1>12, QuietOwned DEF SameArm, Good
<1>14. Nested(z, "tthen")
  <2>1. Like(x, z) /\ z.circuits = <<>>
    BY <1>9, <1>12, QuietLike
  <2>2. Nested(x, "tcond")
    BY <1>8 DEF Good
  <2> QED BY <2>1, <2>2, NestedStay DEF TernaryGoals
<1>15. Good(z, "tthen")
  BY <1>8, <1>9, <1>12, <1>13, <1>14, QuietLike DEF Good
<1>16. "tthen" \in Goals
  BY DEF Goals, TernaryGoals
<1> QED BY <1>1, <1>15, <1>16, Ended DEF z, y, x, i, t, n

\* A jump over the second arm and its label, from a branch that owes it.
LEMMA ArmCode ==
  ASSUME NEW x \in Executors, NEW end \in Nat, NEW els \in Nat
  PROVE  LET s == <<Jump(end), Label(els)>>
         IN  /\ Emit(x, s) \in Executors /\ Emit(x, s).code = x.code \o s
             /\ Emit(x, s).branches = x.branches /\ Emit(x, s).circuits = x.circuits
             /\ Emit(x, s).label = x.label /\ Emit(x, s).scopes = x.scopes
             /\ Emit(x, s).locals = x.locals
<1> DEFINE s == <<Jump(end), Label(els)>>
<1>1. Jump(end) \in Instructions /\ Label(els) \in Instructions
  BY ControlInsns
<1>2. s \in Seq(Instructions)
  BY <1>1
<1> HIDE DEF s
<1>3. Emit(x, s) \in Executors /\ Emit(x, s).code = x.code \o s
      /\ Emit(x, s) = [x EXCEPT !.code = x.code \o s]
  BY <1>2, EmitFacts
<1>4. /\ Emit(x, s).branches = x.branches /\ Emit(x, s).circuits = x.circuits
      /\ Emit(x, s).label = x.label /\ Emit(x, s).scopes = x.scopes
      /\ Emit(x, s).locals = x.locals
  BY <1>3 DEF Executors
<1> QED BY <1>3, <1>4 DEF s

LEMMA ColonInv == IInv /\ ColonNode => IInv'
<1> SUFFICES ASSUME IInv, ColonNode PROVE IInv'
  OBVIOUS
<1> DEFINE n == Len(ex.branches)
           x == SinkStore(ex, n)
           s == <<Jump(ex.branches[n].end), Label(ex.branches[n].els)>>
           y == Emit(x, s)
<1>1. goal = "tthen" /\ Node(y, "telse")
  BY DEF ColonNode
<1>2. Good(ex, "tthen") /\ ex \in Executors
  BY <1>1, InvIs DEF Good
<1>3. n \in DOMAIN ex.branches
  BY <1>2, InTernary DEF TernaryGoals
<1>4. Quiet(ex, x) /\ x \in Executors
  BY <1>2, <1>3, QuietSinkStore DEF Quiet
<1> HIDE DEF x
<1>5. Good(x, "tthen")
  BY <1>2, <1>4, GoodQuiet
<1>6. Len(x.branches) = n /\ Branchy(x.branches[n]) = Branchy(ex.branches[n])
  BY <1>2, <1>3, <1>4, Fields DEF Quiet
<1>7. x.branches[n].end = ex.branches[n].end /\ x.branches[n].els = ex.branches[n].els
  BY <1>6, BranchyFields
<1>8. /\ n > 0 /\ n \in DOMAIN x.branches /\ x.branches[n].kind = "ternary"
      /\ x.circuits = <<>> /\ OwesElse(x, "tthen", n)
      /\ \A i \in 1..(n - 1) : x.branches[i].kind # "ternary"
  BY <1>5, <1>6, InTernary DEF TernaryGoals
<1>9. ~OwesElse(y, "telse", n) /\ ex.branches[n].end \in Nat /\ ex.branches[n].els \in Nat
      /\ Len(x.branches) = n
      /\ y \in Executors /\ y.code = x.code \o s /\ y.branches = x.branches
      /\ y.circuits = x.circuits /\ y.label = x.label /\ y.scopes = x.scopes
      /\ y.locals = x.locals
  <2>1. ex.branches[n] \in Contexts
    BY <1>2, <1>3, Fields, ElementOfSeq
  <2>2. ex.branches[n].end \in Nat /\ ex.branches[n].els \in Nat
    BY <2>1 DEF Contexts
  <2>3. /\ y \in Executors /\ y.code = x.code \o s /\ y.branches = x.branches
        /\ y.circuits = x.circuits /\ y.label = x.label /\ y.scopes = x.scopes
        /\ y.locals = x.locals
    BY <1>4, <2>2, ArmCode
  <2> HIDE DEF y
  <2>4. ~OwesElse(y, "telse", n)
    BY <1>8, <2>3 DEF OwesElse
  <2> QED BY <1>6, <2>2, <2>3, <2>4
<1> HIDE DEF y, n
<1>10. LabelsOwned(y, "telse")
  <2>1. LabelsOwned(x, "tthen")
    BY <1>5 DEF Good
  <2>2. y.code = x.code \o <<Jump(x.branches[n].end), Label(x.branches[n].els)>>
    BY <1>7, <1>9
  <2>3. \A i \in 1..(n - 1) : y.branches[i] = x.branches[i] /\ x.branches[i].kind # "ternary"
    BY <1>8, <1>9
  <2>4. y.branches[n].end = x.branches[n].end /\ y.branches[n].els \in {0, x.branches[n].els}
        /\ y.branches[n].kind = x.branches[n].kind /\ x.branches[n].kind \in {"if", "ternary"}
        /\ Len(y.branches) = n
    BY <1>8, <1>9
  <2> HIDE DEF s
  <2> QED BY <1>4, <1>8, <1>9, <2>1, <2>2, <2>3, <2>4, OwnedArm
<1>11. Nested(y, "telse")
  <2>1. Like(x, y) /\ y.circuits = <<>>
    BY <1>4, <1>8, <1>9 DEF Like
  <2>2. Nested(x, "tthen")
    BY <1>5 DEF Good
  <2> QED BY <2>1, <2>2, NestedStay DEF TernaryGoals
<1>12. Good(y, "telse")
  BY <1>5, <1>9, <1>10, <1>11 DEF Good
<1>13. "telse" \in Goals
  BY DEF Goals, TernaryGoals
<1> QED BY <1>1, <1>12, <1>13, Ended DEF y, x, n

LEMMA GoodEnter ==
  ASSUME NEW x, NEW g \in {"cond", "open", "else"}, Good(x, g), x.circuits = <<>>
  PROVE  Good(PushScope(x), "stmt")
<1> DEFINE y == PushScope(x)
<1>1. x \in Executors /\ Len(x.locals) = Len(x.scopes) /\ Len(x.scopes) > 0
      /\ LabelsOwned(x, g) /\ Nested(x, g) /\ Len(x.scopes) \in Nat
  BY Fields DEF Good
<1>2. /\ y \in Executors /\ Len(y.scopes) = Len(x.scopes) + 1
      /\ Len(y.locals) = Len(x.locals) + 1
      /\ y.code = x.code /\ y.branches = x.branches /\ y.circuits = x.circuits
      /\ y.label = x.label
  BY <1>1, PushScopeFacts
<1> HIDE DEF y
<1>3. LabelsOwned(x, "stmt")
  <2>1. Quiet(x, x)
    BY <1>1, QuietFields
  <2> QED BY <1>1, <2>1, QuietOwned DEF SameArm
<1>4. LabelsOwned(y, "stmt")
  BY <1>2, <1>3, OwnedSame
<1>5. Nested(y, "stmt")
  BY <1>1, <1>2, NestedEnter
<1>6. Len(y.locals) = Len(y.scopes) /\ Len(y.scopes) > 0
  BY <1>1, <1>2
<1> QED BY <1>2, <1>4, <1>5, <1>6 DEF Good, y

LEMMA LBraceInv == IInv /\ LBraceNode => IInv'
<1> SUFFICES ASSUME IInv, LBraceNode PROVE IInv'
  OBVIOUS
<1>1. Good(ex, goal) /\ ex \in Executors /\ "stmt" \in Goals
  BY InvIs DEF Good, Goals
<1>2. CASE goal \in {"open", "else"} /\ Node(PushScope(ex), "stmt")
  <2>1. ex.circuits = <<>>
    BY <1>1, <1>2 DEF Good, Nested
  <2>2. Good(PushScope(ex), "stmt")
    BY <1>1, <1>2, <2>1, GoodEnter
  <2> QED BY <1>1, <1>2, <2>2, Ended
<1>3. ASSUME goal = "cond", LBraceNode, ~(goal \in {"open", "else"})
      PROVE  IInv'
  <2> DEFINE n == Len(ex.branches)
             x == Settle(ex)
             ctx == ex.branches[n]
             t == Top(x.values).id
             l == IF ctx.els # 0 THEN ctx.els ELSE ctx.end
             i == BranchIfNot(t, l)
             e == Emit(x, <<i>>)
             p == PopValues(e, 1)
             z == [p EXCEPT !.branches[n].emitted = TRUE]
  <2>1. IsWhole(x) /\ Node(PushScope(z), "stmt")
    BY <1>3 DEF LBraceNode
  <2>2. Good(x, "cond") /\ x.branches = ex.branches
    BY <1>1, <1>3, GoodSettle
  <2>3. x.circuits = <<>> /\ Len(x.values) = 1
    BY <2>1 DEF IsWhole
  <2> HIDE DEF x
  <2>4. x \in Executors
    BY <2>2 DEF Good
  <2>5. n \in DOMAIN x.branches /\ n \in DOMAIN ex.branches
    <3>1. Len(x.branches) > 0
      BY <2>2 DEF Good, Nested, Faces, Facing
    <3> QED BY <2>2, <2>4, <3>1, Fields
  <2>6. ctx \in Contexts /\ ctx.els \in Nat /\ ctx.end \in Nat
    <3>1. ctx \in Contexts
      BY <1>1, <2>5, Fields, ElementOfSeq
    <3> QED BY <3>1 DEF Contexts
  <2>7. Len(x.values) > 0
    BY <2>3, <2>6
  <2>8. t \in Nat /\ 1 \in 0..Len(x.values)
    BY <2>4, <2>7, TopValue
  <2>9. l \in Nat
    BY <2>6
  <2>10. Owners(x, "cond", l) # {}
    <3>1. ctx.els # 0 => OwesElse(x, "cond", n)
      BY <2>2 DEF OwesElse
    <3>2. x.branches[n] = ctx
      BY <2>2
    <3> HIDE DEF ctx, n
    <3> QED BY <2>5, <3>1, <3>2, OwedArm
  <2> HIDE DEF t, l
  <2>11. i \in Instructions /\ i.op = "branch" /\ i.target = l
    BY <2>8, <2>9, ControlInsns
  <2> HIDE DEF i
  <2>12. Good(e, "cond") /\ SameShape(x, e) /\ e.values = x.values
    BY <2>2, <2>10, <2>11, GoodJump
  <2> HIDE DEF e
  <2>13. e \in Executors /\ e.circuits = <<>> /\ n \in DOMAIN e.branches
    BY <2>3, <2>5, <2>12 DEF SameShape
  <2>14. Quiet(e, p) /\ p \in Executors /\ n \in DOMAIN p.branches
    <3>1. Quiet(e, p) /\ p \in Executors
      BY <2>8, <2>12, <2>13, QuietPop DEF Quiet
    <3>2. Len(p.branches) = Len(e.branches)
      BY <3>1 DEF Quiet
    <3> QED BY <2>13, <3>1, <3>2, Fields
  <2> HIDE DEF p
  <2>15. Quiet(p, z)
    BY <2>14, QuietEmitted
  <2>16. Quiet(e, z)
    BY <2>13, <2>14, <2>15, QuietTrans
  <2> HIDE DEF z
  <2>17. Good(z, "cond")
    BY <2>12, <2>16, GoodQuiet
  <2>18. z.circuits = <<>>
    BY <2>13, <2>16 DEF Quiet
  <2>19. Good(PushScope(z), "stmt")
    BY <2>17, <2>18, GoodEnter
  <2> QED BY <1>1, <2>1, <2>19, Ended
<1> QED BY <1>2, <1>3 DEF LBraceNode

\* The loop a `break` or a `continue` leaves.
LEMMA InnerLoop ==
  ASSUME NEW x, Good(x, "stmt"), NEW c \in InnerLoops(x)
  PROVE  \E i \in DOMAIN x.branches :
           /\ c = x.branches[i] /\ i \in Loops(x) /\ c \in Contexts
           /\ Owners(x, "stmt", c.end) # {} /\ Owners(x, "stmt", c.loop) # {}
<1>1. x \in Executors /\ LabelsOwned(x, "stmt")
  BY DEF Good
<1>2. PICK i \in Loops(x) : c = x.branches[i]
  BY DEF InnerLoops
<1>3. i \in DOMAIN x.branches
  BY DEF Loops
<1>4. c \in Contexts
  BY <1>1, <1>2, <1>3, Fields, ElementOfSeq
<1>5. Owners(x, "stmt", c.end) # {}
  BY <1>2, <1>3, OwedArm
<1>6. Landings(x.code, c.loop) # {}
  BY <1>1, <1>2 DEF LabelsOwned
<1>7. Owners(x, "stmt", c.loop) # {}
  BY <1>6, Indebted
<1> QED BY <1>2, <1>3, <1>4, <1>5, <1>7

LEMMA JumpEnds ==
  ASSUME IInv, NEW x, NEW l \in Nat, Good(x, "stmt"), x.circuits = <<>>, Owners(x, "stmt", l) # {},
         Begin(Emit(x, <<Jump(l)>>), "end")
  PROVE  IInv'
<1> DEFINE i == Jump(l)
           y == Emit(x, <<i>>)
<1>1. i \in Instructions /\ i.op = "jump" /\ i.target = l
  BY ControlInsns
<1> HIDE DEF i
<1>2. Good(y, "stmt") /\ SameShape(x, y)
  BY <1>1, GoodJump
<1> HIDE DEF y
<1>3. y.circuits = <<>> /\ y \in Executors
  BY <1>2 DEF SameShape
<1>4. Quiet(y, y)
  BY <1>3, QuietFields
<1>5. Good(y, "end") /\ "end" \in Goals
  BY <1>2, <1>3, <1>4, GoodQuiet DEF Calm, Goals
<1> QED BY <1>5, Ended DEF y, i

LEMMA BreakInv == IInv /\ BreakNode => IInv'
<1> SUFFICES ASSUME IInv, BreakNode PROVE IInv'
  OBVIOUS
<1>1. goal = "stmt"
  BY DEF BreakNode
<1>2. PICK c \in InnerLoops(ex) : Begin(Emit(ex, <<Jump(c.end)>>), "end")
  BY DEF BreakNode
<1>3. Good(ex, "stmt") /\ ex.circuits = <<>>
  BY <1>1, Statement
<1>4. c \in Contexts /\ Owners(ex, "stmt", c.end) # {}
  BY <1>3, InnerLoop
<1>5. c.end \in Nat
  BY <1>4 DEF Contexts
<1> QED BY <1>2, <1>3, <1>4, <1>5, JumpEnds

LEMMA ContinueInv == IInv /\ ContinueNode => IInv'
<1> SUFFICES ASSUME IInv, ContinueNode PROVE IInv'
  OBVIOUS
<1>1. goal = "stmt"
  BY DEF ContinueNode
<1>2. PICK c \in InnerLoops(ex) :
        Begin(Emit(IF c.kind = "for" THEN Increment(ex, c.var) ELSE ex, <<Jump(c.loop)>>), "end")
  BY DEF ContinueNode
<1> DEFINE x == IF c.kind = "for" THEN Increment(ex, c.var) ELSE ex
<1>3. Good(ex, "stmt") /\ ex.circuits = <<>> /\ ex \in Executors
  BY <1>1, Statement
<1>4. PICK i \in DOMAIN ex.branches : c = ex.branches[i] /\ i \in Loops(ex) /\ c \in Contexts
  BY <1>3, InnerLoop
<1>5. c.loop \in Nat /\ c.var \in Names
  BY <1>4 DEF Contexts
<1>6. Quiet(ex, x)
  BY <1>3, <1>5, QuietFields, QuietIncrement
<1> HIDE DEF x
<1>7. Good(x, "stmt") /\ x.circuits = <<>> /\ x \in Executors
  <2>1. Good(x, "stmt")
    BY <1>3, <1>6, GoodQuiet
  <2> QED BY <2>1, <1>3, <1>6 DEF Quiet
<1>8. Owners(x, "stmt", c.loop) # {}
  <2>1. i \in 1..Len(ex.branches) /\ Len(x.branches) = Len(ex.branches)
        /\ i \in DOMAIN x.branches
    BY <1>3, <1>6, <1>7, Fields DEF Quiet
  <2>2. Branchy(x.branches[i]) = Branchy(ex.branches[i])
    BY <2>1, <1>6 DEF Quiet
  <2>3. x.branches[i].loop = c.loop /\ x.branches[i].kind = c.kind
    BY <2>2, <1>4, BranchyFields
  <2>4. i \in Loops(x)
    BY <1>4, <2>1, <2>3 DEF Loops
  <2>5. Landings(x.code, c.loop) # {}
    BY <1>7, <2>3, <2>4 DEF Good, LabelsOwned
  <2> QED BY <2>5, Indebted
<1> QED BY <1>2, <1>5, <1>7, <1>8, JumpEnds DEF x

----------------------------------------------------------------------------
(* The handlers that end something.                                        *)

LEMMA NoTernary ==
  ASSUME NEW x, NEW g, Good(x, g), g \notin TernaryGoals
  PROVE  /\ ~IsLast(x, "ternary") /\ CloseTernaries(x) = x
         /\ \A i \in DOMAIN x.branches : x.branches[i].kind # "ternary"
<1>1. x \in Executors /\ Nested(x, g)
  BY DEF Good
<1>2. \A i \in DOMAIN x.branches : x.branches[i].kind # "ternary"
  BY <1>1, NestedParts
<1>3. x.branches # <<>> => Len(x.branches) \in DOMAIN x.branches
  <2>1. x.branches # <<>> => Len(x.branches) \in Nat \ {0}
    BY <1>1, Fields, EmptySeq
  <2> QED BY <1>1, <2>1, Fields
<1> QED BY <1>2, <1>3 DEF IsLast, Top, CloseTernaries

LEMMA TernaryCloses ==
  ASSUME NEW x, Good(x, "telse"), NEW h \in Calm
  PROVE  Good(CloseTernaries(x), h) /\ CloseTernaries(x).circuits = <<>>
         /\ CloseTernaries(x).scopes = x.scopes
<1> DEFINE n == Len(x.branches)
           s == <<Label(Top(x.branches).end)>>
           y == CloseArm(x, s)
<1>1. /\ n > 0 /\ n \in DOMAIN x.branches /\ x.branches[n].kind = "ternary"
      /\ x.circuits = <<>> /\ ~OwesElse(x, "telse", n)
      /\ x.branches # <<>> /\ Top(x.branches) = x.branches[n]
      /\ \A i \in 1..(n - 1) : x.branches[i].kind # "ternary"
  BY InTernary DEF TernaryGoals
<1>2. x \in Executors /\ LabelsOwned(x, "telse") /\ Nested(x, "telse")
      /\ Len(x.locals) = Len(x.scopes) /\ Len(x.scopes) > 0
  BY DEF Good
<1>3. CloseTernaries(x) = y
  BY <1>1 DEF CloseTernaries, IsLast
<1>4. Ends(x, "telse", s)
  BY <1>1, <1>2, EndsWith
<1>5. s \in Seq(Instructions) /\ \A k \in DOMAIN s : s[k].op = "label"
  <2>1. Top(x.branches).end \in Nat
    BY <1>1, <1>2, TopLabels
  <2>2. Label(Top(x.branches).end) \in Instructions /\ Label(Top(x.branches).end).op = "label"
    BY <2>1, ControlInsns
  <2> QED BY <2>2, OneInsn
<1> HIDE DEF s
<1>6. PopsTo(x, y)
  BY <1>1, <1>2, <1>5, CloseArmFacts
<1>7. LabelsOwned(y, h)
  <2>1. \A i \in 1..(Len(x.branches) - 1) : x.branches[i].kind # "ternary"
    BY <1>1
  <2> QED BY <1>1, <1>2, <1>4, <1>5, <2>1, CloseArmFacts
<1> HIDE DEF y
<1>8. Nested(y, h)
  <2>1. "telse" \in TernaryGoals
    BY DEF TernaryGoals
  <2> QED BY <1>2, <1>6, <2>1, NestedTernary
<1>9. y \in Executors /\ y.circuits = <<>> /\ y.scopes = x.scopes /\ Len(y.locals) = Len(x.locals)
  BY <1>1, <1>6 DEF PopsTo
<1>10. Good(y, h)
  BY <1>2, <1>7, <1>8, <1>9 DEF Good
<1> QED BY <1>3, <1>9, <1>10

LEMMA SemicolonInv == IInv /\ SemicolonNode => IInv'
<1> SUFFICES ASSUME IInv, SemicolonNode PROVE IInv'
  OBVIOUS
<1> DEFINE w == Settle(ex)
           x == CloseTernaries(w)
           a == FinalizeAssign(x)
           y == FinalizeDecl(a)
           n == Len(y.circuits)
           c == [y EXCEPT !.circuits = <<>>]
           s == [i \in 1..n |-> Label(y.circuits[n + 1 - i].end)]
           z == Emit(c, s)
           r == IF NoTarget(x) THEN Drop(z) ELSE CheckReturn(z)
<1>1. /\ \/ goal = "end"
         \/ goal = "full" /\ IsWhole(w)
         \/ goal = "telse"
      /\ Node(LeaveBehind(r), "stmt")
  BY DEF SemicolonNode
<1>2. Good(w, goal)
  BY InvIs, GoodSettle
<1> HIDE DEF w
<1>3. Good(x, "end") /\ x.circuits = <<>>
  <2>1. CASE goal = "telse"
    BY <2>1, <1>2, TernaryCloses DEF Calm
  <2>2. CASE goal = "end" \/ (goal = "full" /\ IsWhole(w))
    <3>1. w.circuits = <<>>
      BY <2>2, <1>2 DEF IsWhole, Good, Nested
    <3>2. x = w
      BY <2>2, <1>2, NoTernary DEF TernaryGoals
    <3>3. Quiet(w, w)
      BY <1>2, QuietFields DEF Good
    <3>4. Good(w, "end")
      BY <2>2, <1>2, <3>1, <3>3, GoodQuiet DEF Calm
    <3> QED BY <3>1, <3>2, <3>4
  <2> QED BY <1>1, <2>1, <2>2
<1> HIDE DEF x
<1>4. x \in Executors /\ Len(x.locals) > 0
  BY <1>3 DEF Good
<1>5. Quiet(x, a) /\ a \in Executors /\ Len(a.locals) > 0
  <2>1. Quiet(x, a)
    BY <1>4, QuietFinalizeAssign
  <2> QED BY <1>4, <2>1 DEF Quiet
<1> HIDE DEF a
<1>6. Quiet(a, y) /\ y \in Executors
  <2>1. Quiet(a, y)
    BY <1>5, QuietFinalizeDecl
  <2> QED BY <2>1 DEF Quiet
<1> HIDE DEF y
<1>7. Quiet(x, y) /\ y.circuits = <<>>
  <2>1. Quiet(x, y)
    BY <1>4, <1>5, <1>6, QuietTrans
  <2> QED BY <1>3, <2>1 DEF Quiet
<1>8. Quiet(y, c) /\ c \in Executors
  <2>1. <<>> \in Seq(Circuits)
    OBVIOUS
  <2>2. /\ c \in Executors /\ c.code = y.code /\ c.branches = y.branches /\ c.label = y.label
        /\ c.circuits = y.circuits /\ c.scopes = y.scopes /\ Len(c.locals) = Len(y.locals)
    BY <1>6, <1>7, <2>1 DEF Executors
  <2> HIDE DEF c
  <2> QED BY <1>6, <2>2, QuietSame
<1> HIDE DEF c
<1>9. s \in Seq(Plain)
  <2>1. n = 0
    BY <1>7, EmptySeq
  <2>2. s = <<>>
    BY <2>1
  <2> HIDE DEF s
  <2> QED BY <2>2
<1> HIDE DEF s
<1>10. Quiet(c, z) /\ z \in Executors
  <2>1. Quiet(c, z)
    BY <1>8, <1>9, QuietEmit
  <2> QED BY <2>1 DEF Quiet
<1> HIDE DEF z
<1>11. Quiet(z, r)
  BY <1>10, QuietDrop, QuietCheckReturn
<1> HIDE DEF r
<1>12. Quiet(x, r)
  BY <1>4, <1>6, <1>7, <1>8, <1>10, <1>11, QuietTrans
<1>13. Good(LeaveBehind(r), "stmt") /\ "stmt" \in Goals
  BY <1>3, <1>12, GoodQuiet, GoodLeave DEF Calm, Goals
<1> QED BY <1>1, <1>13, Ended DEF r, z, s, c, y, a, x, w

LEMMA ElseInv == IInv /\ ElseNode => IInv'
<1> SUFFICES ASSUME IInv, ElseNode PROVE IInv'
  OBVIOUS
<1> DEFINE n == Len(ex.branches)
           x == SinkStore(ex, n)
           s == <<Jump(x.branches[n].end), Label(x.branches[n].els)>>
           e == Emit(x, s)
           y == [e EXCEPT !.branches[n].els = 0]
<1>1. goal = "elsetok" /\ Node(LeaveBehind(y), "else")
  BY DEF ElseNode
<1>2. Good(ex, "elsetok") /\ ex \in Executors
  BY <1>1, InvIs DEF Good
<1>3. n \in DOMAIN ex.branches /\ n \in Nat
  <2>1. n > 0
    BY <1>2 DEF Good, Nested, Faces, Facing
  <2> QED BY <1>2, <2>1, Fields
<1>4. Quiet(ex, x) /\ x \in Executors
  BY <1>2, <1>3, QuietSinkStore DEF Quiet
<1> HIDE DEF x
<1>5. Good(x, "elsetok") /\ x.circuits = <<>>
  <2>1. Good(x, "elsetok")
    BY <1>2, <1>4, GoodQuiet
  <2> QED BY <2>1 DEF Good, Nested
<1>6. Len(x.branches) = n
  BY <1>4 DEF Quiet
<1> HIDE DEF n
<1>7. n > 0 /\ n \in DOMAIN x.branches /\ x.branches[n].kind = "if" /\ x.branches[n].els # 0
  <2>1. n > 0 /\ x.branches[n].kind = "if" /\ x.branches[n].els # 0
    BY <1>5, <1>6 DEF Good, Nested, Faces, Facing
  <2> QED BY <1>4, <1>6, <2>1, Fields
<1>8. \A i \in 1..(n - 1) : x.branches[i].kind # "ternary"
  <2>1. TAKE i \in 1..(n - 1)
  <2>2. i \in DOMAIN x.branches
    BY <1>3, <1>4, <1>6, Fields
  <2> QED BY <1>5, <2>2, NoTernary DEF TernaryGoals
<1>9. x.branches[n].end \in Nat /\ x.branches[n].els \in Nat /\ x.branches[n] \in Contexts
  <2>1. x.branches[n] \in Contexts
    BY <1>4, <1>7, Fields, ElementOfSeq
  <2> QED BY <2>1 DEF Contexts
<1>10. /\ e \in Executors /\ e.code = x.code \o s /\ e.branches = x.branches
       /\ e.circuits = x.circuits /\ e.label = x.label /\ e.scopes = x.scopes
       /\ e.locals = x.locals
  BY <1>4, <1>9, ArmCode
<1> HIDE DEF s, e
<1>11. /\ y \in Executors /\ y.code = x.code \o s
       /\ y.circuits = x.circuits /\ y.label = x.label /\ y.scopes = x.scopes
       /\ y.locals = x.locals /\ Len(y.branches) = n
       /\ \A i \in 1..(n - 1) : y.branches[i] = x.branches[i]
       /\ y.branches[n].els = 0 /\ y.branches[n].end = x.branches[n].end
       /\ y.branches[n].kind = x.branches[n].kind /\ y.branches[n].depth = x.branches[n].depth
  <2> DEFINE b == x.branches[n]
             c == [b EXCEPT !.els = 0]
             t == [x.branches EXCEPT ![n] = c]
  <2>1. /\ c \in Contexts /\ c.els = 0 /\ c.end = b.end /\ c.kind = b.kind /\ c.depth = b.depth
    BY <1>9 DEF Contexts
  <2>2. y = [e EXCEPT !.branches = t]
    BY <1>10
  <2>3. x.branches \in [1..n -> Contexts] /\ n \in 1..n
    BY <1>3, <1>4, <1>6, <1>7, Fields, LenProperties
  <2> HIDE DEF c
  <2>4. t \in [1..n -> Contexts] /\ t[n] = c
        /\ \A j \in 1..n : j # n => t[j] = x.branches[j]
    BY <2>1, <2>3
  <2> HIDE DEF t, y
  <2>5. t \in Seq(Contexts) /\ Len(t) = n
    <3>1. DOMAIN t = 1..n
      BY <2>4
    <3>2. t \in Seq(Contexts)
      BY <1>3, <2>4
    <3> QED BY <1>3, <3>1, <3>2, LenProperties
  <2>6. \A i \in 1..(n - 1) : t[i] = x.branches[i]
    BY <1>3, <2>4
  <2>7. /\ y \in Executors /\ y.branches = t /\ y.label = e.label /\ y.circuits = e.circuits
        /\ y.scopes = e.scopes /\ y.locals = e.locals /\ y.code = e.code
    BY <1>10, <2>2, <2>5 DEF Executors
  <2> QED BY <1>10, <2>1, <2>4, <2>5, <2>6, <2>7
<1> HIDE DEF y
<1>12. LabelsOwned(y, "else")
  <2>1. LabelsOwned(x, "elsetok")
    BY <1>5 DEF Good
  <2>2. y.code = x.code \o <<Jump(x.branches[n].end), Label(x.branches[n].els)>>
    BY <1>11 DEF s
  <2>3. OwesElse(x, "elsetok", n) /\ ~OwesElse(y, "else", n)
    BY <1>7, <1>11 DEF OwesElse
  <2>4. \A i \in 1..(n - 1) : y.branches[i] = x.branches[i] /\ x.branches[i].kind # "ternary"
    BY <1>8, <1>11
  <2>5. y.branches[n].els \in {0, x.branches[n].els} /\ x.branches[n].kind \in {"if", "ternary"}
    BY <1>7, <1>11
  <2> QED BY <1>4, <1>6, <1>7, <1>11, <2>1, <2>2, <2>3, <2>4, <2>5, OwnedArm
<1>13. Nested(y, "else")
  <2>1. Nested(x, "elsetok")
    BY <1>5 DEF Good
  <2> QED BY <1>4, <1>6, <1>11, <2>1, NestedElse
<1>14. Good(y, "else") /\ "else" \in Goals
  BY <1>5, <1>11, <1>12, <1>13 DEF Good, Goals, Facing
<1>15. Good(LeaveBehind(y), "else")
  BY <1>14, GoodLeave
<1> QED BY <1>1, <1>14, <1>15, Ended DEF y, e, s, x, n

LEMMA Pair ==
  ASSUME NEW i, NEW j
  PROVE  <<i>> \o <<j>> = <<i, j>>
<1> DEFINE S == {i, j}
           a == <<i>>
           b == <<j>>
           s == a \o b
           t == <<i, j>>
<1>1. a \in Seq(S) /\ b \in Seq(S) /\ Len(a) = 1 /\ Len(b) = 1 /\ a[1] = i /\ b[1] = j
  OBVIOUS
<1>2. t \in Seq(S) /\ Len(t) = 2 /\ t[1] = i /\ t[2] = j
  OBVIOUS
<1> HIDE DEF a, b, S, t
<1>3. s \in Seq(S) /\ Len(s) = 2 /\ s[1] = i /\ s[2] = j
  BY <1>1, ConcatProperties
<1> HIDE DEF s
<1>4. \A k \in 1..Len(s) : s[k] = t[k]
  <2>1. TAKE k \in 1..Len(s)
  <2>2. k = 1 \/ k = 2
    BY <1>3
  <2> QED BY <2>2, <1>2, <1>3
<1>5. s = t
  BY <1>2, <1>3, <1>4, SeqEqual
<1> QED BY <1>5 DEF s, t, a, b

\* An if is closed in the block of its last arm.
LEMMA CloseIfGood ==
  ASSUME NEW x, NEW g \in Calm \cup {"merge"}, Good(x, g), x.circuits = <<>>,
         Len(x.branches) > 0, Len(x.scopes) > 1,
         Top(x.branches).depth = Len(x.scopes) - 1, Top(x.branches).kind = "if"
  PROVE  Good(CloseIf(x), "merge")
<1> DEFINE b == Top(x.branches)
           n == Len(x.branches)
           s == (IF b.els # 0 THEN <<Label(b.els)>> ELSE <<>>) \o <<Label(b.end)>>
           y == CloseArm(x, s)
           z == [y EXCEPT !.closed = b.use]
<1>1. x \in Executors /\ LabelsOwned(x, g) /\ Nested(x, g)
      /\ Len(x.locals) = Len(x.scopes) /\ Len(x.scopes) > 0
  BY DEF Good
<1>2. n \in DOMAIN x.branches /\ b = x.branches[n] /\ n \in Nat
  BY <1>1, Fields DEF Top
<1>3. b.els \in Nat /\ b.end \in Nat /\ b \in Contexts
  BY <1>1, <1>2, TopLabels
<1>4. b.use \in Uses0
  BY <1>3 DEF Contexts
<1>5. OwesElse(x, g, n) <=> b.els # 0
  BY <1>2 DEF OwesElse
<1>6. \A i \in 1..(n - 1) : x.branches[i].kind # "ternary"
  <2>1. g \notin TernaryGoals
    BY DEF Calm, TernaryGoals
  <2>2. \A i \in 1..(n - 1) : i \in DOMAIN x.branches
    BY <1>1, <1>2, Fields
  <2> QED BY <2>1, <2>2, NoTernary
<1>7. CloseIf(x) = z
  BY DEF CloseIf
<1>8. Label(b.els) \in Instructions /\ Label(b.els).op = "label"
      /\ Label(b.end) \in Instructions /\ Label(b.end).op = "label"
      /\ Label(b.els).target = b.els /\ Label(b.end).target = b.end
  BY <1>3, ControlInsns
<1>9. /\ s \in Seq(Instructions) /\ Ends(x, g, s)
      /\ \A k \in DOMAIN s : s[k].op = "label"
  <2>1. CASE b.els # 0
    <3>1. s = <<Label(b.els), Label(b.end)>>
      <4>1. s = <<Label(b.els)>> \o <<Label(b.end)>>
        BY <2>1
      <4> QED BY <4>1, Pair
    <3>2. Ends(x, g, <<Label(b.els), Label(b.end)>>)
      BY <2>1, <1>1, <1>5, EndsWith
    <3> HIDE DEF s
    <3>3. \A k \in DOMAIN s : s[k].op = "label"
      <4>1. DOMAIN s = {1, 2} /\ s[1] = Label(b.els) /\ s[2] = Label(b.end)
        BY <3>1
      <4> QED BY <4>1, <1>8
    <3>4. s \in Seq(Instructions)
      BY <3>1, <1>8
    <3> QED BY <3>1, <3>2, <3>3, <3>4
  <2>2. CASE b.els = 0
    <3>1. s = <<Label(b.end)>>
      BY <2>2
    <3>2. Ends(x, g, <<Label(b.end)>>)
      BY <2>2, <1>1, <1>5, EndsWith
    <3> HIDE DEF s
    <3>3. \A k \in DOMAIN s : s[k].op = "label"
      BY <3>1, <1>8
    <3>4. s \in Seq(Instructions)
      BY <3>1, <1>8
    <3> QED BY <3>1, <3>2, <3>3, <3>4
  <2> QED BY <2>1, <2>2
<1> HIDE DEF s
<1>10. PopsTo(x, y)
  BY <1>1, <1>9, CloseArmFacts
<1>11. LabelsOwned(y, "merge")
  <2>1. \A i \in 1..(Len(x.branches) - 1) : x.branches[i].kind # "ternary"
    BY <1>6
  <2> QED BY <1>1, <1>9, <2>1, CloseArmFacts
<1> HIDE DEF y
<1>12. y \in Executors /\ y.circuits = <<>> /\ y.scopes = x.scopes /\ Len(y.locals) = Len(x.locals)
  BY <1>10 DEF PopsTo
<1>13. Nested(y, "merge")
  <2>1. x.branches[Len(x.branches)].depth = Len(x.scopes) - 1
        /\ x.branches[Len(x.branches)].kind = "if"
    BY <1>2
  <2> QED BY <1>1, <1>10, <1>12, <2>1, NestedMerge
<1>14. Good(y, "merge")
  BY <1>1, <1>11, <1>12, <1>13 DEF Good
<1>15. Quiet(y, z)
  BY <1>4, <1>12, QuietFields
<1> HIDE DEF z
<1>16. Good(z, "merge")
  BY <1>14, <1>15, GoodQuiet
<1> QED BY <1>7, <1>16

LEMMA AfterCalm ==
  ASSUME NEW use \in Uses0
  PROVE  After(use) \in Calm /\ After(use) \in Goals
BY DEF After, Uses0, Calm, Goals

\* A brace takes the scope of its block away.
LEMMA GoodShrunk ==
  ASSUME NEW x, NEW g, NEW h, Good(x, g), SameArm(x, g, h),
         Len(x.scopes) > 1, Nested(PopScope(x), h)
  PROVE  Good(PopScope(x), h)
<1> DEFINE y == PopScope(x)
<1>1. x \in Executors /\ LabelsOwned(x, g) /\ Len(x.locals) = Len(x.scopes) /\ Len(x.scopes) \in Nat
  BY Fields DEF Good
<1>2. /\ y \in Executors /\ Len(y.scopes) = Len(x.scopes) - 1
      /\ Len(y.locals) = Len(x.locals) - 1
      /\ y.code = x.code /\ y.branches = x.branches /\ y.circuits = x.circuits
      /\ y.label = x.label
  BY <1>1, PopScopeFacts
<1>3. Quiet(x, x)
  BY <1>1, QuietFields
<1>4. LabelsOwned(x, h)
  BY <1>1, <1>3, QuietOwned
<1> HIDE DEF y
<1>5. LabelsOwned(y, h)
  BY <1>2, <1>4, OwnedSame
<1>6. Len(y.locals) = Len(y.scopes) /\ Len(y.scopes) > 0
  BY <1>1, <1>2
<1> QED BY <1>2, <1>5, <1>6 DEF Good, y

LEMMA MergeInv == IInv /\ MergeNode => IInv'
<1> SUFFICES ASSUME IInv, MergeNode PROVE IInv'
  OBVIOUS
<1>1. goal = "merge"
  BY DEF MergeNode
<1>2. Good(ex, "merge") /\ ex \in Executors /\ "merge" \in Goals /\ Nested(ex, "merge")
      /\ ex.circuits = <<>> /\ Len(ex.scopes) > 1
  <2>1. Good(ex, "merge") /\ ex \in Executors /\ "merge" \in Goals /\ Nested(ex, "merge")
    BY <1>1, InvIs DEF Good, Goals
  <2> QED BY <2>1 DEF Nested, Merges
<1>3. CASE Cascades(ex) /\ Node(CloseIf(ex), "merge")
  <2>1. ex.branches # <<>> /\ Top(ex.branches).kind = "if"
        /\ Len(ex.scopes) = Top(ex.branches).depth + 1
    BY <1>3 DEF Cascades, IsLast
  <2>2. Len(ex.branches) > 0 /\ Len(ex.branches) \in DOMAIN ex.branches
    BY <2>1, <1>2, Fields, EmptySeq
  <2>3. Top(ex.branches).depth \in Nat
    <3>1. ex.branches[Len(ex.branches)] \in Contexts
      BY <1>2, <2>2, Fields, ElementOfSeq
    <3> QED BY <3>1 DEF Top, Contexts
  <2>4. Top(ex.branches).depth = Len(ex.scopes) - 1
    BY <2>1, <2>3
  <2>5. Good(CloseIf(ex), "merge")
    BY <1>2, <2>1, <2>2, <2>4, CloseIfGood
  <2> QED BY <1>2, <1>3, <2>5, Ended
<1>4. CASE /\ ~Cascades(ex)
           /\ \/ Node(PopScope([ex EXCEPT !.closed = "stmt"]), After(ex.closed))
              \/ Node(LeaveBehind(PopScope([ex EXCEPT !.closed = "stmt"])), After(ex.closed))
  <2> DEFINE x == [ex EXCEPT !.closed = "stmt"]
             y == PopScope(x)
             h == After(ex.closed)
  <2>1. ex.closed \in Uses0
    BY <1>2 DEF Executors
  <2>2. h \in Calm /\ h \in Goals
    BY <2>1, AfterCalm
  <2>3. Quiet(ex, x)
    BY <1>2, QuietFields DEF Uses0
  <2>4. Good(x, "merge") /\ x \in Executors
    BY <1>2, <2>3, GoodQuiet DEF Good
  <2>5. ~Cascades(x) /\ x.scopes = ex.scopes /\ x.circuits = <<>>
    <3>1. x.branches = ex.branches /\ x.scopes = ex.scopes /\ x.circuits = ex.circuits
      BY <1>2 DEF Executors
    <3> HIDE DEF x
    <3> QED BY <1>2, <1>4, <3>1 DEF Cascades, IsLast
  <2> HIDE DEF x, h
  <2>6. /\ y \in Executors /\ Len(y.scopes) = Len(x.scopes) - 1
        /\ y.branches = x.branches /\ y.circuits = x.circuits
    BY <1>2, <2>4, <2>5, PopScopeFacts DEF Good
  <2>7. Nested(y, h)
    <3>1. Nested(x, "merge")
      BY <2>4 DEF Good
    <3> HIDE DEF y
    <3> QED BY <2>2, <2>4, <2>5, <2>6, <3>1, NestedMergeEnd
  <2>8. SameArm(x, "merge", h)
    BY <2>2 DEF SameArm, Calm
  <2>9. Good(y, h)
    BY <1>2, <2>4, <2>5, <2>7, <2>8, GoodShrunk
  <2>10. Good(LeaveBehind(y), h)
    BY <2>9, GoodLeave
  <2> HIDE DEF y
  <2> QED BY <1>4, <2>2, <2>9, <2>10, Ended DEF y, x, h
<1> QED BY <1>3, <1>4 DEF MergeNode

\* A ternary that is returned from its second arm.
LEMMA LateGood ==
  ASSUME NEW x, Good(x, "telse"), x.returned
  PROVE  Good(LateTernary(x), "end") /\ LateTernary(x).circuits = <<>>
         /\ LateTernary(x).scopes = x.scopes
<1> DEFINE n == Len(x.branches)
           l == Label(Top(x.branches).end)
           i == Return(ReturnValue(x), ReturnClass(x))
           s == (IF x.nonUnit /\ Height(x) # 0 THEN <<i>> ELSE <<>>) \o <<l>>
           y == Popped(x, s)
<1>1. /\ n > 0 /\ n \in DOMAIN x.branches /\ x.branches[n].kind = "ternary"
      /\ x.circuits = <<>> /\ ~OwesElse(x, "telse", n)
      /\ x.branches # <<>> /\ Top(x.branches) = x.branches[n]
      /\ \A j \in 1..(n - 1) : x.branches[j].kind # "ternary"
  BY InTernary DEF TernaryGoals
<1>2. x \in Executors /\ LabelsOwned(x, "telse") /\ Nested(x, "telse")
      /\ Len(x.locals) = Len(x.scopes) /\ Len(x.scopes) > 0
  BY DEF Good
<1>3. LateTernary(x) = [Emit(x, s) EXCEPT !.branches = Pop(@)]
  BY <1>1 DEF LateTernary, IsLast
<1>4. i \in Plain /\ i \in Instructions
  BY <1>2, ReturnTyped DEF Plain
<1>5. l \in Instructions
  <2>1. Top(x.branches).end \in Nat
    BY <1>1, <1>2, TopLabels
  <2> QED BY <2>1, ControlInsns
<1>6. /\ \A r \in Plain : Ends(x, "telse", <<r, Label(Top(x.branches).end)>>)
      /\ Ends(x, "telse", <<Label(Top(x.branches).end)>>)
  BY <1>1, <1>2, EndsWith
<1>7. Ends(x, "telse", <<i, l>>) /\ Ends(x, "telse", <<l>>)
  <2> HIDE DEF i
  <2> QED BY <1>4, <1>6
<1> HIDE DEF i, l
<1>8. s = <<i, l>> \/ s = <<l>>
  <2>1. CASE x.nonUnit /\ Height(x) # 0
    <3>1. s = <<i>> \o <<l>>
      BY <2>1
    <3> QED BY <3>1, Pair
  <2>2. CASE ~(x.nonUnit /\ Height(x) # 0)
    <3>1. s = <<>> \o <<l>>
      BY <2>2
    <3> QED BY <3>1
  <2> QED BY <2>1, <2>2
<1>9. s \in Seq(Instructions) /\ Ends(x, "telse", s)
  <2>1. <<i, l>> \in Seq(Instructions) /\ <<l>> \in Seq(Instructions)
    BY <1>4, <1>5
  <2> HIDE DEF s
  <2> QED BY <2>1, <1>7, <1>8
<1> HIDE DEF s
<1>10. PopsTo(x, y) /\ y.code = x.code \o s
       /\ [Emit(x, s) EXCEPT !.branches = Pop(@)] = y
  BY <1>1, <1>2, <1>9, PopFacts
<1> HIDE DEF y
<1>11. LabelsOwned(y, "end")
  <2>1. \A j \in 1..(Len(x.branches) - 1) : x.branches[j].kind # "ternary"
    BY <1>1
  <2> QED BY <1>1, <1>2, <1>9, <1>10, <2>1, OwnedPop
<1>12. Nested(y, "end")
  BY <1>2, <1>10, NestedTernary DEF TernaryGoals, Calm
<1>13. y \in Executors /\ y.circuits = <<>> /\ y.scopes = x.scopes /\ Len(y.locals) = Len(x.locals)
  BY <1>1, <1>10 DEF PopsTo
<1>14. Good(y, "end")
  BY <1>2, <1>11, <1>12, <1>13 DEF Good
<1> QED BY <1>3, <1>10, <1>13, <1>14

LEMMA EndFunctionGood ==
  ASSUME NEW x, NEW g \in Calm \cup {"telse"}, Good(x, g), x.circuits = <<>>, Len(x.scopes) = 1
  PROVE  Good(EndFunction(x), "done")
<1> DEFINE w == LateTernary(x)
           y == CloseTernaries(w)
           z == EndFunction(x)
           i == Return(IF y.nonUnit THEN ReturnValue(y) ELSE <<>>, ReturnClass(y))
<1>1. Good(y, "end") /\ y.circuits = <<>> /\ y.scopes = x.scopes
  <2>1. CASE g = "telse" /\ x.returned
    <3>1. Good(w, "end") /\ w.circuits = <<>> /\ w.scopes = x.scopes
      BY <2>1, LateGood
    <3> HIDE DEF w
    <3>2. y = w
      BY <3>1, NoTernary DEF TernaryGoals
    <3> QED BY <3>1, <3>2
  <2>2. CASE g = "telse" /\ ~x.returned
    <3>1. w = x
      BY <2>2 DEF LateTernary
    <3> HIDE DEF w
    <3> QED BY <2>2, <3>1, TernaryCloses DEF Calm
  <2>3. CASE g # "telse"
    <3>1. g \in Calm /\ g \notin TernaryGoals
      BY <2>3 DEF Calm, TernaryGoals
    <3>2. w = x
      BY <3>1, NoTernary DEF LateTernary
    <3>3. y = x
      BY <3>1, <3>2, NoTernary
    <3>4. Quiet(x, x)
      BY QuietFields DEF Good
    <3>5. Good(x, "end")
      BY <3>1, <3>4, GoodQuiet DEF Calm
    <3> HIDE DEF y
    <3> QED BY <3>3, <3>5
  <2> QED BY <2>1, <2>2, <2>3
<1>2. z = y \/ z = Emit(y, <<i>>)
  BY DEF EndFunction
<1> HIDE DEF w, y
<1>3. y \in Executors /\ LabelsOwned(y, "end") /\ Nested(y, "end")
      /\ Len(y.locals) = Len(y.scopes) /\ Len(y.scopes) > 0
  BY <1>1 DEF Good
<1>4. i \in Plain
  BY <1>3, ReturnTyped
<1> HIDE DEF i, z
<1>5. Quiet(y, z)
  <2>1. <<i>> \in Seq(Plain)
    BY <1>4
  <2> QED BY <1>2, <1>3, <2>1, QuietFields, QuietEmit
<1>6. z \in Executors /\ Like(y, z) /\ z.circuits = <<>> /\ z.scopes = y.scopes
      /\ Len(z.locals) = Len(y.locals)
  <2>1. z \in Executors
    BY <1>5 DEF Quiet
  <2> QED BY <1>1, <1>3, <1>5, <2>1, QuietLike
<1>7. LabelsOwned(z, "done")
  BY <1>3, <1>5, QuietOwned DEF SameArm
<1>8. Nested(z, "done")
  BY <1>1, <1>3, <1>6, NestedDone DEF Calm
<1> QED BY <1>3, <1>6, <1>7, <1>8 DEF Good, z

LEMMA CloseLoopGood ==
  ASSUME NEW x, NEW g \in Calm, NEW h \in Calm, Good(x, g), x.circuits = <<>>,
         Len(x.branches) > 0, Len(x.scopes) > 1,
         Top(x.branches).depth = Len(x.scopes) - 1, Top(x.branches).kind \in {"while", "for"}
  PROVE  Good(PopScope(CloseLoop(x)), h)
<1> DEFINE n == Len(x.branches)
           b == Top(x.branches)
           y == IF b.kind = "for" THEN Increment(x, Counter(b)) ELSE x
           s == <<Jump(b.loop), Label(b.end)>>
           v == Popped(y, s)
           z == PopScope(v)
<1>1. x \in Executors /\ n \in DOMAIN x.branches /\ b = x.branches[n] /\ n \in Nat
  <2>1. x \in Executors
    BY DEF Good
  <2> QED BY <2>1, Fields DEF Top
<1>2. b \in Contexts
  BY <1>1, Fields, ElementOfSeq
<1>3. b.loop \in Nat /\ b.end \in Nat /\ b.var \in Names /\ b.idx \in Names
  BY <1>2 DEF Contexts
<1>4. Quiet(x, y) /\ y \in Executors
  <2>1. Counter(b) \in Names
    BY <1>3 DEF Counter
  <2>2. Quiet(x, y)
    BY <1>1, <2>1, QuietFields, QuietIncrement
  <2> QED BY <2>2 DEF Quiet
<1> HIDE DEF y
<1>5. Good(y, g) /\ y.circuits = <<>> /\ y.scopes = x.scopes /\ Len(y.branches) = n
  <2>1. Good(y, g)
    BY <1>4, GoodQuiet
  <2> QED BY <2>1, <1>4 DEF Quiet
<1>6. LabelsOwned(y, g) /\ Nested(y, g) /\ Len(y.locals) = Len(y.scopes)
  BY <1>5 DEF Good
<1>7. n \in DOMAIN y.branches /\ Top(y.branches) = y.branches[n]
  <2>1. DOMAIN y.branches = 1..n /\ DOMAIN x.branches = 1..n
    BY <1>1, <1>4, <1>5, Fields
  <2> QED BY <2>1, <1>1, <1>5 DEF Top
<1>8. /\ y.branches[n].kind = b.kind /\ y.branches[n].end = b.end /\ y.branches[n].loop = b.loop
      /\ y.branches[n].depth = b.depth
  <2>1. n \in 1..Len(x.branches)
    BY <1>1
  <2>2. Branchy(y.branches[n]) = Branchy(x.branches[n])
    BY <2>1, <1>4 DEF Quiet
  <2> QED BY <2>2, <1>1, BranchyFields
<1>9. ~OwesElse(y, g, n)
  BY <1>6, <1>7, <1>8 DEF Nested, Arms, OwesElse
<1>10. s \in Seq(Instructions) /\ Ends(y, g, s)
  <2>1. Jump(b.loop) \in Instructions /\ Label(b.end) \in Instructions
    BY <1>3, ControlInsns
  <2>2. Ends(y, g, <<Jump(Top(y.branches).loop), Label(Top(y.branches).end)>>)
    BY <1>4, <1>5, <1>6, <1>7, <1>8, <1>9, EndsWith
  <2> QED BY <2>1, <2>2, <1>7, <1>8
<1>11. CloseLoop(x) = v
  <2> HIDE DEF s
  <2>1. [Emit(y, s) EXCEPT !.branches = Pop(@)] = v
    BY <1>4, <1>5, <1>10, PopFacts
  <2> QED BY <2>1 DEF CloseLoop, y, s
<1> HIDE DEF s
<1>12. PopsTo(y, v) /\ v.code = y.code \o s
  BY <1>4, <1>5, <1>10, PopFacts
<1> HIDE DEF v
<1>13. LabelsOwned(v, h)
  <2>1. \A i \in 1..(Len(y.branches) - 1) : y.branches[i].kind # "ternary"
    <3>1. g \notin TernaryGoals
      BY DEF Calm, TernaryGoals
    <3>2. \A i \in 1..(Len(y.branches) - 1) : i \in DOMAIN y.branches
      BY <1>1, <1>4, <1>5, Fields
    <3> QED BY <1>5, <3>1, <3>2, NoTernary
  <2> QED BY <1>4, <1>5, <1>6, <1>10, <1>12, <2>1, OwnedPop
<1>14. /\ v \in Executors /\ v.circuits = <<>> /\ v.scopes = y.scopes
       /\ Len(v.locals) = Len(y.locals)
  BY <1>5, <1>12 DEF PopsTo
<1>15. /\ z \in Executors /\ Len(z.scopes) = Len(v.scopes) - 1
       /\ Len(z.locals) = Len(v.locals) - 1
       /\ z.code = v.code /\ z.branches = v.branches /\ z.circuits = v.circuits
       /\ z.label = v.label
  BY <1>5, <1>6, <1>14, PopScopeFacts
<1> HIDE DEF z
<1>16. LabelsOwned(z, h)
  BY <1>13, <1>15, OwnedSame
<1>17. Nested(z, h)
  <2>1. y.branches[Len(y.branches)].depth = Len(y.scopes) - 1
        /\ y.branches[Len(y.branches)].kind # "if"
    BY <1>5, <1>8
  <2> QED BY <1>4, <1>5, <1>6, <1>12, <1>14, <1>15, <2>1, NestedLoopEnd
<1>18. Len(z.locals) = Len(z.scopes) /\ Len(z.scopes) > 0
  <2>1. Len(x.scopes) \in Nat
    BY <1>1, Fields
  <2> QED BY <2>1, <1>5, <1>6, <1>14, <1>15
<1>19. Good(z, h)
  BY <1>15, <1>16, <1>17, <1>18 DEF Good
<1> QED BY <1>11, <1>19 DEF z

LEMMA RBraceInv == IInv /\ RBraceNode => IInv'
<1> SUFFICES ASSUME IInv, RBraceNode PROVE IInv'
  OBVIOUS
<1> DEFINE w == Settle(ex)
           a == FinalizeAssign(w)
           x == CheckReturn(a)
           b == Top(x.branches)
           y == IF b.use = "stmt" THEN LeaveBehind(x) ELSE x
<1>1. /\ BlockIsComplete
      /\ \/ InBody /\ Node(EndFunction(x), "done")
         \/ /\ ~InBody /\ b.kind = "if" /\ b.els # 0
            /\ Node(PopScope(y), "elsetok")
         \/ /\ ~InBody /\ Len(x.scopes) = b.depth + 1
            /\ IF b.kind = "if" THEN Node(CloseIf(y), "merge")
                                ELSE Node(PopScope(CloseLoop(y)), "stmt")
  BY DEF RBraceNode
<1>2. /\ goal \in Calm \cup {"telse"} /\ (goal = "telse" => InBody)
      /\ goal \in {"tail", "full"} => w.circuits = <<>>
  BY <1>1 DEF BlockIsComplete, IsWhole, Calm
<1>3. Good(w, goal) /\ w.scopes = ex.scopes
  BY InvIs, GoodSettle
<1> HIDE DEF w
<1>4. w.circuits = <<>> /\ w \in Executors
  <2>1. w \in Executors /\ Nested(w, goal)
    BY <1>3 DEF Good
  <2>2. goal \notin {"tail", "full"} => goal \notin {"cond", "tail", "full"}
    BY <1>2 DEF Calm
  <2>3. goal \notin {"cond", "tail", "full"} => w.circuits = <<>>
    BY <2>1 DEF Nested
  <2> QED BY <1>2, <2>1, <2>2, <2>3
<1>5. Quiet(w, a) /\ a \in Executors
  <2>1. Quiet(w, a)
    BY <1>4, QuietFinalizeAssign
  <2> QED BY <2>1 DEF Quiet
<1> HIDE DEF a
<1>6. Quiet(a, x)
  BY <1>5, QuietCheckReturn
<1>7. Quiet(w, x)
  BY <1>4, <1>5, <1>6, QuietTrans
<1> HIDE DEF x
<1>8. Good(x, goal) /\ x.circuits = <<>> /\ x.scopes = ex.scopes /\ x \in Executors
  <2>1. Good(x, goal)
    BY <1>3, <1>7, GoodQuiet
  <2> QED BY <2>1, <1>3, <1>4, <1>7 DEF Quiet
<1>9. CASE InBody /\ Node(EndFunction(x), "done")
  <2>1. Len(x.scopes) = 1
    BY <1>8, <1>9 DEF InBody
  <2>2. Good(EndFunction(x), "done") /\ "done" \in Goals
    BY <1>2, <1>8, <2>1, EndFunctionGood DEF Goals
  <2> QED BY <1>9, <2>2, Ended
<1>91. /\ Good(y, goal) /\ y.circuits = <<>> /\ y.scopes = ex.scopes /\ y \in Executors
       /\ b = Top(y.branches)
  BY <1>8, GoodLeave
<1> HIDE DEF y
<1>10. ASSUME ~InBody
       PROVE  /\ goal \in Calm /\ Len(y.scopes) > 1
              /\ Len(y.branches) > 0 /\ b = y.branches[Len(y.branches)]
              /\ b.depth = Len(y.scopes) - 1 /\ b.kind # "ternary" /\ b \in Contexts
  <2>1. goal \in Calm
    BY <1>2, <1>10
  <2>2. Len(y.scopes) > 1
    <3> DEFINE m == Len(y.scopes)
    <3>1. m \in Nat /\ m > 0
      BY <1>91, Fields DEF Good
    <3>2. m # 1
      BY <1>91, <1>10 DEF InBody
    <3> HIDE DEF m
    <3>3. m > 1
      BY <3>1, <3>2
    <3> QED BY <3>3 DEF m
  <2>3. Nested(y, goal)
    BY <1>91 DEF Good
  <2>4. /\ Len(y.branches) > 0 /\ Len(y.branches) \in DOMAIN y.branches
        /\ y.branches[Len(y.branches)].depth = Len(y.scopes) - 1
        /\ y.branches[Len(y.branches)].kind # "ternary"
    BY <1>91, <2>1, <2>2, <2>3, Innermost
  <2>5. y.branches[Len(y.branches)] \in Contexts
    BY <1>91, <2>4, Fields, ElementOfSeq
  <2> HIDE DEF b
  <2> QED BY <1>91, <2>1, <2>2, <2>4, <2>5 DEF Top
<1>11. CASE ~InBody /\ b.kind = "if" /\ b.els # 0 /\ Node(PopScope(y), "elsetok")
  <2> DEFINE z == PopScope(y)
  <2>1. Nested(z, "elsetok")
    <3>1. Nested(y, goal) /\ Len(y.locals) = Len(y.scopes)
      BY <1>91 DEF Good
    <3>2. /\ z \in Executors /\ Len(z.scopes) = Len(y.scopes) - 1
          /\ z.branches = y.branches /\ z.circuits = y.circuits
      BY <1>91, <1>10, <1>11, <3>1, PopScopeFacts
    <3> HIDE DEF z
    <3> QED BY <1>91, <1>10, <1>11, <3>1, <3>2, NestedLeave
  <2>2. SameArm(y, goal, "elsetok")
    BY <1>10, <1>11 DEF SameArm, Calm
  <2>3. Good(z, "elsetok") /\ "elsetok" \in Goals
    BY <1>91, <1>10, <1>11, <2>1, <2>2, GoodShrunk DEF Goals, Facing
  <2> QED BY <1>11, <2>3, Ended
<1>12. CASE ~InBody /\ b.kind = "if" /\ Node(CloseIf(y), "merge")
  <2>1. Good(CloseIf(y), "merge") /\ "merge" \in Goals
    BY <1>91, <1>10, <1>12, CloseIfGood DEF Goals
  <2> QED BY <1>12, <2>1, Ended
<1>13. CASE ~InBody /\ b.kind # "if" /\ Node(PopScope(CloseLoop(y)), "stmt")
  <2>1. b.kind \in {"while", "for"} /\ b.use \in Uses0
    BY <1>10, <1>13 DEF Contexts, Kinds
  <2>2. "stmt" \in Calm /\ "stmt" \in Goals
    BY DEF Calm, Goals
  <2>3. Good(PopScope(CloseLoop(y)), "stmt")
    BY <1>91, <1>10, <1>13, <2>1, <2>2, CloseLoopGood
  <2> QED BY <1>13, <2>2, <2>3, Ended
<1> QED BY <1>1, <1>9, <1>11, <1>12, <1>13

----------------------------------------------------------------------------
(* The theorems.                                                           *)

LEMMA InitInv == Init => IInv
<1> SUFFICES ASSUME Init PROVE IInv
  OBVIOUS
<1>1. PICK nonUnit \in BOOLEAN :
        ex = [code |-> <<FunDef>>, left |-> <<>>, values |-> <<>>, waiting |-> 0,
              value |-> 1, label |-> 1,
              branches |-> <<>>, scopes |-> <<Nothing>>, locals |-> <<{}>>,
              decl |-> Nothing, assign |-> Nothing, returning |-> FALSE,
              returned |-> FALSE, sinks |-> 0, circuits |-> <<>>,
              closed |-> "stmt", nonUnit |-> nonUnit]
  BY DEF Init
<1>2. goal = "stmt" /\ tokens = 0 /\ "stmt" \in Goals
  BY DEF Init, Goals
<1>3. FunDef \in Plain
  BY NamesTyped DEF FunDef, Insn, Plain, Instructions, Ops, Controls
<1>4. ex \in Executors
  <2>1. <<FunDef>> \in Seq(Instructions)
    BY <1>3 DEF Plain
  <2>2. <<Nothing>> \in Seq({Nothing} \cup Names) /\ <<{}>> \in Seq(SUBSET Names)
    OBVIOUS
  <2>3. <<>> \in Seq(Results) /\ <<>> \in Seq(Contexts) /\ <<>> \in Seq(Circuits)
    OBVIOUS
  <2>4. "stmt" \in Uses0 /\ 1 \in Nat \ {0} /\ 0 \in Nat
    BY DEF Uses0
  <2> HIDE DEF Nothing, FunDef
  <2> QED BY <1>1, <2>1, <2>2, <2>3, <2>4 DEF Executors
<1>5. /\ ex.branches = <<>> /\ ex.circuits = <<>> /\ ex.label = 1 /\ ex.code = <<FunDef>>
      /\ Len(ex.scopes) = 1 /\ Len(ex.locals) = 1
  BY <1>1
<1>6. DOMAIN ex.code = {1} /\ ex.code[1] = FunDef /\ FunDef.op \notin Controls
      /\ DOMAIN ex.branches = {} /\ DOMAIN ex.circuits = {} /\ Len(ex.branches) = 0
  BY <1>3, <1>5 DEF Plain
<1>7. LabelsOwned(ex, "stmt")
  <2>1. \A k \in DOMAIN ex.code : ex.code[k].op \notin {"label", "jump", "branch"}
    BY <1>6 DEF Controls
  <2>2. Jumps(ex) = {} /\ Loops(ex) = {} /\ 1..(ex.label - 1) = {}
    BY <1>5, <1>6, <2>1 DEF Jumps, Loops
  <2> QED BY <1>6, <2>1, <2>2 DEF LabelsOwned
<1>8. Nested(ex, "stmt")
  <2>1. Chains(ex) /\ Arms(ex)
    BY <1>6 DEF Chains, Arms
  <2>2. \A d \in 1..(Len(ex.scopes) - 1) : \E i \in DOMAIN ex.branches : ex.branches[i].depth = d
    BY <1>5
  <2> QED BY <1>4, <1>5, <1>6, <2>1, <2>2, NestedCalm DEF Calm
<1>9. 0 \in 0..MaxTokens
  BY LoweringAssumption
<1> QED BY <1>2, <1>4, <1>5, <1>7, <1>8, <1>9 DEF IInv, TypeOK

LEMMA NextInv == IInv /\ [Next]_lowering => IInv'
<1> SUFFICES ASSUME IInv, [Next]_lowering PROVE IInv'
  OBVIOUS
<1>1. CASE Operand
  BY <1>1, OperandInv
<1>2. CASE BinOpNode
  BY <1>2, BinOpInv
<1>3. CASE AndNode
  BY <1>3, AndInv
<1>4. CASE ReturnNode
  BY <1>4, ReturnInv
<1>5. CASE IfNode
  BY <1>5, IfInv
<1>6. CASE WhenNode
  BY <1>6, WhenInv
<1>7. CASE QuestionNode
  BY <1>7, QuestionInv
<1>8. CASE ColonNode
  BY <1>8, ColonInv
<1>9. CASE WhileNode
  BY <1>9, WhileInv
<1>10. CASE LBraceNode
  BY <1>10, LBraceInv
<1>11. CASE BreakNode
  BY <1>11, BreakInv
<1>12. CASE ContinueNode
  BY <1>12, ContinueInv
<1>13. CASE SemicolonNode
  BY <1>13, SemicolonInv
<1>14. CASE ElseNode
  BY <1>14, ElseInv
<1>15. CASE RBraceNode
  BY <1>15, RBraceInv
<1>16. CASE MergeNode
  BY <1>16, MergeInv
<1>17. CASE \E sig \in Signatures : CallNode(sig)
  BY <1>17, CallInv
<1>18. CASE \E v \in Vars : DeclNode(v)
  BY <1>18, DeclInv
<1>19. CASE \E v \in Vars : AssignNode(v)
  BY <1>19, AssignInv
<1>20. CASE \E v \in Vars : RangeNode(v)
  BY <1>20, RangeInv
<1>21. CASE \E v \in Vars : \E p \in Params : ArrayNode(v, p)
  BY <1>21, ArrayInv
<1>22. CASE UNCHANGED lowering
  BY <1>22 DEF lowering, IInv, TypeOK
<1> QED
  BY <1>1, <1>2, <1>3, <1>4, <1>5, <1>6, <1>7, <1>8, <1>9, <1>10, <1>11, <1>12,
     <1>13, <1>14, <1>15, <1>16, <1>17, <1>18, <1>19, <1>20, <1>21, <1>22
  DEF Next

\* Between any two handlers the executor is well typed, every label has one
\* owner at most and the open branches fit the open scopes.
THEOREM Invariant == Spec => []IInv
BY InitInv, NextInv, PTL DEF Spec

\* Whatever nodes the walk meets, the fields of the executor keep their types,
\* and there are as many lists of locals as scopes.
THEOREM TypeCorrect == Spec => []TypeOK
<1>1. IInv => TypeOK
  BY DEF IInv
<1> QED BY <1>1, Invariant, PTL

\* In the code of a finished function every jump has one label to land on,
\* however its branches were nested and closed.
THEOREM JumpsHaveTargets == Spec => []JumpsLand
<1>1. IInv => JumpsLand
  <2> SUFFICES ASSUME IInv, goal = "done", NEW k \in DOMAIN ex.code,
                      ex.code[k].op \in {"jump", "branch"}
               PROVE  Cardinality(Landings(ex.code, ex.code[k].target)) = 1
    BY DEF JumpsLand, Lowered, All
  <2> DEFINE l == ex.code[k].target
             L == Landings(ex.code, l)
  <2>1. ex \in Executors /\ LabelsOwned(ex, "done") /\ Nested(ex, "done")
    BY DEF IInv, TypeOK
  <2>2. ex.branches = <<>> /\ ex.circuits = <<>>
    BY <2>1 DEF Nested
  <2>3. DOMAIN ex.branches = {} /\ DOMAIN ex.circuits = {}
    BY <2>2
  <2>4. \A o : o \notin Debts(ex, "done", l)
    BY <2>3, DebtIs
  <2>5. Owners(ex, "done", l) # {}
    BY <2>1 DEF LabelsOwned, Jumps
  <2>6. l \in 1..(ex.label - 1)
    BY <2>1, <2>5, OwedInRange
  <2>7. \A o, p \in Owners(ex, "done", l) : o = p
    BY <2>1, <2>6 DEF LabelsOwned
  <2> HIDE DEF l
  <2>8. PICK o : o \in Owners(ex, "done", l)
    BY <2>5
  <2>9. PICK m \in L : o = <<"code", m>>
    BY <2>4, <2>8, OwnerIs
  <2>10. \A j \in L : j = m
    <3>1. TAKE j \in L
    <3>2. <<"code", j>> \in Owners(ex, "done", l) /\ <<"code", m>> \in Owners(ex, "done", l)
      BY <2>8, <2>9, OwnerIs
    <3>3. <<"code", j>> = <<"code", m>>
      BY <2>7, <3>2
    <3> QED BY <3>3
  <2>11. L = {m}
    BY <2>9, <2>10
  <2> QED BY <2>11, FS_Singleton DEF l
<1> QED BY <1>1, Invariant, PTL

----------------------------------------------------------------------------
(* What earlier blocks left, and what statements are for.                  *)

\* The fields that a step between two statements keeps.
Kept6 == {"left", "nonUnit", "returning", "decl", "assign", "scopes", "branches", "values"}
NoSinks(x) == \A i \in DOMAIN x.branches : x.branches[i].sink = Nothing
Kin(x, y) ==
  /\ DOMAIN y = DOMAIN x
  /\ y.left = x.left /\ y.nonUnit = x.nonUnit /\ y.returning = x.returning
  /\ y.decl = x.decl /\ y.assign = x.assign /\ y.scopes = x.scopes
  /\ NoSinks(x) => NoSinks(y)

LEMMA Shaped ==
  ASSUME NEW x \in Executors
  PROVE  Kept6 \subseteq DOMAIN x
BY DEF Executors, Kept6

LEMMA KinTrans ==
  ASSUME NEW x, NEW y, NEW z, Kin(x, y), Kin(y, z)
  PROVE  Kin(x, z)
BY DEF Kin

LEMMA KinPlain ==
  ASSUME NEW x, Kept6 \subseteq DOMAIN x, NEW v
  PROVE  /\ Kin(x, x)
         /\ Kin(x, [x EXCEPT !.code = v]) /\ [x EXCEPT !.code = v].branches = x.branches
         /\ Kin(x, [x EXCEPT !.value = v]) /\ [x EXCEPT !.value = v].branches = x.branches
         /\ Kin(x, [x EXCEPT !.label = v]) /\ [x EXCEPT !.label = v].branches = x.branches
         /\ Kin(x, [x EXCEPT !.values = v]) /\ [x EXCEPT !.values = v].branches = x.branches
         /\ Kin(x, [x EXCEPT !.sinks = v]) /\ [x EXCEPT !.sinks = v].branches = x.branches
         /\ Kin(x, [x EXCEPT !.circuits = v]) /\ [x EXCEPT !.circuits = v].branches = x.branches
         /\ Kin(x, [x EXCEPT !.locals = v]) /\ [x EXCEPT !.locals = v].branches = x.branches
         /\ Kin(x, [x EXCEPT !.closed = v]) /\ [x EXCEPT !.closed = v].branches = x.branches
         /\ Kin(x, [x EXCEPT !.waiting = v]) /\ [x EXCEPT !.waiting = v].branches = x.branches
         /\ Kin(x, [x EXCEPT !.returned = v]) /\ [x EXCEPT !.returned = v].branches = x.branches
BY DEF Kin, NoSinks, Kept6

LEMMA KinOps ==
  ASSUME NEW x, Kept6 \subseteq DOMAIN x, NEW v, NEW c
  PROVE  /\ Kin(x, Emit(x, v)) /\ Emit(x, v).branches = x.branches
         /\ Kin(x, PopValues(x, v)) /\ PopValues(x, v).branches = x.branches
         /\ Kin(x, Push(x, v, c)) /\ Push(x, v, c).branches = x.branches
         /\ Kin(x, NewValues(x, v)) /\ NewValues(x, v).branches = x.branches
         /\ Kin(x, NewLabels(x, v)) /\ NewLabels(x, v).branches = x.branches
         /\ Kin(x, Declare(x, v)) /\ Declare(x, v).branches = x.branches
BY KinPlain DEF Emit, PopValues, Push, NewValues, NewLabels, Declare

LEMMA KinShaped ==
  ASSUME NEW x, NEW y, Kept6 \subseteq DOMAIN x, Kin(x, y)
  PROVE  Kept6 \subseteq DOMAIN y
BY DEF Kin

LEMMA KinProduce ==
  ASSUME NEW x, Kept6 \subseteq DOMAIN x, NEW i
  PROVE  Kin(x, Produce(x, i)) /\ Produce(x, i).branches = x.branches
<1> DEFINE e == Emit(x, <<i>>)
           n == NewValues(e, 1)
<1>1. Kin(x, e) /\ e.branches = x.branches /\ Kept6 \subseteq DOMAIN e
  BY KinOps, KinShaped
<1> HIDE DEF e
<1>2. Kin(e, n) /\ n.branches = e.branches /\ Kept6 \subseteq DOMAIN n
  BY <1>1, KinOps, KinShaped
<1> HIDE DEF n
<1>3. Kin(n, Push(n, i.dst, i.cls)) /\ Push(n, i.dst, i.cls).branches = n.branches
  BY <1>2, KinOps
<1>4. Produce(x, i) = Push(n, i.dst, i.cls)
  BY DEF Produce, n, e
<1> QED BY <1>1, <1>2, <1>3, <1>4, KinTrans

LEMMA KinSettle ==
  ASSUME NEW x, Kept6 \subseteq DOMAIN x
  PROVE  Kin(x, Settle(x)) /\ Settle(x).branches = x.branches
<1> DEFINE c == Top(x.circuits)
           p == PopValues(x, 1)
           q == [p EXCEPT !.circuits = Pop(@)]
           e == Emit(q, <<Store(c.sink, Top(x.values).id), Label(c.end)>>)
           z == Produce(e, Load(x.value, c.sink))
<1>1. Kin(x, p) /\ p.branches = x.branches /\ Kept6 \subseteq DOMAIN p
  BY KinOps, KinShaped
<1> HIDE DEF p
<1>2. Kin(p, q) /\ q.branches = p.branches /\ Kept6 \subseteq DOMAIN q
  BY <1>1, KinPlain, KinShaped
<1> HIDE DEF q
<1>3. Kin(q, e) /\ e.branches = q.branches /\ Kept6 \subseteq DOMAIN e
  BY <1>2, KinOps, KinShaped
<1> HIDE DEF e
<1>4. Kin(e, z) /\ z.branches = e.branches
  BY <1>3, KinProduce
<1> HIDE DEF z
<1>5. Kin(x, z) /\ z.branches = x.branches
  BY <1>1, <1>2, <1>3, <1>4, KinTrans
<1>6. Settle(x) = x \/ Settle(x) = z
  BY DEF Settle, z, e, q, p
<1> QED BY <1>5, <1>6, KinPlain

LEMMA KinIncrement ==
  ASSUME NEW x, Kept6 \subseteq DOMAIN x, NEW v
  PROVE  Kin(x, Increment(x, v)) /\ Increment(x, v).branches = x.branches
<1> DEFINE s == <<Load(x.value, v), Const(x.value + 1, "gp"),
                  BinOp(x.value + 2, x.value, x.value + 1, "gp"), Store(v, x.value + 2)>>
           e == Emit(x, s)
<1>1. Kin(x, e) /\ e.branches = x.branches /\ Kept6 \subseteq DOMAIN e
  BY KinOps, KinShaped
<1> HIDE DEF e
<1>2. Kin(e, NewValues(e, 3)) /\ NewValues(e, 3).branches = e.branches
  BY <1>1, KinOps
<1>3. Increment(x, v) = NewValues(e, 3)
  BY DEF Increment, e
<1> QED BY <1>1, <1>2, <1>3, KinTrans

\* A value is taken: from below only if none is above.
LEMMA DropKeeps ==
  ASSUME NEW x, Kept6 \subseteq DOMAIN x
  PROVE  /\ x.values # <<>> \/ x.left = <<>> => Kin(x, Drop(x))
         /\ Drop(x).branches = x.branches
<1>1. CASE x.values # <<>>
  BY <1>1, KinOps DEF Drop
<1>2. CASE x.values = <<>> /\ x.left = <<>>
  BY <1>2, KinPlain DEF Drop
<1>3. CASE x.values = <<>> /\ x.left # <<>>
  <2>1. Drop(x) = [x EXCEPT !.left = Pop(@)]
    BY <1>3 DEF Drop
  <2> QED BY <1>3, <2>1 DEF Kept6
<1> QED BY <1>1, <1>2, <1>3

LEMMA KinStore ==
  ASSUME NEW x, Kept6 \subseteq DOMAIN x, NEW i \in DOMAIN x.branches,
         x.left = <<>> \/ NoSinks(x)
  PROVE  Kin(x, SinkStore(x, i))
<1>1. CASE x.branches[i].sink = Nothing
  BY <1>1, KinPlain DEF SinkStore
<1>2. CASE x.branches[i].sink # Nothing
  <2> DEFINE c == IF x.branches[i].stored = "none" THEN LastValue(x).cls ELSE x.branches[i].stored
             y == [x EXCEPT !.branches[i].stored = c]
             z == Emit(y, <<Store(SinkVar(y.branches[i]), LastValue(x).id)>>)
  <2>1. ~NoSinks(x) /\ x.left = <<>>
    BY <1>2 DEF NoSinks
  <2> HIDE DEF c
  <2>2. Kin(x, y) /\ Kept6 \subseteq DOMAIN y
    BY <2>1 DEF Kin, Kept6
  <2> HIDE DEF y
  <2>3. Kin(y, z) /\ Kept6 \subseteq DOMAIN z
    BY <2>2, KinOps, KinShaped
  <2> HIDE DEF z
  <2>4. Kin(z, Drop(z))
    <3>1. z.left = <<>>
      BY <2>1, <2>2, <2>3 DEF Kin
    <3> QED BY <2>3, <3>1, DropKeeps
  <2>5. SinkStore(x, i) = x \/ SinkStore(x, i) = Drop(z)
    BY DEF SinkStore, z, y, c, Kept6
  <2> QED BY <2>2, <2>3, <2>4, <2>5, KinTrans, KinPlain
<1> QED BY <1>1, <1>2

\* Nothing around the walk waits for a value.
Spare(x) ==
  /\ NoSinks(x) /\ ~x.nonUnit /\ ~x.returning
  /\ \A d \in DOMAIN x.scopes : x.scopes[d] = Nothing

LEMMA SpareIs ==
  ASSUME NEW x \in Executors
  PROVE  /\ Unasked([x EXCEPT !.decl = Nothing]) <=> Spare(x)
         /\ Unasked(x) <=> Spare(x) /\ x.decl = Nothing
<1> DEFINE y == [x EXCEPT !.decl = Nothing]
<1>1. /\ y.decl = Nothing /\ y.branches = x.branches /\ y.nonUnit = x.nonUnit
      /\ y.returning = x.returning /\ y.scopes = x.scopes
  BY DEF Executors
<1> HIDE DEF y
<1>2. Unasked(y) <=> Spare(x)
  BY <1>1 DEF Unasked, HasSink, Spare, NoSinks
<1>3. Unasked(x) <=> Spare(x) /\ x.decl = Nothing
  BY DEF Unasked, HasSink, Spare, NoSinks
<1> QED BY <1>2, <1>3 DEF y

\* LeftAlone in these terms.
LEMMA LeftIs ==
  ASSUME NEW x \in Executors, NEW g
  PROVE  LeftAlone(x, g) <=>
           /\ g \in {"elsetok", "merge"} => x.assign = Nothing /\ ~x.returning
           /\ g = "tail" => Asked(x, Len(x.scopes)) \/ (Spare(x) /\ x.decl = Nothing)
           /\ x.left # <<>> /\ g # "done" =>
                /\ Spare(x)
                /\ x.decl # Nothing => x.assign = Nothing
                /\ x.decl # Nothing \/ x.assign # Nothing => g = "full"
BY SpareIs DEF LeftAlone

LEMMA KinSpare ==
  ASSUME NEW x, NEW y, Kin(x, y), Spare(x)
  PROVE  Spare(y)
BY DEF Kin, Spare

\* Where a sink is open nothing is left.
LEMMA SinkAlone ==
  ASSUME NEW x \in Executors, NEW g, LeftAlone(x, g), g # "done",
         NEW i \in DOMAIN x.branches, x.branches[i].sink # Nothing
  PROVE  x.left = <<>>
BY LeftIs DEF Spare, NoSinks

\* A step that keeps what statements are for.
LEMMA LeftKin ==
  ASSUME NEW x \in Executors, NEW y \in Executors, NEW g, NEW h, LeftAlone(x, g), Kin(x, y),
         g # "done", h # "tail",
         h \in {"elsetok", "merge"} => x.assign = Nothing /\ ~x.returning,
         g = "full" => h = "full" \/ (x.decl = Nothing /\ x.assign = Nothing)
  PROVE  LeftAlone(y, h)
<1>1. Spare(x) => Spare(y)
  BY KinSpare
<1>2. y.left = x.left /\ y.decl = x.decl /\ y.assign = x.assign /\ y.returning = x.returning
  BY DEF Kin
<1> HIDE DEF Kin
<1>3. ASSUME y.left # <<>>
      PROVE  /\ Spare(y)
             /\ y.decl # Nothing => y.assign = Nothing
             /\ y.decl # Nothing \/ y.assign # Nothing => h = "full"
  <2>1. /\ Spare(x) /\ (x.decl # Nothing => x.assign = Nothing)
        /\ x.decl # Nothing \/ x.assign # Nothing => g = "full"
    BY <1>2, <1>3, LeftIs
  <2> QED BY <2>1, <1>1, <1>2
<1> QED BY <1>2, <1>3, LeftIs

\* A step after which no more is left, nor waits.
Spares(x, y) ==
  /\ DOMAIN y = DOMAIN x /\ y.scopes = x.scopes
  /\ y.left # <<>> => x.left # <<>>
  /\ Spare(x) => Spare(y)

LEMMA SparesTrans ==
  ASSUME NEW x, NEW y, NEW z, Spares(x, y), Spares(y, z)
  PROVE  Spares(x, z)
BY DEF Spares

LEMMA KinSpares ==
  ASSUME NEW x, NEW y, Kin(x, y)
  PROVE  Spares(x, y)
<1>1. Spare(x) => Spare(y)
  BY KinSpare
<1> QED BY <1>1 DEF Spares, Kin

LEMMA DropSpares ==
  ASSUME NEW x \in Executors
  PROVE  LET y == Drop(x)
         IN  Spares(x, y) /\ y.decl = x.decl /\ y.assign = x.assign /\ y.returning = x.returning
             /\ (x.values # <<>> => y.left = x.left)
<1>1. CASE x.values # <<>> \/ x.left = <<>>
  BY <1>1, Shaped, DropKeeps, KinSpares DEF Kin
<1>2. CASE x.values = <<>> /\ x.left # <<>>
  <2>1. Drop(x) = [x EXCEPT !.left = Pop(@)]
    BY <1>2 DEF Drop
  <2> QED BY <1>2, <2>1 DEF Executors, Spares, Spare, NoSinks
<1> QED BY <1>1, <1>2

LEMMA FieldSpares ==
  ASSUME NEW x \in Executors
  PROVE  /\ \A v : Spares(x, [x EXCEPT !.decl = v]) /\ Spares(x, [x EXCEPT !.assign = v])
         /\ Spares(x, [x EXCEPT !.returning = FALSE])
BY DEF Executors, Spares, Spare, NoSinks

\* The ends of statements.
LEMMA AssignSpares ==
  ASSUME NEW x \in Executors
  PROVE  LET y == FinalizeAssign(x)
         IN  Spares(x, y) /\ y.decl = x.decl /\ y.assign = Nothing /\ y.returning = x.returning
<1> DEFINE w == [x EXCEPT !.assign = Nothing]
           z == Emit(w, <<Store(x.assign, LastValue(x).id)>>)
           y == FinalizeAssign(x)
<1>1. /\ Quiet(x, w) /\ w \in Executors /\ Spares(x, w) /\ w.decl = x.decl
      /\ w.assign = Nothing /\ w.returning = x.returning
  <2>1. Quiet(x, w)
    BY QuietFields
  <2>2. Spares(x, w)
    BY FieldSpares
  <2> QED BY <2>1, <2>2 DEF Quiet, Executors
<1>2. CASE y = w
  <2> HIDE DEF w, y
  <2> QED BY <1>1, <1>2 DEF y
<1>3. CASE y # w
  <2>1. x.assign # Nothing /\ Height(x) # 0 /\ y = Drop(z)
    BY <1>3 DEF FinalizeAssign
  <2>2. <<Store(x.assign, LastValue(x).id)>> \in Seq(Plain)
    <3>1. x.assign \in Names /\ LastValue(x).id \in Nat
      BY <2>1, Fields, LastTyped
    <3>2. Store(x.assign, LastValue(x).id) \in Plain
      BY <3>1, PlainInsns
    <3> QED BY <3>2
  <2> HIDE DEF w, y
  <2>3. Quiet(w, z)
    BY <1>1, <2>2, QuietEmit
  <2>4. z \in Executors /\ Kin(w, z)
    BY <1>1, <2>3, Shaped, KinOps DEF Quiet
  <2> HIDE DEF z
  <2>5. Spares(z, y) /\ y.decl = z.decl /\ y.assign = z.assign /\ y.returning = z.returning
    BY <2>1, <2>4, DropSpares
  <2> QED BY <1>1, <2>4, <2>5, KinSpares, SparesTrans DEF Kin, y
<1> QED BY <1>2, <1>3

LEMMA DeclSpares ==
  ASSUME NEW x \in Executors
  PROVE  LET y == FinalizeDecl(x)
         IN  Spares(x, y) /\ y.decl = Nothing /\ y.assign = x.assign /\ y.returning = x.returning
<1> DEFINE v == x.decl
           id == LastValue(x).id
           w == [x EXCEPT !.decl = Nothing]
           s == <<VarDef(v, <<id>>), Store(v, id)>>
           z == Emit(w, s)
           d == Drop(z)
           y == FinalizeDecl(x)
<1>1. /\ Quiet(x, w) /\ w \in Executors /\ Spares(x, w) /\ w.decl = Nothing
      /\ w.assign = x.assign /\ w.returning = x.returning
  <2>1. Quiet(x, w)
    BY QuietFields
  <2>2. Spares(x, w)
    BY FieldSpares
  <2> QED BY <2>1, <2>2 DEF Quiet, Executors
<1>2. CASE y = w
  <2> HIDE DEF w, y
  <2> QED BY <1>1, <1>2 DEF y
<1>3. CASE y # w
  <2>1. v # Nothing /\ Height(x) # 0 /\ y = Declare(d, v)
    BY <1>3 DEF FinalizeDecl
  <2>2. s \in Seq(Plain)
    <3>1. v \in Names /\ id \in Nat
      BY <2>1, Fields, LastTyped
    <3>2. Store(v, id) \in Plain /\ VarDef(v, <<id>>) \in Plain
      BY <3>1, PlainInsns
    <3> QED BY <3>2
  <2> HIDE DEF w, y, s, v
  <2>3. Quiet(w, z)
    BY <1>1, <2>2, QuietEmit
  <2>4. z \in Executors /\ Kin(w, z)
    BY <1>1, <2>3, Shaped, KinOps DEF Quiet
  <2> HIDE DEF z
  <2>5. Spares(z, d) /\ d.decl = z.decl /\ d.assign = z.assign /\ d.returning = z.returning
        /\ d \in Executors
    BY <2>4, DropSpares, QuietDrop DEF Quiet
  <2> HIDE DEF d
  <2>6. Kin(d, y)
    BY <2>1, <2>5, Shaped, KinOps
  <2> QED BY <1>1, <2>4, <2>5, <2>6, KinSpares, SparesTrans DEF Kin, y
<1> QED BY <1>2, <1>3

LEMMA ReturnSpares ==
  ASSUME NEW x \in Executors
  PROVE  LET y == CheckReturn(x)
         IN  Spares(x, y) /\ y.decl = x.decl /\ y.assign = x.assign /\ ~y.returning
<1> DEFINE s == <<Return(ReturnValue(x), ReturnClass(x))>>
           e == Emit(x, s)
           d == Drop(e)
           y == CheckReturn(x)
<1>1. CASE ~x.returning
  <2> HIDE DEF s, e, d
  <2>1. y = x
    <3>1. [x EXCEPT !.returning = FALSE] = x
      BY <1>1 DEF Executors
    <3> QED BY <1>1, <3>1 DEF CheckReturn
  <2>2. Spares(x, x)
    BY Shaped, KinPlain, KinSpares
  <2> HIDE DEF y
  <2> QED BY <1>1, <2>1, <2>2 DEF y
<1>2. CASE x.returning /\ IsLast(x, "ternary")
  <2>1. y = [x EXCEPT !.returning = FALSE]
    BY <1>2 DEF CheckReturn
  <2> QED BY <2>1, FieldSpares DEF Executors
<1>3. CASE x.returning /\ ~IsLast(x, "ternary")
  <2>1. y = [d EXCEPT !.returning = FALSE]
    BY <1>3 DEF CheckReturn
  <2>2. s \in Seq(Plain)
    BY ReturnTyped
  <2> HIDE DEF s, y
  <2>3. Quiet(x, e)
    BY <2>2, QuietEmit
  <2>4. e \in Executors /\ Kin(x, e)
    BY <2>3, Shaped, KinOps DEF Quiet
  <2> HIDE DEF e
  <2>5. Spares(e, d) /\ d.decl = e.decl /\ d.assign = e.assign /\ d \in Executors
    BY <2>4, DropSpares, QuietDrop DEF Quiet
  <2> HIDE DEF d
  <2>6. Spares(d, y) /\ y.decl = d.decl /\ y.assign = d.assign /\ ~y.returning
    BY <2>1, <2>5, FieldSpares DEF Executors
  <2> QED BY <2>4, <2>5, <2>6, KinSpares, SparesTrans DEF Kin, y
<1> QED BY <1>1, <1>2, <1>3

\* The ends of branches.
LEMMA KinCloseArm ==
  ASSUME NEW x \in Executors, Len(x.branches) > 0, x.left = <<>> \/ NoSinks(x), NEW s
  PROVE  Kin(x, CloseArm(x, s))
<1> DEFINE n == Len(x.branches)
           w == SinkStore(x, n)
           b == Top(w.branches)
           q == [w EXCEPT !.branches = Pop(@)]
           p == Emit(q, s)
           z == Produce(p, Load(p.value, SinkVar(b)))
<1>1. n \in DOMAIN x.branches
  BY Fields
<1>2. Kin(x, w)
  BY <1>1, Shaped, KinStore
<1>3. w \in Executors /\ Len(w.branches) > 0
  <2>1. Quiet(x, w)
    BY <1>1, QuietSinkStore
  <2> QED BY <2>1, QuietLike, LikeFields DEF Quiet
<1> HIDE DEF w
<1>4. Kin(w, q) /\ Kept6 \subseteq DOMAIN q
  <2> DEFINE t == Pop(w.branches)
  <2>1. \A i \in DOMAIN t : i \in DOMAIN w.branches /\ t[i] = w.branches[i]
    BY <1>3, Fields, SubSeqProperties DEF Pop
  <2>2. q = [w EXCEPT !.branches = t]
    OBVIOUS
  <2> HIDE DEF t
  <2> QED BY <1>3, <2>1, <2>2 DEF Kin, NoSinks, Executors, Kept6
<1> HIDE DEF q
<1>5. Kin(q, p) /\ Kept6 \subseteq DOMAIN p
  BY <1>4, KinOps, KinShaped
<1>6. CloseArm(x, s) = p \/ CloseArm(x, s) = z
  BY DEF CloseArm, SinkLoad, w, q
<1> HIDE DEF p
<1>7. Kin(p, z)
  BY <1>5, KinProduce
<1> HIDE DEF z
<1> QED BY <1>2, <1>4, <1>5, <1>6, <1>7, KinTrans

LEMMA KinCloseIf ==
  ASSUME NEW x \in Executors, Len(x.branches) > 0, x.left = <<>> \/ NoSinks(x)
  PROVE  Kin(x, CloseIf(x))
<1> DEFINE b == Top(x.branches)
           s == (IF b.els # 0 THEN <<Label(b.els)>> ELSE <<>>) \o <<Label(b.end)>>
           y == CloseArm(x, s)
<1> HIDE DEF s
<1>1. Kin(x, y)
  BY KinCloseArm
<1>2. CloseIf(x) = [y EXCEPT !.closed = b.use]
  BY DEF CloseIf, s
<1> HIDE DEF y
<1>3. Kin(y, [y EXCEPT !.closed = b.use])
  BY <1>1, Shaped, KinShaped, KinPlain
<1> QED BY <1>1, <1>2, <1>3, KinTrans

LEMMA KinTernaries ==
  ASSUME NEW x \in Executors, Len(x.branches) > 0, x.left = <<>> \/ NoSinks(x)
  PROVE  Kin(x, CloseTernaries(x))
BY KinCloseArm, Shaped, KinPlain DEF CloseTernaries

LEMMA KinCloseLoop ==
  ASSUME NEW x \in Executors, Len(x.branches) > 0, Increment(x, Counter(Top(x.branches))) \in Executors
  PROVE  Kin(x, CloseLoop(x))
<1> DEFINE b == Top(x.branches)
           y == IF b.kind = "for" THEN Increment(x, Counter(b)) ELSE x
           s == <<Jump(b.loop), Label(b.end)>>
           e == Emit(y, s)
           z == [e EXCEPT !.branches = Pop(@)]
<1>1. Kin(x, y) /\ y.branches = x.branches /\ y \in Executors
  BY Shaped, KinIncrement, KinPlain
<1> HIDE DEF y
<1>2. Kin(y, e) /\ e.branches = x.branches /\ Kept6 \subseteq DOMAIN e
  BY <1>1, Shaped, KinOps, KinShaped
<1> HIDE DEF e
<1>3. Kin(e, z)
  <2> DEFINE t == Pop(e.branches)
  <2>1. \A i \in DOMAIN t : i \in DOMAIN e.branches /\ t[i] = e.branches[i]
    BY <1>2, Fields, SubSeqProperties DEF Pop
  <2>2. z = [e EXCEPT !.branches = t]
    OBVIOUS
  <2> HIDE DEF t
  <2> QED BY <1>2, <2>1, <2>2 DEF Kin, NoSinks, Kept6
<1>4. CloseLoop(x) = z
  BY DEF CloseLoop, z, e, y
<1> QED BY <1>1, <1>2, <1>3, <1>4, KinTrans

\* The scope that a block opened is left.
LEMMA PopSpares ==
  ASSUME NEW x \in Executors, Len(x.scopes) > 1
  PROVE  LET y == PopScope(x)
         IN  /\ y.left = x.left /\ y.assign = x.assign /\ y.returning = x.returning
             /\ y.values = x.values
             /\ Spare(x) /\ x.decl = Nothing => Spare(y) /\ y.decl = Nothing
<1> DEFINE y == PopScope(x)
           t == Pop(x.scopes)
<1>1. /\ y.left = x.left /\ y.assign = x.assign /\ y.returning = x.returning
      /\ y.nonUnit = x.nonUnit /\ y.branches = x.branches /\ y.scopes = t
      /\ y.values = x.values /\ (x.decl = Nothing => y.decl = Top(x.scopes))
  BY DEF PopScope, Executors
<1>2. \A i \in DOMAIN t : i \in DOMAIN x.scopes /\ t[i] = x.scopes[i]
  BY Fields, SubSeqProperties DEF Pop
<1>3. Len(x.scopes) \in DOMAIN x.scopes
  BY Fields
<1> HIDE DEF t
<1> QED BY <1>1, <1>2, <1>3 DEF Spare, NoSinks, Top
=============================================================================
