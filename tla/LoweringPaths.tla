--------------------------- MODULE LoweringPaths ---------------------------
(***************************************************************************)
(* What holds on every path through the code of a lowered function.        *)
(***************************************************************************)
EXTENDS Lowering, Paths

\* A value is computed on every path to an instruction that reads it: what
\* an arm leaves on the stack of values never leaks to another arm or past
\* the end of the branch.
\* (Between a definition and a use with no label in between control can only
\* come from the definition.)
DefsDominateUses ==
  Lowered => LET succs == Succs(ex.code) IN
    \A i \in All : \A v \in Uses(ex.code[i]) :
      \/ \E d \in 1..(i - 1) : /\ v \in Defines(ex.code[i - d])
                             /\ \A k \in (i - d)..i : ex.code[k].op # "label"
      \/ i \notin Reached(succs, 1, {j \in All : v \notin Defines(ex.code[j])})

\* A variable the compiler made is stored to on every path to where it is
\* loaded: each arm of a branch that can reach its end stores its value first.
SinksAreAssigned ==
  Lowered => LET succs == Succs(ex.code) IN
    \A v \in {ex.code[i].var : i \in {j \in All : ex.code[j].op = "load"}} : v.of \notin {"param", "user"} =>
      \A i \in Reached(succs, 1, {j \in All : ~(ex.code[j].op = "store" /\ ex.code[j].var = v)}) :
        ~(ex.code[i].op = "load" /\ ex.code[i].var = v)

\* The counter of the `for` whose loop starts at label h of the code c.
CountedIn(c, h) ==
  LET at(k) == c[h - k]
  IN  CASE at(1).op = "store" /\ at(1).var.of = "end" -> {at(3).var}
        [] at(1).op = "vardef" /\ at(2).var.of = "idx" -> {at(2).var}
        [] OTHER -> {}
Counted(h) == CountedIn(ex.code, h)

\* Whoever goes round a counted loop passes an increment of its counter, by
\* the end of the body or by a `continue` (BranchCtx: the element of an array
\* loop "must not be incremented").
LoopsAdvance ==
  Lowered => LET succs == Succs(ex.code) IN
    \A h \in All : \A v \in IF ex.code[h].op = "label" /\ h > 3 THEN Counted(h) ELSE {} :
      h \notin Reached(succs, h + 1, {j \in All \ {h} : ~(ex.code[j].op = "store" /\ ex.code[j].var = v)})

----------------------------------------------------------------------------
(* The inductive invariant of the proofs, beside that of Lowering: where   *)
(* values wait, for what, and that nothing but their definitions leads to  *)
(* their uses.                                                             *)

\* Branches met for a value, as ternaries are, have a sink to put it in;
\* nothing is stored for the others.  No value waits below one with a sink.
Sinks(x) ==
  \A i \in DOMAIN x.branches :
    /\ x.branches[i].sink # Nothing => x.branches[i].entry = 0
    /\ x.branches[i].use = "stmt" => x.branches[i].stored = "none"
    /\ x.branches[i].use # "stmt" => /\ x.branches[i].sink # Nothing
                                    /\ x.branches[i].kind \in {"if", "ternary"}
    /\ x.branches[i].kind = "ternary" => x.branches[i].use # "stmt"

\* An if and those in its `else` are met for the same.
SameUse(x) ==
  \A i, j \in DOMAIN x.branches :
    x.branches[i].depth = x.branches[j].depth => x.branches[i].use = x.branches[j].use

\* A value can end the block in the d-th scope: it is an arm met for one.
Asked(x, d) ==
  \A i \in DOMAIN x.branches : x.branches[i].depth = d - 1 => x.branches[i].use # "stmt"
Tails(x, g) ==
  /\ \A i \in DOMAIN x.branches : x.branches[i].use = "tail" => Asked(x, x.branches[i].depth)
  /\ g = "close" => Asked(x, Len(x.scopes))
  /\ g = "merge" /\ x.closed = "tail" => Asked(x, Len(x.scopes) - 1)
  /\ g = "merge" => \A i \in DOMAIN x.branches :
                      x.branches[i].depth = Len(x.scopes) - 1 => x.branches[i].use = x.closed

\* How many values may wait between two nodes.
Heights(x, g) ==
  /\ g \in {"stmt", "open", "else"} => x.values = <<>>
  /\ g \in {"end", "close", "elsetok", "merge"} => Len(x.values) <= 1
  /\ g = "elsetok" /\ x.values # <<>> => Top(x.branches).use # "stmt"
  /\ g = "merge" /\ x.values # <<>> => x.closed # "stmt"
  /\ g \in TernaryGoals /\ x.returned => Top(x.branches).use # "tail"

\* Control comes to what stands after d, up to i, only from there or past d.
OpenLoops(x) == {x.branches[i].loop : i \in Loops(x)}
Sealed(x, d, i) ==
  \A k \in (d + 1)..i : x.code[k].op = "label" =>
    /\ \A j \in Jumps(x) : x.code[j].target = x.code[k].target => j \in (d + 1)..i
    /\ x.code[k].target \notin OpenLoops(x)

\* What is read has been computed; what waits has been, and will have been at
\* the end of a circuit that has been opened above it.
UsesDefined(x) ==
  \A i \in DOMAIN x.code : \A v \in Uses(x.code[i]) :
    \E d \in 1..(i - 1) : v \in Defines(x.code[d]) /\ Sealed(x, d, i)
Outlasts(x, m, d) ==
  \A c \in DOMAIN x.circuits : m <= x.circuits[c].before =>
    \A j \in Jumps(x) : x.code[j].target = x.circuits[c].end => d < j
ValuesDefined(x) ==
  \A m \in DOMAIN x.values : \E d \in DOMAIN x.code :
    x.values[m].id \in Defines(x.code[d]) /\ Sealed(x, d, Len(x.code)) /\ Outlasts(x, m, d)
CircuitsNest(x) ==
  \A c \in DOMAIN x.circuits :
    /\ x.circuits[c].before <= Len(x.values)
    /\ \A e \in 1..c : x.circuits[e].before <= x.circuits[c].before

Defined(x) == UsesDefined(x) /\ ValuesDefined(x) /\ CircuitsNest(x) /\ x.value > 0
Flow(x, g) == Defined(x) /\ Sinks(x) /\ SameUse(x) /\ Tails(x, g) /\ Heights(x, g)
FlowInv == Flow(ex, goal)

\* What earlier blocks left is not what a sink, a declaration, an assignment
\* or a return takes: no sink is open, and the statement that waits for a
\* value is in its expression.  A block that ends in a value has been asked
\* for it, or nothing around it waits for one.
LeftAlone(x, g) ==
  /\ g \in {"elsetok", "merge"} => x.assign = Nothing /\ ~x.returning
  /\ g = "tail" => Asked(x, Len(x.scopes)) \/ Unasked(x)
  /\ x.left # <<>> /\ g # "done" =>
       /\ Unasked([x EXCEPT !.decl = Nothing])
       /\ x.decl # Nothing => x.assign = Nothing
       /\ x.decl # Nothing \/ x.assign # Nothing => g = "full"
LeftInv == LeftAlone(ex, goal)

\* A label that is placed next does not look like the start of a counted loop.
Resting(i) == i.op # "vardef" /\ ~(i.op = "store" /\ i.var.of = "end")
Rests(c) == Len(c) > 0 /\ Resting(c[Len(c)])

\* A counter is stored to before its loop, and before each jump to its start.
Stores(i, v) == i.op = "store" /\ i.var = v
Advances(x) ==
  \A h \in DOMAIN x.code : x.code[h].op = "label" /\ h > 3 => \A v \in CountedIn(x.code, h) :
    /\ \E p \in 1..(h - 1) : /\ Stores(x.code[p], v)
                            /\ \A k \in p..(h - 1) : x.code[k].op # "label"
    /\ \A j \in Jumps(x) : x.code[j].target = x.code[h].target =>
         j > 1 /\ Stores(x.code[j - 1], v)

\* What an open loop counts with, and the variables that the end of a
\* statement or of a loop stores to.
Counters(x) ==
  \A i \in Loops(x) :
    LET b == x.branches[i]
    IN  /\ Counter(b).of # "end"
        /\ \A h \in Landings(x.code, b.loop) : h > 3 =>
             CountedIn(x.code, h) \subseteq (IF b.kind = "for" THEN {Counter(b)} ELSE {})
Stored(x) ==
  /\ \A v \in {x.assign, x.decl} \cup {x.scopes[d] : d \in DOMAIN x.scopes} :
       v # Nothing => v.of # "end"
  /\ \A i \in DOMAIN x.circuits : x.circuits[i].sink.of # "end"

Counting(x) == Rests(x.code) /\ Advances(x) /\ Counters(x) /\ Stored(x)
CountInv == Counting(ex)
=============================================================================
