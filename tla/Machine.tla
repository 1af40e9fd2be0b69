------------------------------ MODULE Machine ------------------------------
(***************************************************************************)
(* What the code zo-codegen-arm emits for a function does to registers and *)
(* spill slots.  A register or a slot holds a value, by its number, or 0,  *)
(* which is anything else; a value computed anew makes its old copies      *)
(* stale.  Variables are in memory and are left out.                       *)
(***************************************************************************)
EXTENDS RegAlloc, Paths

VARIABLE mach  \* the next instruction, how it was come by, registers, slots
machine == <<allocation, mach>>

\* Labels stand after the spill code of their line: a jump misses it.
Asleep == [pc |-> 0, jumped |-> FALSE, reg |-> [cls \in Classes |-> EmptyMap], slot |-> EmptyMap]

Registers(cls) == Range(Regs(cls)) \cup 0..(MaxParams - 1)
Enter ==
  /\ phase = "done"
  /\ phase' = "run"
  /\ mach' = [pc |-> 1, jumped |-> FALSE,
              reg |-> [cls \in Classes |-> [r \in Registers(cls) |-> 0]],
              slot |-> [s \in {ra.slots[v] : v \in DOMAIN ra.slots} |-> 0]]
  /\ UNCHANGED <<code, params, liveIn, liveOut, at, ra>>

Here == code[mach.pc]
Running == phase = "run" /\ mach.pc # 0

\* emit_spills before the instruction.
SpillCode(s, op) ==
  IF op.kind = "store" THEN [s EXCEPT !.slot[op.slot] = s.reg[op.cls][op.reg]]
  ELSE [s EXCEPT !.reg[op.cls][op.reg] = s.slot[op.slot]]
Ready ==
  IF mach.jumped THEN mach
  ELSE FoldLeft(SpillCode, mach, SelectSeq(ra.ops, LAMBDA op : op.line = mach.pc))

\* alloc_reg, alloc_fp_reg: where the code looks for a value.  The snapshot
\* of the instruction knows; else the last reload emitted; else the map of
\* the whole function.
ClassIn(v) == code[CHOOSE i \in Lines : v \in Defines(code[i])].cls
Reloads(v) ==
  SelectSeq(ra.ops, LAMBDA op : /\ op.kind = "load" /\ op.val = v
                                /\ op.cls = ClassIn(v) /\ op.line <= mach.pc)
RegisterOf(v) ==
  LET known == ra.snap[mach.pc][ClassIn(v)]
  IN  CASE v \in DOMAIN known -> known[v]
        [] v \notin DOMAIN known /\ Reloads(v) # <<>> -> Last(Reloads(v)).reg
        [] OTHER -> ra.flat[ClassIn(v)][v]

Holds(s, v) == s.reg[ClassIn(v)][RegisterOf(v)] = v

\* The instruction computes v.
Stale(f, v) == [x \in DOMAIN f |-> IF f[x] = v THEN 0 ELSE f[x]]
Computed(s, v) ==
  LET t == [s EXCEPT !.reg = [cls \in Classes |-> Stale(@[cls], v)], !.slot = Stale(@, v)]
  IN  [t EXCEPT !.reg[ClassIn(v)][RegisterOf(v)] = v]

Go(s, pc, jumped) ==
  /\ mach' = [s EXCEPT !.pc = IF pc \in Lines THEN pc ELSE 0, !.jumped = jumped]
  /\ UNCHANGED allocation

Compute ==
  /\ Running /\ Here.op \notin {"call", "jump", "branch", "return"}
  /\ Go(IF Here.dst = 0 THEN Ready ELSE Computed(Ready, Here.dst), mach.pc + 1, FALSE)

FallThrough ==
  /\ Running /\ Here.op = "branch"
  /\ Go(Ready, mach.pc + 1, FALSE)

TakeJump ==
  /\ Running /\ Here.op \in {"jump", "branch"}
  /\ \E i \in Landings(code, Here.target) : Go(Ready, i, TRUE)

Leave ==
  /\ Running /\ Here.op = "return"
  /\ Go(Ready, 0, FALSE)

----------------------------------------------------------------------------
(* A call: marshal_user_call_args, then the callee clobbers every register *)
(* and leaves the result in register 0.                                    *)

\* Floats go to their places one after the other.
MarshalFp(s) ==
  FoldLeft(LAMBDA t, i : IF ClassIn(Here.uses[i]) = "fp"
                         THEN [t EXCEPT !.reg["fp"][i - 1] = t.reg["fp"][RegisterOf(Here.uses[i])]]
                         ELSE t,
           s, [i \in DOMAIN Here.uses |-> i])

\* The others too, but two sources that a move overwrites are kept aside.
Moves ==
  SelectSeq([i \in DOMAIN Here.uses |-> [to |-> i - 1, from |-> RegisterOf(Here.uses[i]),
                                         cls |-> ClassIn(Here.uses[i])]],
            LAMBDA move : move.cls = "gp" /\ move.from # move.to)
\* Mutant: none is.
KeptAside_None(moves) == {}
KeptAside(moves) ==
  LET overwritten(j) == \E k \in DOMAIN moves : k # j /\ moves[k].to = moves[j].from
      first(j) == /\ overwritten(j)
                  /\ \A k \in 1..(j - 1) : moves[k].from # moves[j].from
  IN  {moves[j].from : j \in {k \in DOMAIN moves :
         first(k) /\ Cardinality({h \in 1..k : first(h)}) <= 2}}
MarshalGp(s) ==
  FoldLeft(LAMBDA t, move : [t EXCEPT !.reg["gp"][move.to] =
             (IF move.from \in KeptAside(Moves) THEN s ELSE t).reg["gp"][move.from]],
           s, Moves)
Marshalled == MarshalGp(MarshalFp(Ready))

CallInsn ==
  LET s == [Marshalled EXCEPT !.reg = [cls \in Classes |-> [r \in Registers(cls) |-> 0]]]
  IN  /\ Running /\ Here.op = "call"
      /\ Go(IF Here.dst = 0 THEN s ELSE Computed(s, Here.dst), mach.pc + 1, FALSE)

Execute == Compute \/ FallThrough \/ TakeJump \/ Leave \/ CallInsn

----------------------------------------------------------------------------
(* Properties.                                                             *)

\* Liveness finds what is live after an instruction, no more and no less:
\* what some path from there reads before anything defines it.
LivenessExact ==
  phase = "alloc" /\ at = 1 => LET succs == Succs(code) IN
    \A v \in UNION {Defines(code[j]) : j \in Lines} :
      LET others == {k \in Lines : v \notin Defines(code[k])}
          readers == {j \in Lines : v \in Uses(code[j])}
      IN  \A i \in Lines :
            v \in liveOut[i] <=> \E s \in succs[i] : Reached(succs, s, others) \cap readers # {}

\* On every path the register the code reads for an operand holds that
\* operand: through spills around calls, reloads, results that are moved out
\* of register 0, registers taken over and branches that join.
OperandsRead == Running => \A v \in Uses(Here) : Holds(Ready, v)

\* The moves before a call put every argument in its place.
ArgumentsArrive ==
  Running /\ Here.op = "call" =>
    \A i \in DOMAIN Here.uses :
      Marshalled.reg[ClassIn(Here.uses[i])][i - 1] = Here.uses[i]
=============================================================================
