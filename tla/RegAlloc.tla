------------------------------ MODULE RegAlloc ------------------------------
(***************************************************************************)
(* zo-liveness and zo-register-allocation: which values are live after     *)
(* each instruction of a function, found by sweeping backwards until       *)
(* nothing changes, and where each value is, found in one forward pass     *)
(* that hands out registers, spills and reloads.  Values come in two       *)
(* classes with a pool of registers each; register 0 of either class is    *)
(* kept for the result of a call.                                          *)
(***************************************************************************)
EXTENDS Sir, SequencesExt

CONSTANTS
  GpRegs, FpRegs,  \* ALLOCATABLE_GP, ALLOCATABLE_FP: registers in order
  MaxParams        \* how many parameters arrive in registers

VARIABLES
  code,    \* the function
  params,  \* the classes of its parameters
  phase,   \* "idle", "live" while liveness is found, "alloc", then "done"
  liveIn,  \* for each instruction, the values live before it
  liveOut, \* and after it
  at,      \* the instruction to allocate for
  ra       \* the state and the result of allocation
allocation == <<code, params, phase, liveIn, liveOut, at, ra>>

ASSUME RegistersAssumption ==
  /\ GpRegs \in Seq(Nat \ {0}) /\ IsInjective(GpRegs)
  /\ FpRegs \in Seq(Nat \ {0}) /\ IsInjective(FpRegs)

Regs(cls) == IF cls = "fp" THEN FpRegs ELSE GpRegs
Lines == DOMAIN code

----------------------------------------------------------------------------
(* Maps.                                                                   *)

EmptyMap == [x \in {} |-> 0]
Put(f, x, y) == [z \in DOMAIN f \cup {x} |-> IF z = x THEN y ELSE f[z]]
Without(f, x) == [z \in DOMAIN f \ {x} |-> f[z]]

----------------------------------------------------------------------------
(* Liveness.                                                               *)

\* Mutant: what an instruction defines stays live before it.
SweepInsn_KeepsDefs(succs, i, live) ==
  LET out == UNION {live.in[j] : j \in succs[i]}
  IN  [live EXCEPT !.out[i] = out, !.in[i] = Uses(code[i]) \cup out]
\* One round: from the last instruction to the first, what is live after it
\* is what is live before those that can follow, as far as the sweep knows.
SweepInsn(succs, i, live) ==
  LET out == UNION {live.in[j] : j \in succs[i]}
  IN  [live EXCEPT !.out[i] = out,
                   !.in[i] = Uses(code[i]) \cup (out \ Defines(code[i]))]
Sweep(live) ==
  LET succs == Succs(code)
      known[k \in Nat] == IF k = 0 THEN live
                          ELSE SweepInsn(succs, Len(code) + 1 - k, known[k - 1])
  IN  known[Len(code)]

----------------------------------------------------------------------------
(* RegPool: the free registers, the last of which is handed out first, and *)
(* which value is where, in both directions.                               *)

FullPool(cls) == [free |-> Reverse(Regs(cls)), reg |-> EmptyMap, val |-> EmptyMap]
Taken(p, v, r) ==
  [free |-> SelectSeq(p.free, LAMBDA q : q # r),
   reg |-> Put(p.reg, v, r), val |-> Put(p.val, r, v)]
\* Register 0 is not one to hand out again.
Given(p, v, cls) ==
  IF v \notin DOMAIN p.reg THEN p
  ELSE [free |-> IF p.reg[v] \in Range(Regs(cls)) THEN Append(p.free, p.reg[v]) ELSE p.free,
        reg |-> Without(p.reg, v), val |-> Without(p.val, p.reg[v])]

----------------------------------------------------------------------------
(* AllocState and RegAlloc in one record: pools, the values known to be    *)
(* floats, spill slots; the spill operations, in order, the register of    *)
(* each value at each instruction, and the last register it was given.     *)

Start ==
  [pool |-> [cls \in Classes |-> FullPool(cls)], floats |-> {}, slots |-> EmptyMap,
   ops |-> <<>>, snap |-> [i \in {} |-> EmptyMap], flat |-> [cls \in Classes |-> EmptyMap]]

ClassOf(x, v) == IF v \in x.floats THEN "fp" ELSE "gp"
InRegister(x, v) == \E cls \in Classes : v \in DOMAIN x.pool[cls].reg
Assign(x, v, r, cls) ==
  [x EXCEPT !.pool[cls] = Taken(@, v, r),
            !.floats = IF cls = "fp" THEN @ \cup {v} ELSE @ \ {v}]
FreeValue(x, v) ==
  [x EXCEPT !.pool[ClassOf(x, v)] = Given(@, v, ClassOf(x, v)), !.floats = @ \ {v}]

SlotOf(x, v) == IF v \in DOMAIN x.slots THEN x.slots[v] ELSE Cardinality(DOMAIN x.slots)
Op(i, kind, r, slot, cls, v) ==
  [line |-> i, kind |-> kind, reg |-> r, slot |-> slot, cls |-> cls, val |-> v]
Spill(x, i, v, r, cls) ==
  [x EXCEPT !.slots = Put(@, v, SlotOf(x, v)),
            !.ops = Append(@, Op(i, "store", r, SlotOf(x, v), cls, v))]
Reload(x, i, v, r, cls) ==
  [x EXCEPT !.ops = Append(@, Op(i, "load", r, x.slots[v], cls, v))]

\* A value gives up its register, stored if it is needed again.
Evict(x, i, v) ==
  LET cls == ClassOf(x, v)
      r == x.pool[cls].reg[v]
      y == IF v \in liveOut[i] THEN Spill(x, i, v, r, cls) ELSE x
  IN  [y EXCEPT !.pool[cls].reg = Without(@, v), !.pool[cls].val = Without(@, r),
                !.floats = @ \ {v}]

\* alloc_or_spill: the register and what is left.
Victim(p, cls) ==
  p.val[Regs(cls)[CHOOSE k \in DOMAIN Regs(cls) :
                    /\ Regs(cls)[k] \in DOMAIN p.val
                    /\ \A j \in 1..(k - 1) : Regs(cls)[j] \notin DOMAIN p.val]]
AllocFree(x, cls) ==
  [reg |-> Last(x.pool[cls].free), then |-> [x EXCEPT !.pool[cls].free = Front(@)]]
Alloc(x, i, cls) ==
  LET p == x.pool[cls]
      v == Victim(p, cls)
  IN  IF p.free # <<>> THEN AllocFree(x, cls)
      ELSE [reg |-> x.pool[ClassOf(x, v)].reg[v], then |-> Evict(x, i, v)]

Snapshot(x, i) ==
  [x EXCEPT !.snap = Put(@, i, [cls \in Classes |-> x.pool[cls].reg])]
\* snapshot_result: the value replaces the one that had its register.
InSnapshot(f, v, r) == Put([w \in {u \in DOMAIN f : f[u] # r} |-> f[w]], v, r)
Place(x, v, r, cls) ==
  [Assign(x, v, r, cls) EXCEPT !.flat[cls] = Put(@, v, r)]
Define(x, i, v, r, cls) ==
  [Place(x, v, r, cls) EXCEPT !.snap[i][cls] = InSnapshot(@, v, r)]
Result(x, i) ==
  LET got == Alloc(x, i, code[i].cls)
  IN  IF code[i].dst = 0 THEN x ELSE Define(got.then, i, code[i].dst, got.reg, code[i].cls)

----------------------------------------------------------------------------
(* What the pass does at an instruction.                                   *)

\* free_dead, in any order: a hash map decides it.
Dead(x, i) == (UNION {DOMAIN x.pool[cls].reg : cls \in Classes}) \ liveOut[i]
Advance(x) ==
  /\ \E order \in SetToSeqs(Dead(x, at)) : ra' = FoldLeft(FreeValue, x, order)
  /\ at' = at + 1
  /\ phase' = IF at = Len(code) THEN "done" ELSE "alloc"
  /\ UNCHANGED <<code, params, liveIn, liveOut>>

\* A round of liveness; the last finds nothing new, and the pass starts with
\* the registers of the parameters taken.
Analyze ==
  LET live == Sweep([in |-> liveIn, out |-> liveOut])
      taken(cls) == {i - 1 : i \in {k \in DOMAIN params : k <= MaxParams /\ params[k] = cls}}
  IN  /\ phase = "live"
      /\ IF live = [in |-> liveIn, out |-> liveOut]
         THEN /\ phase' = "alloc"
              /\ ra' = [ra EXCEPT !.pool = [cls \in Classes |->
                          [@[cls] EXCEPT !.free = SelectSeq(@, LAMBDA r : r \notin taken(cls))]]]
         ELSE UNCHANGED <<phase, ra>>
      /\ liveIn' = live.in
      /\ liveOut' = live.out
      /\ UNCHANGED <<code, params, at>>

AllocLoad ==
  /\ phase = "alloc" /\ code[at].op = "load"
  /\ Advance(Result(Snapshot(ra, at), at))

\* A call: what is live after it is stored, every register is given up, the
\* result is in register 0, and what was stored goes back, before the next
\* instruction, to where it was, or if that was register 0 to another.
Saved(x, cls) == {v \in DOMAIN x.pool[cls].reg : v \in liveOut[at]}
SpillAll(x, cls) ==
  FoldLeft(LAMBDA y, v : Spill(y, at, v, x.pool[cls].reg[v], cls), x, SetToSeq(Saved(x, cls)))
ClearAll(x) == [x EXCEPT !.pool = [cls \in Classes |-> FullPool(cls)], !.floats = {}]
\* Mutant: also what was in register 0 goes back to where it was.
Restore_Same(x, v, old, cls) == Place(Reload(x, at + 1, v, old, cls), v, old, cls)
Restore(x, v, old, cls) ==
  LET got == IF old = 0 THEN AllocFree(x, cls) ELSE [reg |-> old, then |-> x]
  IN  Place(Reload(got.then, at + 1, v, got.reg, cls), v, got.reg, cls)
RestoreAll(x, cls) ==
  LET old == ra.pool[cls].reg
      others == SetToSeq({v \in Saved(ra, cls) : old[v] # 0})
      first == SetToSeq({v \in Saved(ra, cls) : old[v] = 0})
  IN  FoldLeft(LAMBDA y, v : Restore(y, v, old[v], cls), x, others \o first)
AllocCall ==
  LET i == code[at]
      x == ClearAll(SpillAll(SpillAll(Snapshot(ra, at), "gp"), "fp"))
      y == IF i.dst = 0 THEN x ELSE Define(x, at, i.dst, 0, i.cls)
  IN  /\ phase = "alloc" /\ i.op = "call"
      /\ Advance(IF at < Len(code) THEN RestoreAll(RestoreAll(y, "gp"), "fp") ELSE y)

\* Anything else: operands that were spilled come back, those that die give
\* up their registers, and then the result gets one.
ReloadOperand(x, v) ==
  LET cls == ClassOf(x, v)
      got == Alloc(x, at, cls)
  IN  IF InRegister(x, v) \/ v \notin DOMAIN x.slots THEN x
      ELSE Place(Reload(got.then, at, v, got.reg, cls), v, got.reg, cls)
FreeOperand(x, v) == IF v \in liveOut[at] THEN x ELSE FreeValue(x, v)
AllocOther ==
  LET i == code[at]
      x == Snapshot(FoldLeft(ReloadOperand, ra, i.uses), at)
  IN  /\ phase = "alloc" /\ i.op \notin {"load", "call"}
      /\ Advance(Result(FoldLeft(FreeOperand, x, i.uses), at))

\* The pass waits for a function, and takes one with the classes of its
\* parameters.
Idle ==
  /\ phase = "idle"
  /\ code = <<>> /\ params = <<>> /\ liveIn = <<>> /\ liveOut = <<>>
  /\ at = 1
  /\ ra = Start

Take(insns, classes) ==
  /\ phase = "idle"
  /\ phase' = "live"
  /\ code' = insns
  /\ params' = classes
  /\ liveIn' = [i \in DOMAIN insns |-> {}]
  /\ liveOut' = [i \in DOMAIN insns |-> {}]
  /\ UNCHANGED <<at, ra>>

Allocate == Analyze \/ AllocLoad \/ AllocCall \/ AllocOther
=============================================================================
