----------------------------- MODULE TaskMemory -----------------------------
(***************************************************************************)
(* What zo-runtime keeps per green task outside the scheduler: its stack   *)
(* (stack.rs: a slot of the arena or a mapping of its own, committed page  *)
(* by page by the fault handler) and its task-local storage (tls.rs).  OS  *)
(* threads build tasks, run them, are interrupted by faults in the middle  *)
(* of what they do, and free the boxes, whose addresses are used again.    *)
(***************************************************************************)
EXTENDS Integers, Sequences, FiniteSets, Functions

CONSTANTS
  Threads,     \* OS threads that run tasks
  Boxes,       \* the addresses a task's box can have
  Slots,       \* the slots of the arena
  Maps,        \* the mappings outside the arena
  None,        \* no task, no stack, no thread
  PoolCap,     \* STACK_POOL_CAP
  Pages,       \* pages of a stack; page 1 is the topmost
  Moves        \* TRUE: a task may go on on another thread than it stopped on

ASSUME PlacesAssumption == Slots \cap Maps = {} /\ None \notin Slots \cup Maps \cup Boxes \cup Threads
ASSUME SlotsAssumption == IsFiniteSet(Slots)
ASSUME BoundsAssumption == PoolCap \in Nat /\ Pages \in Nat \ {0} /\ Moves \in BOOLEAN

VARIABLES
  arenaFree,   \* StackArena.free, popped at its end
  pool,        \* POOL: mappings to use again
  mapped,      \* the mappings that exist
  committed,   \* the pages of each stack that are readable and writable
  low,         \* TaskStack.low, as the number of pages above it
  state,       \* each box: free, new, ready, running, dead or dropped
  stack,       \* ZoTask._stack
  registry,    \* the boxes whose stacks the fault handler knows
  writer,      \* the thread that holds the registry for writing
  readers,     \* the threads whose handler reads the registry
  pc, box,     \* what a thread does, and to which box
  hand,        \* the stack a thread has reserved
  current,     \* the task a thread runs
  fault,       \* the page a thread faults on, 0 for none
  last,        \* the thread a task ran on last
  storage,     \* TASK_TLS of each thread: whose value is under a box's address
  stored,      \* the tasks that stored a value
  killed       \* a fault nobody handled has ended the process

memory == <<arenaFree, pool, mapped, committed, low>>
tasks == <<state, stack, last>>
handler == <<registry, writer, readers, killed>>
threads == <<pc, box, hand, current, fault>>
tls == <<storage, stored>>
vars == <<memory, tasks, handler, threads, tls>>

Stacks == Slots \cup Maps
Tops == {1}
Bottom(S) == [x \in S |-> None]

Init ==
  /\ arenaFree \in Bijection(1..Cardinality(Slots), Slots)
  /\ pool = <<>> /\ mapped = {}
  /\ committed = [s \in Stacks |-> {}]
  /\ low = [s \in Stacks |-> 0]
  /\ state = [b \in Boxes |-> "free"]
  /\ stack = Bottom(Boxes) /\ last = Bottom(Boxes)
  /\ registry = {} /\ writer = None /\ readers = {} /\ killed = FALSE
  /\ pc = [t \in Threads |-> "idle"]
  /\ box = Bottom(Threads) /\ hand = Bottom(Threads) /\ current = Bottom(Threads)
  /\ fault = [t \in Threads |-> 0]
  /\ storage = [t \in Threads |-> [b \in Boxes |-> "nobody"]]
  /\ stored = {}

\* A thread that is not in the handler takes a step at `at` and goes to `to`.
Step(t, at, to) ==
  /\ ~killed /\ fault[t] = 0 /\ pc[t] = at
  /\ pc' = [pc EXCEPT ![t] = to]

Front1(s) == SubSeq(s, 1, Len(s) - 1)

----------------------------------------------------------------------------
(* TaskStack::reserve and ZoTask::new_green.                               *)

\* alloc pops a slot and commits its first page; no other thread sees it.
TakeSlot(t) ==
  /\ Step(t, "idle", "build")
  /\ arenaFree # <<>>
  /\ LET s == arenaFree[Len(arenaFree)]
     IN  /\ hand' = [hand EXCEPT ![t] = s]
         /\ committed' = [committed EXCEPT ![s] = @ \cup Tops]
         /\ low' = [low EXCEPT ![s] = 1]
  /\ arenaFree' = Front1(arenaFree)
  /\ UNCHANGED <<pool, mapped, tasks, handler, box, current, fault, tls>>

\* mprotect fails: the slot goes back, under the lock once more.
CannotCommit(t) ==
  /\ Step(t, "idle", "giveBack")
  /\ arenaFree # <<>>
  /\ hand' = [hand EXCEPT ![t] = arenaFree[Len(arenaFree)]]
  /\ arenaFree' = Front1(arenaFree)
  /\ UNCHANGED <<pool, mapped, committed, low, tasks, handler, box, current, fault, tls>>

\* Mutant: the slot is not given back.
GiveBack_Loses(t) ==
  /\ Step(t, "giveBack", "fallback")
  /\ hand' = [hand EXCEPT ![t] = None]
  /\ UNCHANGED <<memory, tasks, handler, box, current, fault, tls>>
GiveBack(t) ==
  /\ Step(t, "giveBack", "fallback")
  /\ arenaFree' = Append(arenaFree, hand[t])
  /\ hand' = [hand EXCEPT ![t] = None]
  /\ UNCHANGED <<pool, mapped, committed, low, tasks, handler, box, current, fault, tls>>

\* The arena has no slot left.
NoSlot(t) ==
  /\ Step(t, "idle", "fallback")
  /\ arenaFree = <<>>
  /\ UNCHANGED <<memory, tasks, handler, box, hand, current, fault, tls>>

TakePooled(t) ==
  /\ Step(t, "fallback", "build")
  /\ pool # <<>>
  /\ hand' = [hand EXCEPT ![t] = pool[Len(pool)]]
  /\ pool' = Front1(pool)
  /\ UNCHANGED <<arenaFree, mapped, committed, low, tasks, handler,
                 box, current, fault, tls>>

\* reserve_fresh.
MapFresh(t, s) ==
  /\ Step(t, "fallback", "build")
  /\ pool = <<>>
  /\ s \in Maps \ mapped
  /\ mapped' = mapped \cup {s}
  /\ committed' = [committed EXCEPT ![s] = Tops]
  /\ low' = [low EXCEPT ![s] = 1]
  /\ hand' = [hand EXCEPT ![t] = s]
  /\ UNCHANGED <<arenaFree, pool, tasks, handler, box, current, fault, tls>>

\* The box is built at some free address; a stack of the arena needs no entry
\* in the registry.
Build(t, b) ==
  /\ IF hand[t] \in Slots THEN Step(t, "build", "idle") ELSE Step(t, "build", "register")
  /\ state[b] = "free"
  /\ state' = [state EXCEPT ![b] = IF hand[t] \in Slots THEN "ready" ELSE "new"]
  /\ stack' = [stack EXCEPT ![b] = hand[t]]
  /\ last' = [last EXCEPT ![b] = None]
  /\ hand' = [hand EXCEPT ![t] = None]
  /\ box' = [box EXCEPT ![t] = IF hand[t] \in Slots THEN None ELSE b]
  /\ UNCHANGED <<memory, handler, current, fault, tls>>

Readied(t) ==
  /\ state' = [state EXCEPT ![box[t]] = "ready"]
  /\ box' = [box EXCEPT ![t] = None]

\* The write lock of the registry.
LockRegistry(t, at, to) ==
  /\ Step(t, at, to)
  /\ writer = None /\ readers = {}
  /\ writer' = t
  /\ UNCHANGED <<memory, tasks, registry, readers, killed, box, hand, current,
                 fault, tls>>

Register(t) == LockRegistry(t, "register", "registering")

Registered(t) ==
  /\ Step(t, "registering", "idle")
  /\ registry' = registry \cup {box[t]}
  /\ writer' = None
  /\ Readied(t)
  /\ UNCHANGED <<memory, stack, last, readers, killed, hand, current, fault, tls>>

----------------------------------------------------------------------------
(* Running.                                                                *)

Run(t, b) ==
  /\ Step(t, "idle", "idle")
  /\ current[t] = None /\ state[b] = "ready"
  /\ Moves \/ last[b] \in {None, t}
  /\ state' = [state EXCEPT ![b] = "running"]
  /\ last' = [last EXCEPT ![b] = t]
  /\ current' = [current EXCEPT ![t] = b]
  /\ UNCHANGED <<memory, stack, handler, box, hand, fault, tls>>

Leave(t, to) ==
  /\ Step(t, "idle", "idle")
  /\ current[t] # None
  /\ state' = [state EXCEPT ![current[t]] = to]
  /\ current' = [current EXCEPT ![t] = None]
  /\ UNCHANGED <<memory, stack, last, handler, box, hand, fault>>

\* A yield, or a park and its wake-up.
SwitchOut(t) == Leave(t, "ready") /\ UNCHANGED tls

\* zo_tls_set, in the table of the thread, under the address of the task.
Store(t) ==
  /\ Step(t, "idle", "idle")
  /\ current[t] # None
  /\ storage' = [storage EXCEPT ![t][current[t]] = "owner"]
  /\ stored' = stored \cup {current[t]}
  /\ UNCHANGED <<memory, tasks, handler, box, hand, current, fault>>

\* Mutant: nothing is cleared.
Die_KeepsStorage(t) ==
  /\ Leave(t, "dead")
  /\ UNCHANGED storage
  /\ stored' = stored \ {current[t]}
\* exit_current: clear_for_task, then Dead.
Die(t) ==
  /\ Leave(t, "dead")
  /\ storage' = [storage EXCEPT ![t][current[t]] = "nobody"]
  /\ stored' = stored \ {current[t]}

----------------------------------------------------------------------------
(* The stack of a running task grows, wherever the thread is.              *)

Touch(t, p) ==
  /\ ~killed /\ fault[t] = 0 /\ current[t] # None
  /\ p \notin committed[stack[current[t]]]
  /\ fault' = [fault EXCEPT ![t] = p]
  /\ UNCHANGED <<memory, tasks, handler, pc, box, hand, current, tls>>

\* find_stack_for: the page of the arena is committed, `low` is left alone.
ExtendSlot(t) ==
  /\ ~killed /\ fault[t] # 0 /\ stack[current[t]] \in Slots
  /\ committed' = [committed EXCEPT ![stack[current[t]]] = @ \cup {fault[t]}]
  /\ fault' = [fault EXCEPT ![t] = 0]
  /\ UNCHANGED <<arenaFree, pool, mapped, low, tasks, handler, pc,
                 box, hand, current, tls>>

\* try_read succeeds in one of the SPIN_LIMIT tries.
ReadRegistry(t) ==
  /\ ~killed /\ fault[t] # 0 /\ stack[current[t]] \in Maps /\ t \notin readers
  /\ writer = None
  /\ readers' = readers \cup {t}
  /\ UNCHANGED <<memory, tasks, registry, writer, killed, threads, tls>>

\* The writer, which may be the faulting thread itself, outlasts them.
SpinsOut(t) ==
  /\ ~killed /\ fault[t] # 0 /\ stack[current[t]] \in Maps /\ t \notin readers
  /\ writer # None
  /\ killed' = TRUE
  /\ UNCHANGED <<memory, tasks, registry, writer, readers, threads, tls>>

\* Twice the committed prefix, as `low` has it, within the reservation.
\* Mutant: the prefix is doubled one page short.
Grown_Short(n) == IF 2 * n > Pages THEN Pages ELSE 2 * n - 1
Grown(n) == IF 2 * n > Pages THEN Pages ELSE 2 * n

\* Mutant: the faulting page alone is committed.
ExtendMap_OnePage(t) ==
  LET s == stack[current[t]]
  IN  /\ ~killed /\ t \in readers
      /\ current[t] \in registry
      /\ committed' = [committed EXCEPT ![s] = @ \cup {fault[t]}]
      /\ low' = [low EXCEPT ![s] = Grown(low[s])]
      /\ readers' = readers \ {t}
      /\ fault' = [fault EXCEPT ![t] = 0]
      /\ UNCHANGED <<arenaFree, pool, mapped, tasks, registry, writer,
                     killed, pc, box, hand, current, tls>>
\* extend_commit, and the return to the instruction, which may fault again.
\* (That the search finds no stack cannot happen: RegistryIsSafe.)
ExtendMap(t) ==
  LET s == stack[current[t]]
  IN  /\ ~killed /\ t \in readers
      /\ current[t] \in registry
      /\ committed' = [committed EXCEPT ![s] = @ \cup (1..Grown(low[s]))]
      /\ low' = [low EXCEPT ![s] = Grown(low[s])]
      /\ readers' = readers \ {t}
      /\ fault' = [fault EXCEPT ![t] = IF @ \in committed'[s] THEN 0 ELSE @]
      /\ UNCHANGED <<arenaFree, pool, mapped, tasks, registry, writer,
                     killed, pc, box, hand, current, tls>>

----------------------------------------------------------------------------
(* The box of a dead task is dropped, by whoever owns it.                  *)

Drop(t, b) ==
  /\ state[b] = "dead"
  /\ IF stack[b] \in Slots THEN Step(t, "idle", "recycle") ELSE Step(t, "idle", "unregister")
  /\ state' = [state EXCEPT ![b] = "dropped"]
  /\ box' = [box EXCEPT ![t] = b]
  /\ UNCHANGED <<memory, stack, last, handler, hand, current, fault, tls>>

Unregister(t) == LockRegistry(t, "unregister", "unregistering")

\* Mutant: the entry stays.
Unregistered_Forgets(t) ==
  /\ Step(t, "unregistering", "recycle")
  /\ writer' = None
  /\ UNCHANGED <<memory, tasks, registry, readers, killed, box, hand, current, fault, tls>>
Unregistered(t) ==
  /\ Step(t, "unregistering", "recycle")
  /\ registry' = registry \ {box[t]}
  /\ writer' = None
  /\ UNCHANGED <<memory, tasks, readers, killed, box, hand, current, fault, tls>>

\* The box goes back to the allocator; what other threads stored under its
\* address is left behind.
Freed(t) ==
  /\ state' = [state EXCEPT ![box[t]] = "free"]
  /\ stack' = [stack EXCEPT ![box[t]] = None]
  /\ box' = [box EXCEPT ![t] = None]
  /\ storage' = [u \in Threads |->
       [storage[u] EXCEPT ![box[t]] = IF @ = "nobody" THEN @ ELSE "stranger"]]
  /\ UNCHANGED <<last, stored>>

\* free_slot; what the pages hold, and madvise, are left out.
FreeSlot(t) ==
  /\ Step(t, "recycle", "idle")
  /\ stack[box[t]] \in Slots
  /\ arenaFree' = Append(arenaFree, stack[box[t]])
  /\ Freed(t)
  /\ UNCHANGED <<pool, mapped, committed, low, handler, hand, current, fault>>

\* recycle of a mapping: it is kept, committed as it is, if there is room.
Pooled(t) ==
  LET s == stack[box[t]]
  IN  /\ Step(t, "recycle", "idle")
      /\ s \in Maps /\ Len(pool) < PoolCap
      /\ low' = [low EXCEPT ![s] = 1]
      /\ pool' = Append(pool, s)
      /\ Freed(t)
      /\ UNCHANGED <<arenaFree, mapped, committed, handler, hand, current, fault>>

\* TaskStack::drop takes the registry's lock once more, then unmaps.
DropMap(t) ==
  /\ LockRegistry(t, "recycle", "unmap")
  /\ stack[box[t]] \in Maps /\ Len(pool) >= PoolCap

Unmap(t) ==
  LET s == stack[box[t]]
  IN  /\ Step(t, "unmap", "idle")
      /\ writer' = None
      /\ mapped' = mapped \ {s}
      /\ committed' = [committed EXCEPT ![s] = {}]
      /\ low' = [low EXCEPT ![s] = 0]
      /\ Freed(t)
      /\ UNCHANGED <<arenaFree, pool, registry, readers, killed, hand, current, fault>>

----------------------------------------------------------------------------
Reserves(t) ==
  \/ GiveBack(t) \/ TakePooled(t) \/ Register(t) \/ Registered(t)
  \/ \E s \in Maps : MapFresh(t, s)
  \/ \E b \in Boxes : Build(t, b)
Drops(t) ==
  \/ Unregister(t) \/ Unregistered(t)
  \/ FreeSlot(t) \/ Pooled(t) \/ DropMap(t) \/ Unmap(t)
Handles(t) == ExtendSlot(t) \/ ReadRegistry(t) \/ SpinsOut(t) \/ ExtendMap(t)
Starts(t) ==
  \/ TakeSlot(t) \/ CannotCommit(t) \/ NoSlot(t)
  \/ SwitchOut(t) \/ Store(t) \/ Die(t)
  \/ \E b \in Boxes : Run(t, b) \/ Drop(t, b)
  \/ \E p \in 1..Pages : Touch(t, p)

Next == \E t \in Threads : Starts(t) \/ Reserves(t) \/ Handles(t) \/ Drops(t)

Spec == Init /\ [][Next]_vars

----------------------------------------------------------------------------
(* Properties.                                                             *)

\* Where a stack is: the free list, the pool, a thread's hand, a box.
Times(s) ==
  Cardinality({i \in DOMAIN arenaFree : arenaFree[i] = s})
    + Cardinality({i \in DOMAIN pool : pool[i] = s})
    + Cardinality({t \in Threads : hand[t] = s})
    + Cardinality({b \in Boxes : stack[b] = s})

\* No stack is lost or given to two tasks, through every fallback from the
\* arena to the pool to a new mapping and back (stack.rs: alloc, reserve,
\* recycle, Drop).
StacksHaveOnePlace ==
  /\ \A s \in Slots : Times(s) = 1
  /\ \A s \in Maps : Times(s) = IF s \in mapped THEN 1 ELSE 0

\* The handler follows the pointers of the registry: each is a box whose
\* stack is mapped, and every task that can fault is there.
RegistryIsSafe ==
  /\ \A b \in registry : state[b] # "free" /\ stack[b] \in mapped
  /\ \A b \in Boxes :
       state[b] \in {"ready", "running"} /\ stack[b] \in Maps => b \in registry

\* All a stack's `low` promises is committed, whether its pages were
\* committed for this task or for one before it.
LowIsCommitted ==
  \A s \in Stacks : 1..low[s] \subseteq committed[s]

\* A task-local value is found by the task that stored it, and by no other
\* task that gets the same address.
StorageIsOwn ==
  \A t \in Threads : current[t] # None =>
    storage[t][current[t]] = IF current[t] \in stored THEN "owner" ELSE "nobody"

\* A handler that returns to an instruction that will fault again has moved
\* `low`, also where the pages of an earlier task are still committed: the
\* faults of one access come to an end.
HandlerProgresses ==
  [][\A t \in Threads :
       t \in readers /\ t \notin readers' /\ fault'[t] # 0 /\ ~killed'
         => low'[stack[current[t]]] > low[stack[current[t]]]]_vars

----------------------------------------------------------------------------
(* The inductive invariant.                                                *)

\* Every variable is in its range.
TypeOK ==
  /\ arenaFree \in Seq(Slots) /\ pool \in Seq(Maps) /\ mapped \subseteq Maps
  /\ committed \in [Stacks -> SUBSET (1..Pages)]
  /\ low \in [Stacks -> 0..Pages]
  /\ state \in [Boxes -> {"free", "new", "ready", "running", "dead", "dropped"}]
  /\ stack \in [Boxes -> Stacks \cup {None}]
  /\ last \in [Boxes -> Threads \cup {None}]
  /\ registry \subseteq Boxes /\ readers \subseteq Threads
  /\ writer \in Threads \cup {None} /\ killed \in BOOLEAN
  /\ pc \in [Threads -> {"idle", "giveBack", "fallback", "build", "register",
                         "registering", "unregister", "unregistering",
                         "recycle", "unmap"}]
  /\ box \in [Threads -> Boxes \cup {None}]
  /\ hand \in [Threads -> Stacks \cup {None}]
  /\ current \in [Threads -> Boxes \cup {None}]
  /\ fault \in [Threads -> 0..Pages]
  /\ storage \in [Threads -> [Boxes -> {"nobody", "owner", "stranger"}]]
  /\ stored \subseteq Boxes

\* A stack is in a list, in one hand or in one box, and in one of them only.
InList(s) == s \in Range(arenaFree) \/ s \in Range(pool)
Given(s) == (\E t \in Threads : hand[t] = s) \/ (\E b \in Boxes : stack[b] = s)
PlacesOK ==
  /\ IsInjective(arenaFree) /\ IsInjective(pool)
  /\ \A s \in Stacks : InList(s) => ~Given(s)
  /\ \A t, u \in Threads : hand[t] = hand[u] /\ hand[t] # None => t = u
  /\ \A b, c \in Boxes : stack[b] = stack[c] /\ stack[b] # None => b = c
  /\ \A t \in Threads, b \in Boxes : hand[t] = stack[b] => hand[t] = None
  /\ \A s \in Slots : InList(s) \/ Given(s)
  /\ \A s \in Maps : s \in mapped <=> InList(s) \/ Given(s)

\* What a thread holds goes with what it does.
CustodyOK ==
  /\ \A t, u \in Threads : box[t] = box[u] /\ box[t] # None => t = u
  /\ \A t \in Threads :
       /\ hand[t] # None <=> pc[t] \in {"build", "giveBack"}
       /\ pc[t] = "giveBack" => hand[t] \in Slots
       /\ box[t] = None <=> pc[t] \in {"idle", "giveBack", "fallback", "build"}
       /\ pc[t] \in {"register", "registering"} =>
            state[box[t]] = "new" /\ stack[box[t]] \in Maps
       /\ pc[t] \in {"unregister", "unregistering", "recycle", "unmap"} =>
            state[box[t]] = "dropped"
       /\ pc[t] \in {"unregister", "unregistering", "unmap"} => stack[box[t]] \in Maps
       /\ pc[t] \in {"recycle", "unmap"} => box[t] \notin registry

\* A task has a stack while its box is in use, runs on one thread, and only
\* threads that run one fault.
TasksOK ==
  /\ \A b \in Boxes : stack[b] = None <=> state[b] = "free"
  /\ \A t \in Threads : current[t] # None => state[current[t]] = "running"
  /\ \A t, u \in Threads : current[t] = current[u] /\ current[t] # None => t = u
  /\ \A t \in Threads : fault[t] # 0 => current[t] # None
  /\ \A t \in readers : fault[t] # 0 /\ stack[current[t]] \in Maps

\* Only boxes with a mapping are in the registry.
RegistryOK ==
  /\ \A b \in registry : stack[b] \in Maps
  /\ \A b \in Boxes :
       state[b] \in {"ready", "running"} /\ stack[b] \in Maps => b \in registry

\* A mapping has its first page.
LowOK == LowIsCommitted /\ \A s \in mapped : low[s] # 0

\* While tasks stay on their thread, what is stored under an address is the
\* value of the task there, on the thread it ran on last.
StorageOK ==
  ~Moves =>
    /\ \A b \in stored : state[b] \in {"ready", "running"} /\ last[b] # None
    /\ \A t \in Threads : current[t] # None => last[current[t]] = t
    /\ \A t \in Threads, b \in Boxes :
         storage[t][b] = IF b \in stored /\ last[b] = t THEN "owner" ELSE "nobody"

IInv ==
  /\ TypeOK /\ PlacesOK /\ CustodyOK /\ TasksOK /\ RegistryOK /\ LowOK
  /\ StorageOK
=============================================================================
