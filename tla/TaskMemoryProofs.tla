-------------------------- MODULE TaskMemoryProofs --------------------------
(***************************************************************************)
(* Proofs about TaskMemory, for any number of threads, tasks, slots and    *)
(* mappings: IInv is an invariant, so no stack is lost or shared, the      *)
(* handler follows only pointers to live stacks, and, while tasks stay on  *)
(* their thread, a task reads its own values; the faults of one access     *)
(* come to an end.                                                         *)
(***************************************************************************)
EXTENDS TaskMemory, ListLemmas, FiniteSetTheorems

LEMMA Apart ==
  /\ None \notin Stacks /\ None \notin Boxes /\ None \notin Threads
  /\ Slots \subseteq Stacks /\ Maps \subseteq Stacks
  /\ \A s \in Stacks : s \in Slots <=> s \notin Maps
BY PlacesAssumption DEF Stacks

\* What an action leaves alone keeps what is said of it.
LEMMA PlacesKept ==
  ASSUME PlacesOK, UNCHANGED <<arenaFree, pool, mapped, hand, stack>>
  PROVE  PlacesOK'
BY DEF PlacesOK, InList, Given

LEMMA CustodyKept ==
  ASSUME CustodyOK, UNCHANGED <<pc, box, hand, state, stack, registry>>
  PROVE  CustodyOK'
BY DEF CustodyOK

LEMMA TasksKept ==
  ASSUME TasksOK, UNCHANGED <<state, stack, current, fault, readers>>
  PROVE  TasksOK'
BY DEF TasksOK

LEMMA RegistryKept ==
  ASSUME RegistryOK, UNCHANGED <<registry, state, stack>>
  PROVE  RegistryOK'
BY DEF RegistryOK

LEMMA LowKept ==
  ASSUME LowOK, UNCHANGED <<committed, low, mapped>>
  PROVE  LowOK'
BY DEF LowOK, LowIsCommitted

LEMMA StorageKept ==
  ASSUME StorageOK, UNCHANGED <<state, last, current, storage, stored>>
  PROVE  StorageOK'
BY DEF StorageOK

----------------------------------------------------------------------------
(* Running.                                                                *)

LEMMA RunStep ==
  ASSUME IInv, NEW t \in Threads, NEW b \in Boxes, Run(t, b)
  PROVE  IInv'
<1> USE DEF IInv, Run, Step, handler, tls, memory
<1>1. TypeOK'
  BY DEF TypeOK
<1>2. PlacesOK'
  BY PlacesKept
<1>3. CustodyOK'
  BY DEF TypeOK, CustodyOK
<1>4. TasksOK'
  BY Apart DEF TypeOK, TasksOK
<1>5. RegistryOK'
  BY DEF TypeOK, RegistryOK
<1>6. LowOK'
  BY LowKept
<1>7. StorageOK'
  BY Apart DEF TypeOK, StorageOK, TasksOK
<1> QED BY <1>1, <1>2, <1>3, <1>4, <1>5, <1>6, <1>7

\* A task leaves its thread, ready or dead.
LEMMA LeaveStep ==
  ASSUME IInv, NEW t \in Threads, NEW to \in {"ready", "dead"}, Leave(t, to)
  PROVE  /\ PlacesOK' /\ CustodyOK' /\ TasksOK' /\ RegistryOK' /\ LowOK'
         /\ current[t] \in Boxes /\ state[current[t]] = "running"
         /\ state' \in [Boxes -> {"free", "new", "ready", "running", "dead", "dropped"}]
         /\ current' \in [Threads -> Boxes \cup {None}]
         /\ \A u \in Threads : current'[u] # None => u # t /\ current'[u] = current[u]
<1> USE DEF IInv, Leave, Step, handler, memory
<1>1. current[t] \in Boxes /\ state[current[t]] = "running"
  BY DEF TypeOK, TasksOK
<1>2. PlacesOK'
  BY PlacesKept
<1>3. CustodyOK'
  BY <1>1 DEF TypeOK, CustodyOK
<1>4. TasksOK'
  BY <1>1, Apart DEF TypeOK, TasksOK
<1>5. RegistryOK'
  BY <1>1 DEF TypeOK, RegistryOK
<1>6. LowOK'
  BY LowKept
<1> QED BY <1>1, <1>2, <1>3, <1>4, <1>5, <1>6 DEF TypeOK

LEMMA SwitchOutStep ==
  ASSUME IInv, NEW t \in Threads, SwitchOut(t)
  PROVE  IInv'
<1> USE DEF SwitchOut, tls
<1>1. Leave(t, "ready")
  OBVIOUS
<1>2. TypeOK'
  BY <1>1, LeaveStep DEF IInv, TypeOK, Leave, Step, handler, memory
<1>3. StorageOK'
  BY <1>1, LeaveStep DEF IInv, TypeOK, StorageOK, Leave, Step
<1> QED BY <1>1, <1>2, <1>3, LeaveStep DEF IInv

LEMMA DieStep ==
  ASSUME IInv, NEW t \in Threads, Die(t)
  PROVE  IInv'
<1>1. Leave(t, "dead")
  BY DEF Die
<1>2. TypeOK'
  BY <1>1, LeaveStep DEF IInv, TypeOK, Die, Leave, Step, handler, memory
<1>3. StorageOK'
  <2>1. current[t] \in Boxes /\ current[t] # None /\ last' = last
    BY <1>1, LeaveStep, Apart DEF Leave
  <2>2. ASSUME ~Moves, NEW b \in stored'
        PROVE  state'[b] \in {"ready", "running"} /\ last'[b] # None
    BY <2>1, <2>2, <1>1 DEF IInv, TypeOK, StorageOK, Die, Leave
  <2>3. ASSUME ~Moves, NEW u \in Threads, current'[u] # None
        PROVE  last'[current'[u]] = u
    BY <2>1, <2>3, <1>1, LeaveStep DEF IInv, StorageOK
  <2>4. ASSUME ~Moves, NEW u \in Threads, NEW b \in Boxes
        PROVE  storage'[u][b] = IF b \in stored' /\ last'[b] = u THEN "owner" ELSE "nobody"
    <3>1. CASE b = current[t]
      BY <2>1, <2>4, <3>1 DEF IInv, TypeOK, StorageOK, Die
    <3>2. CASE b # current[t]
      BY <2>1, <2>4, <3>2 DEF IInv, TypeOK, StorageOK, Die
    <3> QED BY <3>1, <3>2
  <2> QED BY <2>2, <2>3, <2>4 DEF StorageOK
<1> QED BY <1>1, <1>2, <1>3, LeaveStep DEF IInv

LEMMA StoreStep ==
  ASSUME IInv, NEW t \in Threads, Store(t)
  PROVE  IInv'
<1> USE DEF IInv, Store, Step, handler, tasks, memory
<1>1. TypeOK'
  BY DEF TypeOK
<1>2. PlacesOK' /\ LowOK' /\ RegistryOK'
  BY PlacesKept, LowKept, RegistryKept
<1>3. CustodyOK'
  BY DEF TypeOK, CustodyOK
<1>4. TasksOK'
  BY TasksKept
<1>5. StorageOK'
  <2>1. current[t] \in Boxes /\ state[current[t]] = "running"
    BY DEF TypeOK, TasksOK
  <2>2. ASSUME ~Moves, NEW u \in Threads, NEW b \in Boxes
        PROVE  storage'[u][b] = IF b \in stored' /\ last'[b] = u THEN "owner" ELSE "nobody"
    <3>1. CASE b = current[t]
      BY <2>1, <2>2, <3>1 DEF TypeOK, StorageOK
    <3>2. CASE b # current[t]
      BY <2>1, <2>2, <3>2 DEF TypeOK, StorageOK
    <3> QED BY <3>1, <3>2
  <2>3. ASSUME ~Moves
        PROVE  /\ \A b \in stored' : state'[b] \in {"ready", "running"} /\ last'[b] # None
               /\ \A u \in Threads : current'[u] # None => last'[current'[u]] = u
    BY <2>1, <2>3, Apart DEF TypeOK, StorageOK
  <2> QED BY <2>2, <2>3 DEF StorageOK
<1> QED BY <1>1, <1>2, <1>3, <1>4, <1>5

----------------------------------------------------------------------------
(* Faults.                                                                 *)

LEMMA TouchStep ==
  ASSUME IInv, NEW t \in Threads, NEW p \in 1..Pages, Touch(t, p)
  PROVE  IInv'
<1> USE DEF IInv, Touch, memory, tasks, handler, tls
<1>1. TypeOK'
  BY BoundsAssumption DEF TypeOK
<1>2. PlacesOK' /\ CustodyOK' /\ RegistryOK' /\ LowOK' /\ StorageOK'
  BY PlacesKept, CustodyKept, RegistryKept, LowKept, StorageKept
<1>3. TasksOK'
  BY DEF TypeOK, TasksOK
<1> QED BY <1>1, <1>2, <1>3

LEMMA ExtendSlotStep ==
  ASSUME IInv, NEW t \in Threads, ExtendSlot(t)
  PROVE  IInv'
<1> USE DEF IInv, ExtendSlot, tasks, handler, tls
<1>1. fault[t] \in 1..Pages /\ stack[current[t]] \in Stacks
  BY Apart, BoundsAssumption DEF TypeOK
<1>2. TypeOK'
  BY <1>1, BoundsAssumption DEF TypeOK
<1>3. PlacesOK' /\ CustodyOK' /\ RegistryOK' /\ StorageOK'
  BY PlacesKept, CustodyKept, RegistryKept, StorageKept
<1>4. TasksOK'
  BY Apart DEF TypeOK, TasksOK
<1>5. LowOK'
  BY <1>1 DEF TypeOK, LowOK, LowIsCommitted
<1> QED BY <1>2, <1>3, <1>4, <1>5

LEMMA ReadRegistryStep ==
  ASSUME IInv, NEW t \in Threads, ReadRegistry(t)
  PROVE  IInv'
<1> USE DEF IInv, ReadRegistry, memory, tasks, threads, tls
<1>1. TypeOK'
  BY DEF TypeOK
<1>2. PlacesOK' /\ CustodyOK' /\ RegistryOK' /\ LowOK' /\ StorageOK'
  BY PlacesKept, CustodyKept, RegistryKept, LowKept, StorageKept
<1>3. TasksOK'
  BY DEF TypeOK, TasksOK
<1> QED BY <1>1, <1>2, <1>3

LEMMA SpinsOutStep ==
  ASSUME IInv, NEW t \in Threads, SpinsOut(t)
  PROVE  IInv'
<1> USE DEF IInv, SpinsOut, memory, tasks, threads, tls
<1>1. TypeOK'
  BY DEF TypeOK
<1>2. PlacesOK' /\ CustodyOK' /\ RegistryOK' /\ LowOK' /\ StorageOK' /\ TasksOK'
  BY PlacesKept, CustodyKept, RegistryKept, LowKept, StorageKept, TasksKept
<1> QED BY <1>1, <1>2

\* What the handler promises after it has grown a prefix of n pages.
LEMMA GrownFact ==
  ASSUME NEW n \in 0..Pages
  PROVE  /\ Grown(n) \in 0..Pages
         /\ n # 0 => Grown(n) # 0
         /\ 1..Grown(n) \subseteq 1..Pages
         /\ n # 0 => \/ Grown(n) = Pages
                     \/ Grown(n) > n
BY BoundsAssumption DEF Grown

LEMMA ReaderFact ==
  ASSUME IInv, NEW t \in readers
  PROVE  /\ t \in Threads /\ current[t] \in Boxes
         /\ stack[current[t]] \in Maps /\ stack[current[t]] \in Stacks
         /\ stack[current[t]] \in mapped
         /\ low[stack[current[t]]] \in 1..Pages
         /\ fault[t] \in 1..Pages
<1>1. t \in Threads /\ current[t] \in Boxes /\ fault[t] \in 1..Pages
  BY BoundsAssumption DEF IInv, TypeOK, TasksOK
<1>2. stack[current[t]] \in Maps /\ stack[current[t]] \in Stacks
  BY Apart DEF IInv, TasksOK
<1>3. stack[current[t]] \in mapped
  BY <1>1, <1>2 DEF IInv, PlacesOK, Given
<1>4. low[stack[current[t]]] \in 1..Pages
  BY <1>2, <1>3, BoundsAssumption DEF IInv, TypeOK, LowOK
<1> QED BY <1>1, <1>2, <1>3, <1>4

LEMMA ExtendMapStep ==
  ASSUME IInv, NEW t \in Threads, ExtendMap(t)
  PROVE  /\ IInv'
         /\ fault'[t] # 0 => low'[stack[current[t]]] > low[stack[current[t]]]
<1> DEFINE s == stack[current[t]]
<1> USE DEF tls
<1>0. /\ t \in readers /\ readers' = readers \ {t}
      /\ committed' = [committed EXCEPT ![s] = @ \cup (1..Grown(low[s]))]
      /\ low' = [low EXCEPT ![s] = Grown(low[s])]
      /\ fault' = [fault EXCEPT ![t] = IF @ \in committed'[s] THEN 0 ELSE @]
      /\ UNCHANGED <<arenaFree, pool, mapped, state, stack, last, registry, writer,
                     killed, pc, box, hand, current, storage, stored>>
  BY DEF ExtendMap, tasks
<1>1. s \in Stacks /\ s \in mapped /\ low[s] \in 1..Pages /\ fault[t] \in 1..Pages
  BY <1>0, ReaderFact
<1>2. /\ Grown(low[s]) \in 0..Pages /\ Grown(low[s]) # 0
      /\ 1..Grown(low[s]) \subseteq 1..Pages
      /\ Grown(low[s]) = Pages \/ Grown(low[s]) > low[s]
  <2>1. low[s] \in 0..Pages /\ low[s] # 0
    BY <1>1, BoundsAssumption
  <2> QED BY <2>1, GrownFact
<1> HIDE DEF s
<1>3. /\ committed' \in [Stacks -> SUBSET (1..Pages)]
      /\ low' \in [Stacks -> 0..Pages]
      /\ committed'[s] = committed[s] \cup (1..Grown(low[s]))
      /\ low'[s] = Grown(low[s])
      /\ \A r \in Stacks : r # s => committed'[r] = committed[r] /\ low'[r] = low[r]
  BY <1>0, <1>1, <1>2 DEF IInv, TypeOK
<1>4. /\ fault' \in [Threads -> 0..Pages]
      /\ (fault'[t] # 0 => fault[t] \notin committed'[s])
      /\ \A u \in Threads : fault'[u] # 0 => fault[u] # 0 /\ (u # t => fault'[u] = fault[u])
      /\ \A u \in Threads : u # t => fault'[u] = fault[u]
  BY <1>0, BoundsAssumption DEF IInv, TypeOK
<1>5. TypeOK'
  BY <1>0, <1>3, <1>4 DEF IInv, TypeOK
<1>6. PlacesOK' /\ CustodyOK' /\ RegistryOK' /\ StorageOK'
  BY <1>0, PlacesKept, CustodyKept, RegistryKept, StorageKept DEF IInv
<1>7. TasksOK'
  BY <1>0, <1>4 DEF IInv, TypeOK, TasksOK
<1>8. LowOK'
  <2>1. ASSUME NEW r \in Stacks PROVE 1..low'[r] \subseteq committed'[r]
    <3>1. CASE r = s
      BY <3>1, <1>3
    <3>2. CASE r # s
      BY <3>2, <1>3 DEF IInv, LowOK, LowIsCommitted
    <3> QED BY <3>1, <3>2
  <2>2. ASSUME NEW r \in mapped PROVE low'[r] # 0
    <3>1. r \in Stacks
      BY Apart DEF IInv, TypeOK
    <3> QED BY <3>1, <1>2, <1>3 DEF IInv, LowOK
  <2> QED BY <2>1, <2>2, <1>0 DEF LowOK, LowIsCommitted
<1>9. fault'[t] # 0 => low'[s] > low[s]
  BY <1>1, <1>2, <1>3, <1>4, BoundsAssumption
<1> QED BY <1>5, <1>6, <1>7, <1>8, <1>9 DEF IInv, s

----------------------------------------------------------------------------
(* Reserving a stack and building a task.                                  *)

\* The lists of stacks change at their end.
LEMMA ArenaFront ==
  ASSUME TypeOK, arenaFree # <<>>
  PROVE  LET s == arenaFree[Len(arenaFree)]
         IN  /\ s \in Slots /\ Front1(arenaFree) \in Seq(Slots)
             /\ Range(arenaFree) = Range(Front1(arenaFree)) \cup {s}
             /\ IsInjective(arenaFree) =>
                  IsInjective(Front1(arenaFree)) /\ s \notin Range(Front1(arenaFree))
BY RangeFront DEF TypeOK, Front1

LEMMA PoolFront ==
  ASSUME TypeOK, pool # <<>>
  PROVE  LET s == pool[Len(pool)]
         IN  /\ s \in Maps /\ Front1(pool) \in Seq(Maps)
             /\ Range(pool) = Range(Front1(pool)) \cup {s}
             /\ IsInjective(pool) =>
                  IsInjective(Front1(pool)) /\ s \notin Range(Front1(pool))
BY RangeFront DEF TypeOK, Front1

LEMMA ListRanges ==
  ASSUME TypeOK
  PROVE  Range(arenaFree) \subseteq Slots /\ Range(pool) \subseteq Maps
BY ElementOfSeq, LenProperties DEF TypeOK, Range

\* A thread with empty hands takes a stack that nobody has: from a list, or a
\* mapping that did not exist.
LEMMA HandTakes ==
  ASSUME IInv, NEW t \in Threads, NEW s \in Stacks,
         hand[t] = None, ~Given(s), ~InList(s)',
         hand' = [hand EXCEPT ![t] = s], stack' = stack,
         IsInjective(arenaFree)', IsInjective(pool)',
         \A r \in Stacks : r # s => (InList(r)' <=> InList(r)),
         mapped' = IF s \in Maps THEN mapped \cup {s} ELSE mapped
  PROVE  PlacesOK'
<1>1. /\ hand'[t] = s
      /\ \A u \in Threads : u # t => hand'[u] = hand[u]
      /\ \A u \in Threads : hand[u] # s
      /\ \A b \in Boxes : stack[b] # s
      /\ s # None
  BY Apart DEF IInv, TypeOK, Given
<1>2. \A r \in Stacks : r # s => (Given(r)' <=> Given(r))
  BY <1>1, Apart DEF Given
<1>3. Given(s)'
  BY <1>1 DEF Given
<1>4. \A u, v \in Threads : hand'[u] = hand'[v] /\ hand'[u] # None => u = v
  BY <1>1 DEF IInv, PlacesOK
<1>5. \A u \in Threads, b \in Boxes : hand'[u] = stack'[b] => hand'[u] = None
  BY <1>1 DEF IInv, PlacesOK
<1>6. \A b, c \in Boxes : stack'[b] = stack'[c] /\ stack'[b] # None => b = c
  BY DEF IInv, PlacesOK
<1>7. /\ \A r \in Stacks : InList(r)' => ~Given(r)'
      /\ \A r \in Slots : InList(r)' \/ Given(r)'
      /\ \A r \in Maps : r \in mapped' <=> InList(r)' \/ Given(r)'
  BY <1>2, <1>3, Apart DEF IInv, PlacesOK
<1> QED BY <1>4, <1>5, <1>6, <1>7 DEF PlacesOK

\* What else changes when a thread takes something in hand.
LEMMA HandCustody ==
  ASSUME IInv, NEW t \in Threads, NEW s \in Stacks, NEW to \in {"build", "giveBack"},
         pc[t] \in {"idle", "fallback"}, pc' = [pc EXCEPT ![t] = to],
         hand' = [hand EXCEPT ![t] = s], to = "giveBack" => s \in Slots,
         UNCHANGED <<box, state, stack, registry>>
  PROVE  CustodyOK'
<1>1. /\ pc'[t] = to /\ hand'[t] = s /\ s # None
      /\ \A u \in Threads : u # t => pc'[u] = pc[u] /\ hand'[u] = hand[u]
  BY Apart DEF IInv, TypeOK
<1> QED BY <1>1 DEF IInv, CustodyOK

LEMMA TakeSlotStep ==
  ASSUME IInv, NEW t \in Threads, TakeSlot(t)
  PROVE  IInv'
<1> USE DEF TakeSlot, Step, tasks, handler, tls
<1>1. PICK s \in Slots :
      /\ s = arenaFree[Len(arenaFree)] /\ s \in Stacks /\ s \in Range(arenaFree)
      /\ arenaFree' \in Seq(Slots)
      /\ IsInjective(arenaFree') /\ s \notin Range(arenaFree')
      /\ Range(arenaFree) = Range(arenaFree') \cup {s}
  BY ArenaFront, Apart DEF IInv, PlacesOK
<1>2. /\ committed' = [committed EXCEPT ![s] = @ \cup Tops]
      /\ low' = [low EXCEPT ![s] = 1] /\ hand' = [hand EXCEPT ![t] = s]
  BY <1>1
<1>3. TypeOK'
  BY <1>1, <1>2, BoundsAssumption DEF IInv, TypeOK, Tops
<1>4. PlacesOK'
  <2>1. hand[t] = None /\ ~Given(s) /\ s \notin Maps
    BY <1>1, Apart DEF IInv, CustodyOK, PlacesOK, InList
  <2>2. ~InList(s)' /\ \A r \in Stacks : r # s => (InList(r)' <=> InList(r))
    BY <1>1, <2>1, ListRanges DEF InList, IInv
  <2>3. /\ IsInjective(arenaFree)' /\ IsInjective(pool)'
        /\ mapped' = IF s \in Maps THEN mapped \cup {s} ELSE mapped
    BY <1>1, <2>1 DEF IInv, PlacesOK
  <2> QED BY <1>1, <1>2, <2>1, <2>2, <2>3, HandTakes
<1>5. CustodyOK'
  BY <1>1, <1>2, HandCustody
<1>6. TasksOK' /\ RegistryOK' /\ StorageOK'
  BY TasksKept, RegistryKept, StorageKept DEF IInv
<1>7. LowOK'
  BY <1>1, <1>2, Apart DEF IInv, TypeOK, LowOK, LowIsCommitted, Tops
<1> QED BY <1>3, <1>4, <1>5, <1>6, <1>7 DEF IInv

LEMMA CannotCommitStep ==
  ASSUME IInv, NEW t \in Threads, CannotCommit(t)
  PROVE  IInv'
<1> USE DEF CannotCommit, Step, tasks, handler, tls
<1>1. PICK s \in Slots :
      /\ s = arenaFree[Len(arenaFree)] /\ s \in Stacks /\ s \in Range(arenaFree)
      /\ arenaFree' \in Seq(Slots)
      /\ IsInjective(arenaFree') /\ s \notin Range(arenaFree')
      /\ Range(arenaFree) = Range(arenaFree') \cup {s}
  BY ArenaFront, Apart DEF IInv, PlacesOK
<1>2. hand' = [hand EXCEPT ![t] = s]
  BY <1>1
<1>3. TypeOK'
  BY <1>1, <1>2 DEF IInv, TypeOK
<1>4. PlacesOK'
  <2>1. hand[t] = None /\ ~Given(s) /\ s \notin Maps
    BY <1>1, Apart DEF IInv, CustodyOK, PlacesOK, InList
  <2>2. ~InList(s)' /\ \A r \in Stacks : r # s => (InList(r)' <=> InList(r))
    BY <1>1, <2>1, ListRanges DEF InList, IInv
  <2>3. /\ IsInjective(arenaFree)' /\ IsInjective(pool)'
        /\ mapped' = IF s \in Maps THEN mapped \cup {s} ELSE mapped
    BY <1>1, <2>1 DEF IInv, PlacesOK
  <2> QED BY <1>1, <1>2, <2>1, <2>2, <2>3, HandTakes
<1>5. CustodyOK'
  BY <1>1, <1>2, HandCustody
<1>6. TasksOK' /\ RegistryOK' /\ StorageOK' /\ LowOK'
  BY TasksKept, RegistryKept, StorageKept, LowKept DEF IInv
<1> QED BY <1>3, <1>4, <1>5, <1>6 DEF IInv

LEMMA TakePooledStep ==
  ASSUME IInv, NEW t \in Threads, TakePooled(t)
  PROVE  IInv'
<1> USE DEF TakePooled, Step, tasks, handler, tls
<1>1. PICK s \in Maps :
      /\ s = pool[Len(pool)] /\ s \in Stacks /\ s \in Range(pool)
      /\ pool' \in Seq(Maps)
      /\ IsInjective(pool') /\ s \notin Range(pool')
      /\ Range(pool) = Range(pool') \cup {s}
  BY PoolFront, Apart DEF IInv, PlacesOK
<1>2. hand' = [hand EXCEPT ![t] = s]
  BY <1>1
<1>3. TypeOK'
  BY <1>1, <1>2 DEF IInv, TypeOK
<1>4. PlacesOK'
  <2>1. hand[t] = None /\ ~Given(s) /\ s \in mapped /\ s \notin Slots
    BY <1>1, Apart DEF IInv, CustodyOK, PlacesOK, InList
  <2>2. ~InList(s)' /\ \A r \in Stacks : r # s => (InList(r)' <=> InList(r))
    BY <1>1, <2>1, ListRanges DEF InList, IInv
  <2>3. /\ IsInjective(arenaFree)' /\ IsInjective(pool)'
        /\ mapped' = IF s \in Maps THEN mapped \cup {s} ELSE mapped
    BY <1>1, <2>1 DEF IInv, PlacesOK
  <2> QED BY <1>1, <1>2, <2>1, <2>2, <2>3, HandTakes
<1>5. CustodyOK'
  BY <1>1, <1>2, HandCustody
<1>6. TasksOK' /\ RegistryOK' /\ StorageOK' /\ LowOK'
  BY TasksKept, RegistryKept, StorageKept, LowKept DEF IInv
<1> QED BY <1>3, <1>4, <1>5, <1>6 DEF IInv

LEMMA MapFreshStep ==
  ASSUME IInv, NEW t \in Threads, NEW s \in Maps, MapFresh(t, s)
  PROVE  IInv'
<1> USE DEF MapFresh, Step, tasks, handler, tls
<1>1. s \in Stacks
  BY Apart
<1>2. TypeOK'
  BY <1>1, BoundsAssumption DEF IInv, TypeOK, Tops
<1>3. PlacesOK'
  <2>1. hand[t] = None /\ ~Given(s) /\ ~InList(s)
    BY DEF IInv, CustodyOK, PlacesOK
  <2>2. ~InList(s)' /\ \A r \in Stacks : r # s => (InList(r)' <=> InList(r))
    BY <2>1 DEF InList
  <2>3. /\ IsInjective(arenaFree)' /\ IsInjective(pool)'
        /\ mapped' = IF s \in Maps THEN mapped \cup {s} ELSE mapped
    BY DEF IInv, PlacesOK
  <2> QED BY <1>1, <2>1, <2>2, <2>3, HandTakes
<1>4. CustodyOK'
  BY <1>1, HandCustody
<1>5. TasksOK' /\ RegistryOK' /\ StorageOK'
  BY TasksKept, RegistryKept, StorageKept DEF IInv
<1>6. LowOK'
  BY <1>1, Apart DEF IInv, TypeOK, LowOK, LowIsCommitted, Tops
<1> QED BY <1>2, <1>3, <1>4, <1>5, <1>6 DEF IInv

LEMMA NoSlotStep ==
  ASSUME IInv, NEW t \in Threads, NoSlot(t)
  PROVE  IInv'
<1> USE DEF IInv, NoSlot, Step, memory, tasks, handler, tls
<1>1. TypeOK'
  BY DEF TypeOK
<1>2. PlacesOK' /\ TasksOK' /\ RegistryOK' /\ LowOK' /\ StorageOK'
  BY PlacesKept, TasksKept, RegistryKept, LowKept, StorageKept
<1>3. CustodyOK'
  BY DEF TypeOK, CustodyOK
<1> QED BY <1>1, <1>2, <1>3

LEMMA GiveBackStep ==
  ASSUME IInv, NEW t \in Threads, GiveBack(t)
  PROVE  IInv'
<1> USE DEF GiveBack, Step, tasks, handler, tls
<1>1. PICK s \in Slots : s = hand[t] /\ s \in Stacks /\ s # None
  BY Apart DEF IInv, CustodyOK
<1>2. ~InList(s)
  BY <1>1 DEF IInv, PlacesOK, Given
<1>3. /\ arenaFree' \in Seq(Slots) /\ IsInjective(arenaFree')
      /\ Range(arenaFree') = Range(arenaFree) \cup {s}
  BY <1>1, <1>2, RangeAppend DEF IInv, TypeOK, PlacesOK, InList
<1>4. TypeOK'
  BY <1>3 DEF IInv, TypeOK
<1>5. PlacesOK'
  <2>1. /\ hand'[t] = None
        /\ \A u \in Threads : u # t => hand'[u] = hand[u] /\ hand[u] # s
    BY <1>1 DEF IInv, TypeOK, PlacesOK
  <2>2. ASSUME NEW r \in Stacks, r # s
        PROVE  (Given(r)' <=> Given(r)) /\ (InList(r)' <=> InList(r))
    <3>1. hand[t] # r /\ hand'[t] # r
      BY <1>1, <2>1, <2>2, Apart
    <3>2. Given(r)' <=> Given(r)
      BY <2>1, <3>1 DEF Given
    <3>3. InList(r)' <=> InList(r)
      BY <1>3, <2>2 DEF InList
    <3> QED BY <3>2, <3>3
  <2>3. InList(s)' /\ ~Given(s)'
    BY <2>1, <1>1, <1>3 DEF Given, InList, IInv, PlacesOK
  <2>4. \A u, v \in Threads : hand'[u] = hand'[v] /\ hand'[u] # None => u = v
    BY <2>1 DEF IInv, PlacesOK
  <2>5. \A u \in Threads, b \in Boxes : hand'[u] = stack'[b] => hand'[u] = None
    BY <2>1 DEF IInv, PlacesOK
  <2>6. IsInjective(pool') /\ \A b, c \in Boxes : stack'[b] = stack'[c] /\ stack'[b] # None => b = c
    BY DEF IInv, PlacesOK
  <2>7. /\ \A r \in Stacks : InList(r)' => ~Given(r)'
        /\ \A r \in Slots : InList(r)' \/ Given(r)'
        /\ \A r \in Maps : r \in mapped' <=> InList(r)' \/ Given(r)'
    BY <2>2, <2>3, <1>1, Apart DEF IInv, PlacesOK
  <2> QED BY <1>3, <2>4, <2>5, <2>6, <2>7 DEF PlacesOK
<1>6. CustodyOK'
  BY DEF IInv, TypeOK, CustodyOK
<1>7. TasksOK' /\ RegistryOK' /\ StorageOK' /\ LowOK'
  BY TasksKept, RegistryKept, StorageKept, LowKept DEF IInv
<1> QED BY <1>4, <1>5, <1>6, <1>7 DEF IInv

\* A box somebody works on is neither free nor in use.
LEMMA HeldBoxes ==
  ASSUME IInv, NEW t \in Threads, box[t] # None
  PROVE  box[t] \in Boxes /\ state[box[t]] \in {"new", "dropped"}
<1>1. box[t] \in Boxes
  BY DEF IInv, TypeOK
<1>2. pc[t] \in {"register", "registering", "unregister", "unregistering", "recycle", "unmap"}
  BY DEF IInv, TypeOK, CustodyOK
<1> QED BY <1>1, <1>2 DEF IInv, CustodyOK

\* A stack goes from the thread's hand into a new box.
LEMMA BuildStep ==
  ASSUME IInv, NEW t \in Threads, NEW b \in Boxes, Build(t, b)
  PROVE  IInv'
<1> USE DEF tls, handler, memory
<1>1. /\ pc[t] = "build" /\ state[b] = "free" /\ box[t] = None /\ stack[b] = None
      /\ b \notin registry /\ (b \notin stored \/ Moves)
  BY Apart DEF Build, Step, IInv, CustodyOK, TasksOK, RegistryOK, StorageOK
<1>2. PICK s \in Stacks : s = hand[t] /\ s # None
  BY <1>1, Apart DEF IInv, TypeOK, CustodyOK
<1>3. /\ pc' = [pc EXCEPT ![t] = IF s \in Slots THEN "idle" ELSE "register"]
      /\ state' = [state EXCEPT ![b] = IF s \in Slots THEN "ready" ELSE "new"]
      /\ stack' = [stack EXCEPT ![b] = s]
      /\ last' = [last EXCEPT ![b] = None]
      /\ hand' = [hand EXCEPT ![t] = None]
      /\ box' = [box EXCEPT ![t] = IF s \in Slots THEN None ELSE b]
      /\ UNCHANGED <<arenaFree, pool, mapped, committed, low, registry, writer, readers,
                     killed, current, fault, storage, stored>>
  BY <1>2 DEF Build, Step
<1>4. TypeOK'
  BY <1>3 DEF IInv, TypeOK
<1>5. /\ hand'[t] = None /\ stack'[b] = s
      /\ \A u \in Threads : u # t => hand'[u] = hand[u] /\ hand[u] # s
      /\ \A c \in Boxes : c # b => stack'[c] = stack[c]
      /\ \A c \in Boxes : stack[c] # s
  BY <1>2, <1>3 DEF IInv, TypeOK, PlacesOK
<1>6. PlacesOK'
  <2>1. ASSUME NEW r \in Stacks PROVE (Given(r)' <=> Given(r)) /\ (InList(r)' <=> InList(r))
    <3>1. InList(r)' <=> InList(r)
      BY <1>3 DEF InList
    <3>2. CASE r = s
      <4>1. hand[t] = r /\ stack'[b] = r
        BY <1>2, <1>5, <3>2
      <4> QED BY <3>1, <4>1 DEF Given
    <3>3. CASE r # s
      <4>1. hand[t] # r /\ hand'[t] # r /\ stack[b] # r /\ stack'[b] # r
        BY <1>1, <1>2, <1>5, <3>3, Apart
      <4>2. \A u \in Threads : hand'[u] = r <=> hand[u] = r
        BY <4>1, <1>5
      <4>3. \A c \in Boxes : stack'[c] = r <=> stack[c] = r
        BY <4>1, <1>5
      <4> QED BY <3>1, <4>2, <4>3 DEF Given
    <3> QED BY <3>1, <3>2, <3>3
  <2>2. \A u, v \in Threads : hand'[u] = hand'[v] /\ hand'[u] # None => u = v
    BY <1>5 DEF IInv, PlacesOK
  <2>3. \A u \in Threads, c \in Boxes : hand'[u] = stack'[c] => hand'[u] = None
    BY <1>5 DEF IInv, PlacesOK
  <2>4. \A c, d \in Boxes : stack'[c] = stack'[d] /\ stack'[c] # None => c = d
    BY <1>5 DEF IInv, PlacesOK
  <2>5. IsInjective(arenaFree') /\ IsInjective(pool')
    BY <1>3 DEF IInv, PlacesOK
  <2>6. /\ \A r \in Stacks : InList(r)' => ~Given(r)'
        /\ \A r \in Slots : InList(r)' \/ Given(r)'
        /\ \A r \in Maps : r \in mapped' <=> InList(r)' \/ Given(r)'
    BY <1>3, <2>1, Apart DEF IInv, PlacesOK
  <2> QED BY <2>2, <2>3, <2>4, <2>5, <2>6 DEF PlacesOK
<1>7. \A c \in Boxes : c # b => state'[c] = state[c] /\ last'[c] = last[c]
  BY <1>3 DEF IInv, TypeOK
<1>8. \A u \in Threads : box[u] # b
  BY <1>1, HeldBoxes, Apart
<1>9. CustodyOK'
  <2>1. /\ \A u \in Threads : u # t => box'[u] = box[u] /\ pc'[u] = pc[u]
        /\ box'[t] = IF s \in Slots THEN None ELSE b
        /\ pc'[t] = IF s \in Slots THEN "idle" ELSE "register"
        /\ state'[b] = IF s \in Slots THEN "ready" ELSE "new"
    BY <1>3 DEF IInv, TypeOK
  <2>2. \A u, v \in Threads : box'[u] = box'[v] /\ box'[u] # None => u = v
    BY <2>1, <1>8 DEF IInv, CustodyOK
  <2>3. ASSUME NEW u \in Threads
        PROVE  /\ hand'[u] # None <=> pc'[u] \in {"build", "giveBack"}
               /\ pc'[u] = "giveBack" => hand'[u] \in Slots
               /\ box'[u] = None <=> pc'[u] \in {"idle", "giveBack", "fallback", "build"}
               /\ pc'[u] \in {"register", "registering"} =>
                    state'[box'[u]] = "new" /\ stack'[box'[u]] \in Maps
               /\ pc'[u] \in {"unregister", "unregistering", "recycle", "unmap"} =>
                    state'[box'[u]] = "dropped"
               /\ pc'[u] \in {"unregister", "unregistering", "unmap"} => stack'[box'[u]] \in Maps
               /\ pc'[u] \in {"recycle", "unmap"} => box'[u] \notin registry'
    <3>1. CASE u = t
      BY <3>1, <2>1, <1>2, <1>5, Apart
    <3>2. CASE u # t
      <4>1. box[u] = None \/ (box[u] \in Boxes /\ box[u] # b)
        BY <1>8 DEF IInv, TypeOK
      <4> QED BY <4>1, <3>2, <2>1, <1>3, <1>5, <1>7 DEF IInv, CustodyOK
    <3> QED BY <3>1, <3>2
  <2> QED BY <2>2, <2>3 DEF CustodyOK
<1>10. \A u \in Threads : current[u] # b
  BY <1>1, Apart DEF IInv, TasksOK
<1>11. TasksOK'
  <2>1. state'[b] # "free" /\ stack'[b] # None
    BY <1>2, <1>3, <1>5 DEF IInv, TypeOK
  <2>2. \A c \in Boxes : stack'[c] = None <=> state'[c] = "free"
    BY <2>1, <1>5, <1>7 DEF IInv, TasksOK
  <2>3. \A u \in Threads : current[u] # None => current[u] \in Boxes /\ current[u] # b
    BY <1>10 DEF IInv, TypeOK
  <2>4. \A u \in readers : u \in Threads /\ current[u] # None
    BY DEF IInv, TypeOK, TasksOK
  <2> QED BY <2>2, <2>3, <2>4, <1>3, <1>5, <1>7 DEF IInv, TasksOK
<1>12. RegistryOK'
  BY <1>1, <1>2, <1>3, <1>5, <1>7, Apart DEF IInv, TypeOK, RegistryOK
<1>13. StorageOK'
  <2>1. ASSUME ~Moves PROVE b \notin stored /\ \A u \in Threads : storage[u][b] = "nobody"
    BY <1>1, <2>1 DEF IInv, StorageOK
  <2>2. ASSUME ~Moves, NEW c \in stored' PROVE state'[c] \in {"ready", "running"} /\ last'[c] # None
    BY <2>1, <2>2, <1>3, <1>7 DEF IInv, TypeOK, StorageOK
  <2>3. ASSUME ~Moves, NEW u \in Threads, current'[u] # None PROVE last'[current'[u]] = u
    BY <2>3, <1>3, <1>7, <1>10 DEF IInv, TypeOK, StorageOK
  <2>4. ASSUME ~Moves, NEW u \in Threads, NEW c \in Boxes
        PROVE  storage'[u][c] = IF c \in stored' /\ last'[c] = u THEN "owner" ELSE "nobody"
    <3>1. CASE c = b
      BY <2>1, <2>4, <3>1, <1>3
    <3>2. CASE c # b
      BY <2>4, <3>2, <1>3, <1>7 DEF IInv, StorageOK
    <3> QED BY <3>1, <3>2
  <2> QED BY <2>2, <2>3, <2>4 DEF StorageOK
<1>14. LowOK'
  BY <1>3, LowKept DEF IInv
<1> QED BY <1>4, <1>6, <1>9, <1>11, <1>12, <1>13, <1>14 DEF IInv

LEMMA RegisterStep ==
  ASSUME IInv, NEW t \in Threads, Register(t)
  PROVE  IInv'
<1> USE DEF IInv, Register, LockRegistry, Step, memory, tasks, tls
<1>1. TypeOK'
  BY DEF TypeOK
<1>2. PlacesOK' /\ TasksOK' /\ RegistryOK' /\ LowOK' /\ StorageOK'
  BY PlacesKept, TasksKept, RegistryKept, LowKept, StorageKept
<1>3. CustodyOK'
  BY DEF TypeOK, CustodyOK
<1> QED BY <1>1, <1>2, <1>3

LEMMA RegisteredStep ==
  ASSUME IInv, NEW t \in Threads, Registered(t)
  PROVE  IInv'
<1>1. /\ pc[t] = "registering" /\ box[t] \in Boxes /\ box[t] # None
      /\ state[box[t]] = "new" /\ stack[box[t]] \in Maps
  BY ZenonT(30) DEF Registered, Step, IInv, TypeOK, CustodyOK
<1>2. PICK b \in Boxes : b = box[t] /\ b # None /\ state[b] = "new" /\ stack[b] \in Maps
  BY <1>1
<1>3. /\ pc' = [pc EXCEPT ![t] = "idle"]
      /\ registry' = registry \cup {b}
      /\ writer' = None
      /\ state' = [state EXCEPT ![b] = "ready"]
      /\ box' = [box EXCEPT ![t] = None]
      /\ UNCHANGED <<arenaFree, pool, mapped, committed, low, stack, last, readers,
                     killed, hand, current, fault, storage, stored>>
  BY <1>2 DEF Registered, Step, Readied, memory, tls
<1>4. TypeOK'
  BY <1>3 DEF IInv, TypeOK
<1>5. PlacesOK' /\ LowOK'
  BY <1>3, PlacesKept, LowKept DEF IInv
<1>6. /\ state'[b] = "ready" /\ \A c \in Boxes : c # b => state'[c] = state[c]
      /\ pc'[t] = "idle" /\ \A u \in Threads : u # t => pc'[u] = pc[u]
      /\ box'[t] = None /\ \A u \in Threads : u # t => box'[u] = box[u] /\ box[u] # b
  BY <1>2, <1>3 DEF IInv, TypeOK, CustodyOK
<1>7. CustodyOK'
  <2>1. \A u, v \in Threads : box'[u] = box'[v] /\ box'[u] # None => u = v
    BY <1>6 DEF IInv, CustodyOK
  <2>2. ASSUME NEW u \in Threads, u # t
        PROVE  box'[u] = box[u] /\ pc'[u] = pc[u] /\ hand'[u] = hand[u] /\ box[u] # b
               /\ (box[u] # None => box[u] \in Boxes /\ state'[box[u]] = state[box[u]])
    BY <2>2, <1>3, <1>6, HeldBoxes
  <2>3. hand'[t] = None
    BY <1>1, <1>3 DEF IInv, CustodyOK
  <2>4. ASSUME NEW u \in Threads
        PROVE  /\ hand'[u] # None <=> pc'[u] \in {"build", "giveBack"}
               /\ pc'[u] = "giveBack" => hand'[u] \in Slots
               /\ box'[u] = None <=> pc'[u] \in {"idle", "giveBack", "fallback", "build"}
               /\ pc'[u] \in {"register", "registering"} =>
                    state'[box'[u]] = "new" /\ stack'[box'[u]] \in Maps
               /\ pc'[u] \in {"unregister", "unregistering", "recycle", "unmap"} =>
                    state'[box'[u]] = "dropped"
               /\ pc'[u] \in {"unregister", "unregistering", "unmap"} => stack'[box'[u]] \in Maps
               /\ pc'[u] \in {"recycle", "unmap"} => box'[u] \notin registry'
    <3>1. CASE u = t
      BY <3>1, <2>3, <1>6
    <3>2. CASE u # t
      BY <3>2, <2>2, <1>3 DEF IInv, CustodyOK
    <3> QED BY <3>1, <3>2
  <2> QED BY <2>1, <2>4 DEF CustodyOK
<1>8. TasksOK'
  BY <1>2, <1>3, <1>6 DEF IInv, TypeOK, TasksOK
<1>9. RegistryOK'
  BY <1>2, <1>3, <1>6 DEF IInv, TypeOK, RegistryOK
<1>10. StorageOK'
  BY <1>2, <1>3, <1>6 DEF IInv, TypeOK, StorageOK
<1> QED BY <1>4, <1>5, <1>7, <1>8, <1>9, <1>10 DEF IInv

----------------------------------------------------------------------------
(* Dropping a dead task.                                                   *)

LEMMA DropStep ==
  ASSUME IInv, NEW t \in Threads, NEW b \in Boxes, Drop(t, b)
  PROVE  IInv'
<1> USE DEF memory, handler, tls
<1>1. /\ state[b] = "dead" /\ b # None /\ stack[b] # None /\ pc[t] = "idle" /\ box[t] = None
      /\ hand[t] = None
  BY Apart DEF Drop, Step, IInv, TasksOK, CustodyOK
<1>2. /\ pc' = [pc EXCEPT ![t] = IF stack[b] \in Slots THEN "recycle" ELSE "unregister"]
      /\ state' = [state EXCEPT ![b] = "dropped"]
      /\ box' = [box EXCEPT ![t] = b]
      /\ UNCHANGED <<arenaFree, pool, mapped, committed, low, stack, last, registry, writer,
                     readers, killed, hand, current, fault, storage, stored>>
  BY DEF Drop, Step
<1>3. TypeOK'
  BY <1>2 DEF IInv, TypeOK
<1>4. PlacesOK' /\ LowOK'
  BY <1>2, PlacesKept, LowKept DEF IInv
<1>5. /\ state'[b] = "dropped" /\ \A c \in Boxes : c # b => state'[c] = state[c]
      /\ box'[t] = b
      /\ \A u \in Threads : u # t => box'[u] = box[u] /\ pc'[u] = pc[u]
      /\ pc'[t] = IF stack[b] \in Slots THEN "recycle" ELSE "unregister"
  BY <1>2 DEF IInv, TypeOK
<1>6. \A u \in Threads : box[u] # b
  BY <1>1, HeldBoxes
<1>7. stack[b] \in Slots \/ stack[b] \in Maps
  BY <1>1 DEF IInv, TypeOK, Stacks
<1>8. stack[b] \in Slots => b \notin registry
  BY Apart DEF IInv, RegistryOK
<1>9. CustodyOK'
  <2>1. \A u, v \in Threads : box'[u] = box'[v] /\ box'[u] # None => u = v
    BY <1>5, <1>6 DEF IInv, CustodyOK
  <2>2. ASSUME NEW u \in Threads, u # t
        PROVE  box[u] # None => box[u] \in Boxes /\ state'[box[u]] = state[box[u]]
    BY <2>2, <1>5, <1>6, HeldBoxes
  <2>3. ASSUME NEW u \in Threads
        PROVE  /\ hand'[u] # None <=> pc'[u] \in {"build", "giveBack"}
               /\ pc'[u] = "giveBack" => hand'[u] \in Slots
               /\ box'[u] = None <=> pc'[u] \in {"idle", "giveBack", "fallback", "build"}
               /\ pc'[u] \in {"register", "registering"} =>
                    state'[box'[u]] = "new" /\ stack'[box'[u]] \in Maps
               /\ pc'[u] \in {"unregister", "unregistering", "recycle", "unmap"} =>
                    state'[box'[u]] = "dropped"
               /\ pc'[u] \in {"unregister", "unregistering", "unmap"} => stack'[box'[u]] \in Maps
               /\ pc'[u] \in {"recycle", "unmap"} => box'[u] \notin registry'
    <3>1. CASE u = t
      BY <3>1, <1>1, <1>2, <1>5, <1>7, <1>8
    <3>2. CASE u # t
      BY <3>2, <2>2, <1>2, <1>5 DEF IInv, CustodyOK
    <3> QED BY <3>1, <3>2
  <2> QED BY <2>1, <2>3 DEF CustodyOK
<1>10. TasksOK'
  BY <1>1, <1>2, <1>5 DEF IInv, TypeOK, TasksOK
<1>11. RegistryOK'
  BY <1>1, <1>2, <1>5 DEF IInv, TypeOK, RegistryOK
<1>12. StorageOK'
  BY <1>1, <1>2, <1>5 DEF IInv, TypeOK, StorageOK
<1> QED BY <1>3, <1>4, <1>9, <1>10, <1>11, <1>12 DEF IInv

LEMMA UnregisterStep ==
  ASSUME IInv, NEW t \in Threads, Unregister(t)
  PROVE  IInv'
<1> USE DEF IInv, Unregister, LockRegistry, Step, memory, tasks, tls
<1>1. TypeOK'
  BY DEF TypeOK
<1>2. PlacesOK' /\ TasksOK' /\ RegistryOK' /\ LowOK' /\ StorageOK'
  BY PlacesKept, TasksKept, RegistryKept, LowKept, StorageKept
<1>3. CustodyOK'
  BY DEF TypeOK, CustodyOK
<1> QED BY <1>1, <1>2, <1>3

LEMMA UnregisteredStep ==
  ASSUME IInv, NEW t \in Threads, Unregistered(t)
  PROVE  IInv'
<1> USE DEF IInv, Unregistered, Step, memory, tasks, tls
<1>1. TypeOK'
  BY DEF TypeOK
<1>2. PlacesOK' /\ TasksOK' /\ LowOK' /\ StorageOK'
  BY PlacesKept, TasksKept, LowKept, StorageKept
<1>3. box[t] \in Boxes /\ state[box[t]] = "dropped"
  <2>1. pc[t] = "unregistering" /\ box[t] # None
    BY DEF CustodyOK
  <2> QED BY <2>1, HeldBoxes DEF CustodyOK
<1>4. CustodyOK'
  BY DEF TypeOK, CustodyOK
<1>5. RegistryOK'
  BY <1>3 DEF TypeOK, RegistryOK
<1> QED BY <1>1, <1>2, <1>4, <1>5

LEMMA DropMapStep ==
  ASSUME IInv, NEW t \in Threads, DropMap(t)
  PROVE  IInv'
<1> USE DEF IInv, DropMap, LockRegistry, Step, memory, tasks, tls
<1>1. TypeOK'
  BY DEF TypeOK
<1>2. PlacesOK' /\ TasksOK' /\ RegistryOK' /\ LowOK' /\ StorageOK'
  BY PlacesKept, TasksKept, RegistryKept, LowKept, StorageKept
<1>3. CustodyOK'
  BY DEF TypeOK, CustodyOK
<1> QED BY <1>1, <1>2, <1>3

\* What freeing a box does, whatever becomes of its stack.
LEMMA FreedStep ==
  ASSUME IInv, NEW t \in Threads, pc[t] \in {"recycle", "unmap"}, Freed(t),
         pc' = [pc EXCEPT ![t] = "idle"],
         UNCHANGED <<hand, current, fault, readers, registry>>,
         NEW b \in Boxes, b = box[t]
  PROVE  /\ state[b] = "dropped" /\ b # None /\ b \notin registry
         /\ stack[b] \in Stacks /\ stack[b] # None
         /\ stack'[b] = None /\ \A c \in Boxes : c # b => stack'[c] = stack[c]
         /\ state' \in [Boxes -> {"free", "new", "ready", "running", "dead", "dropped"}]
         /\ stack' \in [Boxes -> Stacks \cup {None}]
         /\ box' \in [Threads -> Boxes \cup {None}]
         /\ storage' \in [Threads -> [Boxes -> {"nobody", "owner", "stranger"}]]
         /\ CustodyOK' /\ TasksOK' /\ RegistryOK' /\ StorageOK'
<1>1. state[b] = "dropped" /\ b # None /\ b \notin registry
  BY Apart DEF IInv, CustodyOK
<1>2. stack[b] \in Stacks /\ stack[b] # None
  BY <1>1 DEF IInv, TypeOK, TasksOK
<1>3. /\ state' = [state EXCEPT ![b] = "free"]
      /\ stack' = [stack EXCEPT ![b] = None]
      /\ box' = [box EXCEPT ![t] = None]
      /\ storage' = [u \in Threads |->
           [storage[u] EXCEPT ![b] = IF @ = "nobody" THEN @ ELSE "stranger"]]
      /\ last' = last /\ stored' = stored
  BY DEF Freed
<1>4. /\ state'[b] = "free" /\ stack'[b] = None
      /\ \A c \in Boxes : c # b => state'[c] = state[c] /\ stack'[c] = stack[c]
      /\ box'[t] = None
      /\ \A u \in Threads : u # t => box'[u] = box[u] /\ pc'[u] = pc[u] /\ box[u] # b
      /\ pc'[t] = "idle"
  BY <1>1, <1>3 DEF IInv, TypeOK, CustodyOK
<1>5. /\ state' \in [Boxes -> {"free", "new", "ready", "running", "dead", "dropped"}]
      /\ stack' \in [Boxes -> Stacks \cup {None}]
      /\ box' \in [Threads -> Boxes \cup {None}]
  BY <1>3 DEF IInv, TypeOK
<1>6. storage' \in [Threads -> [Boxes -> {"nobody", "owner", "stranger"}]]
  BY <1>3 DEF IInv, TypeOK
<1>7. CustodyOK'
  <2>1. \A u, v \in Threads : box'[u] = box'[v] /\ box'[u] # None => u = v
    BY <1>4 DEF IInv, CustodyOK
  <2>2. ASSUME NEW u \in Threads, u # t
        PROVE  box[u] # None => /\ box[u] \in Boxes /\ state'[box[u]] = state[box[u]]
                                /\ stack'[box[u]] = stack[box[u]]
    BY <2>2, <1>4, HeldBoxes
  <2>3. hand[t] = None
    BY DEF IInv, CustodyOK
  <2>4. ASSUME NEW u \in Threads
        PROVE  /\ hand'[u] # None <=> pc'[u] \in {"build", "giveBack"}
               /\ pc'[u] = "giveBack" => hand'[u] \in Slots
               /\ box'[u] = None <=> pc'[u] \in {"idle", "giveBack", "fallback", "build"}
               /\ pc'[u] \in {"register", "registering"} =>
                    state'[box'[u]] = "new" /\ stack'[box'[u]] \in Maps
               /\ pc'[u] \in {"unregister", "unregistering", "recycle", "unmap"} =>
                    state'[box'[u]] = "dropped"
               /\ pc'[u] \in {"unregister", "unregistering", "unmap"} => stack'[box'[u]] \in Maps
               /\ pc'[u] \in {"recycle", "unmap"} => box'[u] \notin registry'
    <3>1. CASE u = t
      BY <3>1, <2>3, <1>4
    <3>2. CASE u # t
      BY <3>2, <2>2, <1>4 DEF IInv, CustodyOK
    <3> QED BY <3>1, <3>2
  <2> QED BY <2>1, <2>4 DEF CustodyOK
<1>8. TasksOK'
  <2>1. \A u \in Threads : current[u] # None => current[u] \in Boxes /\ current[u] # b
    BY <1>1 DEF IInv, TypeOK, TasksOK
  <2>2. \A u \in readers : u \in Threads /\ current[u] # None
    BY DEF IInv, TypeOK, TasksOK
  <2> QED BY <2>1, <2>2, <1>4 DEF IInv, TasksOK
<1>9. RegistryOK'
  BY <1>1, <1>4 DEF IInv, TypeOK, RegistryOK
<1>10. StorageOK'
  <2>1. ASSUME ~Moves PROVE b \notin stored /\ \A u \in Threads : storage[u][b] = "nobody"
    BY <1>1, <2>1 DEF IInv, StorageOK
  <2>2. ASSUME ~Moves, NEW c \in stored' PROVE state'[c] \in {"ready", "running"} /\ last'[c] # None
    BY <2>1, <2>2, <1>3, <1>4 DEF IInv, TypeOK, StorageOK
  <2>3. ASSUME ~Moves, NEW u \in Threads, current'[u] # None PROVE last'[current'[u]] = u
    BY <2>3, <1>3 DEF IInv, StorageOK
  <2>4. ASSUME ~Moves, NEW u \in Threads, NEW c \in Boxes
        PROVE  storage'[u][c] = IF c \in stored' /\ last'[c] = u THEN "owner" ELSE "nobody"
    <3>1. storage'[u][c] = storage[u][c]
      BY <2>1, <2>4, <1>3 DEF IInv, TypeOK
    <3> QED BY <3>1, <2>4, <1>3 DEF IInv, StorageOK
  <2> QED BY <2>2, <2>3, <2>4 DEF StorageOK
<1> QED BY <1>1, <1>2, <1>4, <1>5, <1>6, <1>7, <1>8, <1>9, <1>10

\* A stack leaves the box that is freed, for a list or for the system.
LEMMA PlaceLeft ==
  ASSUME IInv, NEW b \in Boxes, NEW s \in Stacks,
         stack[b] = s, stack'[b] = None,
         \A c \in Boxes : c # b => stack'[c] = stack[c], hand' = hand,
         IsInjective(arenaFree)', IsInjective(pool)',
         \A r \in Stacks : r # s => (InList(r)' <=> InList(r)),
         s \in Slots => InList(s)',
         s \in Maps => (s \in mapped' <=> InList(s)'),
         \A r \in Maps : r # s => (r \in mapped' <=> r \in mapped)
  PROVE  PlacesOK'
<1>1. /\ s # None /\ \A c \in Boxes : c # b => stack[c] # s
      /\ \A u \in Threads : hand[u] # s
  BY Apart DEF IInv, PlacesOK
<1>2. ~Given(s)'
  BY <1>1 DEF Given
<1>3. \A r \in Stacks : r # s => (Given(r)' <=> Given(r))
  BY Apart DEF Given
<1>4. \A u \in Threads, c \in Boxes : hand'[u] = stack'[c] => hand'[u] = None
  BY DEF IInv, PlacesOK
<1>5. \A c, d \in Boxes : stack'[c] = stack'[d] /\ stack'[c] # None => c = d
  BY DEF IInv, PlacesOK
<1>6. \A u, v \in Threads : hand'[u] = hand'[v] /\ hand'[u] # None => u = v
  BY DEF IInv, PlacesOK
<1>7. /\ \A r \in Stacks : InList(r)' => ~Given(r)'
      /\ \A r \in Slots : InList(r)' \/ Given(r)'
      /\ \A r \in Maps : r \in mapped' <=> InList(r)' \/ Given(r)'
  BY <1>2, <1>3, Apart DEF IInv, PlacesOK
<1> QED BY <1>4, <1>5, <1>6, <1>7 DEF PlacesOK

LEMMA FreeSlotStep ==
  ASSUME IInv, NEW t \in Threads, FreeSlot(t)
  PROVE  IInv'
<1>1. /\ pc[t] = "recycle" /\ pc' = [pc EXCEPT ![t] = "idle"] /\ Freed(t)
      /\ UNCHANGED <<pool, mapped, committed, low, registry, writer, readers, killed,
                     hand, current, fault>>
  BY DEF FreeSlot, Step, handler
<1>2. PICK b \in Boxes : b = box[t]
  BY <1>1, HeldBoxes DEF IInv, CustodyOK
<1>3. PICK s \in Slots : s = stack[b] /\ s \in Stacks
  BY <1>2, Apart DEF FreeSlot
<1>4. arenaFree' = Append(arenaFree, s)
  BY <1>2, <1>3 DEF FreeSlot
<1>5. ~InList(s) /\ s \notin Maps
  BY <1>3, Apart DEF IInv, PlacesOK, Given
<1>6. /\ arenaFree' \in Seq(Slots) /\ IsInjective(arenaFree')
      /\ Range(arenaFree') = Range(arenaFree) \cup {s}
  BY <1>3, <1>4, <1>5, RangeAppend DEF IInv, TypeOK, PlacesOK, InList
<1>7. TypeOK'
  BY <1>1, <1>2, <1>6, FreedStep DEF IInv, TypeOK, Freed
<1>8. PlacesOK'
  <2>1. InList(s)' /\ \A r \in Stacks : r # s => (InList(r)' <=> InList(r))
    BY <1>1, <1>6 DEF InList
  <2>2. stack'[b] = None /\ \A c \in Boxes : c # b => stack'[c] = stack[c]
    BY ZenonT(30), <1>1, <1>2, FreedStep
  <2>3. IsInjective(arenaFree)' /\ IsInjective(pool)'
    BY <1>1, <1>6 DEF IInv, PlacesOK
  <2> QED BY <1>1, <1>3, <1>5, <2>1, <2>2, <2>3, PlaceLeft
<1>9. CustodyOK' /\ TasksOK' /\ RegistryOK' /\ StorageOK'
  BY <1>1, <1>2, FreedStep
<1>10. LowOK'
  BY <1>1, LowKept DEF IInv
<1> QED BY <1>7, <1>8, <1>9, <1>10 DEF IInv

LEMMA PooledStep ==
  ASSUME IInv, NEW t \in Threads, Pooled(t)
  PROVE  IInv'
<1>1. /\ pc[t] = "recycle" /\ pc' = [pc EXCEPT ![t] = "idle"] /\ Freed(t)
      /\ UNCHANGED <<arenaFree, mapped, committed, registry, writer, readers, killed,
                     hand, current, fault>>
  BY DEF Pooled, Step, handler
<1>2. PICK b \in Boxes : b = box[t]
  BY <1>1, HeldBoxes DEF IInv, CustodyOK
<1>3. PICK s \in Maps : s = stack[b] /\ s \in Stacks
  BY <1>2, Apart DEF Pooled
<1>4. pool' = Append(pool, s) /\ low' = [low EXCEPT ![s] = 1]
  BY <1>2, <1>3 DEF Pooled
<1>5. ~InList(s) /\ s \in mapped /\ s \notin Slots
  BY <1>3, Apart DEF IInv, PlacesOK, Given
<1>6. /\ pool' \in Seq(Maps) /\ IsInjective(pool')
      /\ Range(pool') = Range(pool) \cup {s}
  BY <1>3, <1>4, <1>5, RangeAppend DEF IInv, TypeOK, PlacesOK, InList
<1>7. TypeOK'
  <2>0. 1 \in 0..Pages
    BY BoundsAssumption
  <2>1. low' \in [Stacks -> 0..Pages]
    BY <2>0, <1>4 DEF IInv, TypeOK
  <2> QED BY <2>1, <1>1, <1>2, <1>6, FreedStep DEF IInv, TypeOK, Freed
<1>8. PlacesOK'
  <2>1. InList(s)' /\ \A r \in Stacks : r # s => (InList(r)' <=> InList(r))
    BY <1>1, <1>6 DEF InList
  <2>2. stack'[b] = None /\ \A c \in Boxes : c # b => stack'[c] = stack[c]
    BY ZenonT(30), <1>1, <1>2, FreedStep
  <2>3. IsInjective(arenaFree)' /\ IsInjective(pool)'
    BY <1>1, <1>6 DEF IInv, PlacesOK
  <2> QED BY <1>1, <1>3, <1>5, <2>1, <2>2, <2>3, PlaceLeft
<1>9. CustodyOK' /\ TasksOK' /\ RegistryOK' /\ StorageOK'
  BY <1>1, <1>2, FreedStep
<1>10. LowOK'
  <2>1. low[s] \in 1..Pages /\ 1..low[s] \subseteq committed[s]
    BY <1>3, <1>5, BoundsAssumption DEF IInv, TypeOK, LowOK, LowIsCommitted
  <2>2. 1 \in committed[s]
    BY <2>1, BoundsAssumption
  <2>3. /\ low'[s] = 1 /\ committed'[s] = committed[s]
        /\ \A r \in Stacks : r # s => low'[r] = low[r] /\ committed'[r] = committed[r]
    BY <1>1, <1>3, <1>4 DEF IInv, TypeOK
  <2>4. ASSUME NEW r \in Stacks PROVE 1..low'[r] \subseteq committed'[r]
    <3>1. CASE r = s
      BY <3>1, <2>2, <2>3
    <3>2. CASE r # s
      BY <3>2, <2>3 DEF IInv, LowOK, LowIsCommitted
    <3> QED BY <3>1, <3>2
  <2>5. ASSUME NEW r \in mapped' PROVE low'[r] # 0
    <3>1. r \in Stacks /\ r \in mapped
      BY <1>1, Apart DEF IInv, TypeOK
    <3> QED BY <3>1, <2>3 DEF IInv, LowOK
  <2> QED BY <2>4, <2>5 DEF LowOK, LowIsCommitted
<1> QED BY <1>7, <1>8, <1>9, <1>10 DEF IInv

LEMMA UnmapStep ==
  ASSUME IInv, NEW t \in Threads, Unmap(t)
  PROVE  IInv'
<1>1. /\ pc[t] = "unmap" /\ pc' = [pc EXCEPT ![t] = "idle"] /\ Freed(t) /\ writer' = None
      /\ UNCHANGED <<arenaFree, pool, registry, readers, killed, hand, current, fault>>
  BY DEF Unmap, Step
<1>2. PICK b \in Boxes : b = box[t]
  BY <1>1, HeldBoxes DEF IInv, CustodyOK
<1>3. PICK s \in Maps : s = stack[b] /\ s \in Stacks
  BY <1>1, <1>2, Apart DEF IInv, CustodyOK
<1>4. /\ mapped' = mapped \ {s} /\ committed' = [committed EXCEPT ![s] = {}]
      /\ low' = [low EXCEPT ![s] = 0]
  BY <1>2, <1>3 DEF Unmap
<1>5. ~InList(s) /\ s \notin Slots
  BY <1>3, Apart DEF IInv, PlacesOK, Given
<1>6. TypeOK'
  <2>0. 0 \in 0..Pages
    BY BoundsAssumption
  <2>1. low' \in [Stacks -> 0..Pages]
    BY <2>0, <1>4 DEF IInv, TypeOK
  <2>2. committed' \in [Stacks -> SUBSET (1..Pages)] /\ mapped' \subseteq Maps
    BY <1>4 DEF IInv, TypeOK
  <2> QED BY <2>1, <2>2, <1>1, <1>2, FreedStep DEF IInv, TypeOK, Freed
<1>7. PlacesOK'
  <2>1. ~InList(s)' /\ \A r \in Stacks : r # s => (InList(r)' <=> InList(r))
    BY <1>1, <1>5 DEF InList
  <2>2. stack'[b] = None /\ \A c \in Boxes : c # b => stack'[c] = stack[c]
    BY ZenonT(30), <1>1, <1>2, FreedStep
  <2>3. IsInjective(arenaFree)' /\ IsInjective(pool)'
    BY <1>1 DEF IInv, PlacesOK
  <2>4. s \notin mapped' /\ \A r \in Maps : r # s => (r \in mapped' <=> r \in mapped)
    BY <1>4
  <2> QED BY <1>1, <1>3, <1>5, <2>1, <2>2, <2>3, <2>4, PlaceLeft
<1>8. CustodyOK' /\ TasksOK' /\ RegistryOK' /\ StorageOK'
  BY <1>1, <1>2, FreedStep
<1>9. LowOK'
  <2>1. /\ low'[s] = 0 /\ \A r \in Stacks : r # s => low'[r] = low[r] /\ committed'[r] = committed[r]
    BY <1>3, <1>4 DEF IInv, TypeOK
  <2>2. ASSUME NEW r \in Stacks PROVE 1..low'[r] \subseteq committed'[r]
    <3>1. CASE r = s
      BY <3>1, <2>1
    <3>2. CASE r # s
      BY <3>2, <2>1 DEF IInv, LowOK, LowIsCommitted
    <3> QED BY <3>1, <3>2
  <2>3. ASSUME NEW r \in mapped' PROVE low'[r] # 0
    <3>1. r \in Stacks /\ r \in mapped /\ r # s
      BY <1>4, Apart DEF IInv, TypeOK
    <3> QED BY <3>1, <2>1 DEF IInv, LowOK
  <2> QED BY <2>2, <2>3 DEF LowOK, LowIsCommitted
<1> QED BY <1>6, <1>7, <1>8, <1>9 DEF IInv

----------------------------------------------------------------------------
(* The theorems.                                                           *)

LEMMA InitInv == Init => IInv
<1> SUFFICES ASSUME Init PROVE IInv
  OBVIOUS
<1> USE DEF Init, Bottom
<1>1. /\ arenaFree \in Seq(Slots) /\ IsInjective(arenaFree)
      /\ Range(arenaFree) = Slots
  <2>1. Cardinality(Slots) \in Nat
    BY SlotsAssumption, FS_CardinalityType
  <2>2. /\ arenaFree \in [1..Cardinality(Slots) -> Slots] /\ IsInjective(arenaFree)
        /\ \A s \in Slots : \E i \in 1..Cardinality(Slots) : arenaFree[i] = s
    BY DEF Bijection, Injection, Surjection
  <2>3. arenaFree \in Seq(Slots)
    BY <2>1, <2>2
  <2>4. Range(arenaFree) = Slots
    BY <2>2 DEF Range
  <2> QED BY <2>2, <2>3, <2>4
<1>2. TypeOK
  <2>1. 0 \in 0..Pages /\ <<>> \in Seq(Maps)
    BY BoundsAssumption
  <2> QED BY <1>1, <2>1 DEF TypeOK
<1>3. PlacesOK
  <2>1. IsInjective(<<>>) /\ Range(<<>>) = {}
    BY DEF IsInjective, Range
  <2>2. \A s \in Stacks : ~Given(s) /\ (InList(s) <=> s \in Slots)
    BY <1>1, <2>1, Apart DEF Given, InList
  <2> QED BY <1>1, <2>1, <2>2, Apart DEF PlacesOK
<1>4. CustodyOK /\ TasksOK /\ RegistryOK /\ StorageOK
  BY DEF CustodyOK, TasksOK, RegistryOK, StorageOK
<1>5. LowOK
  BY DEF LowOK, LowIsCommitted
<1> QED BY <1>2, <1>3, <1>4, <1>5 DEF IInv

LEMMA NextInv ==
  ASSUME IInv, [Next]_vars
  PROVE  IInv'
<1>1. CASE UNCHANGED vars
  <2> USE <1>1 DEF vars, memory, tasks, handler, threads, tls, IInv
  <2>1. TypeOK'
    BY DEF TypeOK
  <2> QED BY <2>1, PlacesKept, CustodyKept, TasksKept, RegistryKept, LowKept, StorageKept
<1>2. CASE Next
  <2>1. PICK t \in Threads : Starts(t) \/ Reserves(t) \/ Handles(t) \/ Drops(t)
    BY <1>2 DEF Next
  <2>2. CASE Starts(t)
    BY <2>2, TakeSlotStep, CannotCommitStep, NoSlotStep, SwitchOutStep, StoreStep, DieStep,
       RunStep, DropStep, TouchStep DEF Starts
  <2>3. CASE Reserves(t)
    BY <2>3, GiveBackStep, TakePooledStep, RegisterStep, RegisteredStep, MapFreshStep,
       BuildStep DEF Reserves
  <2>4. CASE Handles(t)
    BY <2>4, ExtendSlotStep, ReadRegistryStep, SpinsOutStep, ExtendMapStep DEF Handles
  <2>5. CASE Drops(t)
    BY <2>5, UnregisterStep, UnregisteredStep, FreeSlotStep, PooledStep, DropMapStep,
       UnmapStep DEF Drops
  <2> QED BY <2>1, <2>2, <2>3, <2>4, <2>5
<1> QED BY <1>1, <1>2

\* IInv is inductive: Init establishes it and every step preserves it.
THEOREM Invariance == Spec => []IInv
BY InitInv, NextInv, PTL DEF Spec

\* Each of the places of a stack counts for one at most, and one of them
\* counts when the stack is anywhere.
LEMMA CountOfPlaces ==
  ASSUME IInv, NEW s \in Stacks
  PROVE  Times(s) = IF InList(s) \/ Given(s) THEN 1 ELSE 0
<1> DEFINE A == {i \in DOMAIN arenaFree : arenaFree[i] = s}
           P == {i \in DOMAIN pool : pool[i] = s}
           H == {t \in Threads : hand[t] = s}
           B == {b \in Boxes : stack[b] = s}
<1>1. s # None
  BY Apart
<1>2. (\A i, j \in A : i = j) /\ (A # {} <=> s \in Range(arenaFree))
  BY DEF IInv, PlacesOK, IsInjective, Range
<1>3. (\A i, j \in P : i = j) /\ (P # {} <=> s \in Range(pool))
  BY DEF IInv, PlacesOK, IsInjective, Range
<1>4. (\A t, u \in H : t = u) /\ (H # {} <=> \E t \in Threads : hand[t] = s)
  BY <1>1 DEF IInv, PlacesOK
<1>5. (\A b, c \in B : b = c) /\ (B # {} <=> \E b \in Boxes : stack[b] = s)
  BY <1>1 DEF IInv, PlacesOK
<1>6. /\ A = {} \/ P = {}
      /\ H = {} \/ B = {}
      /\ (A = {} /\ P = {}) \/ (H = {} /\ B = {})
      /\ InList(s) <=> A # {} \/ P # {}
      /\ Given(s) <=> H # {} \/ B # {}
  <2>1. A = {} \/ P = {}
    BY <1>2, <1>3, ListRanges, Apart DEF IInv
  <2>2. H = {} \/ B = {}
    BY <1>1 DEF IInv, PlacesOK
  <2>3. InList(s) => ~Given(s)
    BY DEF IInv, PlacesOK
  <2> QED BY <2>1, <2>2, <2>3, <1>2, <1>3, <1>4, <1>5 DEF InList, Given
<1>7. /\ Cardinality(A) = (IF A = {} THEN 0 ELSE 1)
      /\ Cardinality(P) = (IF P = {} THEN 0 ELSE 1)
      /\ Cardinality(H) = (IF H = {} THEN 0 ELSE 1)
      /\ Cardinality(B) = (IF B = {} THEN 0 ELSE 1)
  BY <1>2, <1>3, <1>4, <1>5, CountOfOne
<1>8. Times(s) = Cardinality(A) + Cardinality(P) + Cardinality(H) + Cardinality(B)
  BY DEF Times
<1> HIDE DEF A, P, H, B
<1> QED BY <1>6, <1>7, <1>8

\* No stack is lost and none is given to two tasks (stack.rs: alloc, reserve,
\* recycle, Drop).
THEOREM NoStackLostOrShared == Spec => []StacksHaveOnePlace
<1>1. IInv => StacksHaveOnePlace
  BY CountOfPlaces, Apart DEF IInv, PlacesOK, StacksHaveOnePlace
<1> QED BY <1>1, Invariance, PTL

\* The fault handler only follows pointers to boxes in use, whose stacks are
\* mapped, and finds the stack of every task that can fault.
THEOREM HandlerReadsLiveTasks == Spec => []RegistryIsSafe
<1>1. ASSUME IInv PROVE RegistryIsSafe
  <2>1. ASSUME NEW b \in registry PROVE state[b] # "free" /\ stack[b] \in mapped
    <3>1. b \in Boxes /\ stack[b] \in Maps
      BY <1>1 DEF IInv, TypeOK, RegistryOK
    <3>2. stack[b] \in Stacks /\ stack[b] # None /\ Given(stack[b])
      BY <3>1, Apart DEF Given
    <3> QED BY <1>1, <3>1, <3>2 DEF IInv, PlacesOK, TasksOK
  <2> QED BY <1>1, <2>1 DEF IInv, RegistryOK, RegistryIsSafe
<1> QED BY <1>1, Invariance, PTL

\* `low` never promises a page that is not there (commit_top, extend_commit).
THEOREM LowIsTrue == Spec => []LowIsCommitted
<1>1. IInv => LowIsCommitted
  BY DEF IInv, LowOK
<1> QED BY <1>1, Invariance, PTL

\* While no task changes threads, a task finds its own task-local values and
\* nobody else's (tls.rs), whoever had its address before.
THEOREM OwnStorage == ~Moves => (Spec => []StorageIsOwn)
<1> SUFFICES ASSUME ~Moves PROVE Spec => []StorageIsOwn
  OBVIOUS
<1>1. IInv => StorageIsOwn
  BY Apart DEF IInv, TypeOK, StorageOK, StorageIsOwn
<1> QED BY <1>1, Invariance, PTL

\* A handler that does not commit the faulting page has moved `low`: one
\* access faults a bounded number of times (extend_commit).
THEOREM FaultsEnd == Spec => HandlerProgresses
<1> DEFINE Grows(t) == low'[stack[current[t]]] > low[stack[current[t]]]
           Returns(t) == t \in readers /\ t \notin readers' /\ fault'[t] # 0 /\ ~killed'
<1>1. ASSUME IInv, [Next]_vars, NEW t \in Threads, Returns(t) PROVE Grows(t)
  <2>1. ~UNCHANGED vars
    BY <1>1 DEF vars, handler
  <2>2. PICK u \in Threads : Starts(u) \/ Reserves(u) \/ Handles(u) \/ Drops(u)
    BY <1>1, <2>1 DEF Next
  <2>3. ~Starts(u)
    BY <1>1 DEF Starts, TakeSlot, CannotCommit, NoSlot, SwitchOut, Store, Die, Run, Drop,
                Touch, Leave, handler
  <2>4. ~Reserves(u)
    BY <1>1 DEF Reserves, GiveBack, TakePooled, Register, Registered, MapFresh, Build,
                LockRegistry, handler
  <2>5. ~Drops(u)
    BY <1>1 DEF Drops, Unregister, Unregistered, FreeSlot, Pooled, DropMap, Unmap,
                LockRegistry, handler
  <2>6. ~ExtendSlot(u) /\ ~ReadRegistry(u) /\ ~SpinsOut(u)
    BY <1>1 DEF ExtendSlot, ReadRegistry, SpinsOut, handler
  <2>7. ExtendMap(u) /\ u = t
    BY <1>1, <2>2, <2>3, <2>4, <2>5, <2>6 DEF Handles, ExtendMap
  <2> QED BY <1>1, <2>7, ExtendMapStep
<1>2. IInv /\ [Next]_vars => [\A t \in Threads : Returns(t) => Grows(t)]_vars
  BY <1>1
<1> QED BY <1>2, Invariance, PTL DEF Spec, HandlerProgresses

=============================================================================
