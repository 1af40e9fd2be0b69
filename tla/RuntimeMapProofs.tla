-------------------------- MODULE RuntimeMapProofs --------------------------
(***************************************************************************)
(* Proofs about RuntimeMap, for any keys, hash function and capacities:    *)
(* IInv is an invariant, some slot is always empty, and the table          *)
(* implements Dictionary.                                                  *)
(***************************************************************************)
EXTENDS RuntimeMap, FiniteSetTheorems, TLAPS

Slot == Entry \cup {Empty, Tombstone}

----------------------------------------------------------------------------
(* Walking round a table.                                                  *)

LEMMA DistanceFacts ==
  ASSUME NEW n \in Nat, n > 0, NEW h \in Indices(n), NEW i \in Indices(n)
  PROVE  /\ Distance(h, i, n) \in Indices(n)
         /\ Distance(h, h, n) = 0
         /\ \A j \in Indices(n) : Distance(h, j, n) = Distance(h, i, n) => j = i
         /\ After(i, n) \in Indices(n)
         /\ \/ Distance(h, i, n) = n - 1
            \/ Distance(h, After(i, n), n) = Distance(h, i, n) + 1
BY DEF Indices, Distance, After

LEMMA HomeFact ==
  ASSUME NEW k \in Keys, NEW n \in Nat, n > 0
  PROVE  Home(k, n) \in Indices(n)
<1>1. Hash[k] \in Nat
  BY HashAssumption
<1>2. ASSUME NEW x \in Nat PROVE x % n \in 0..(n - 1)
  OBVIOUS
<1> QED BY <1>1, <1>2 DEF Home, Indices

LEMMA SlotFact ==
  ASSUME NEW s \in Slot
  PROVE  /\ IsEntry(s) => s \in Entry /\ s.key \in Keys /\ s.val \in Values
         /\ IsEntry(s) <=> s \in Entry
         /\ ~IsEntry(s) => s \in {Empty, Tombstone}
         /\ \A k : Holds(s, k) => IsEntry(s) /\ s # Empty /\ s # Tombstone
BY SlotsAssumption DEF Slot, Entry, IsEntry, Holds

LEMMA CallFact ==
  ASSUME NEW c \in Calls
  PROVE  /\ c # NoCall
         /\ c.key \in Keys
         /\ c.op \in {"insert", "get", "contains", "remove"}
         /\ c.op = "insert" =>
              /\ [key |-> c.key, val |-> c.val] \in Entry
              /\ IsEntry([key |-> c.key, val |-> c.val])
<1>1. c # NoCall
  BY NoCallAssumption DEF Calls
<1>2. /\ c.key \in Keys /\ c.op \in {"insert", "get", "contains", "remove"}
      /\ c.op = "insert" => c.val \in Values
  BY DEF Calls
<1>3. c.op = "insert" => [key |-> c.key, val |-> c.val] \in Entry
  BY <1>2 DEF Entry
<1>4. c.op = "insert" => IsEntry([key |-> c.key, val |-> c.val])
  BY <1>3, SlotsAssumption DEF Entry, IsEntry
<1> QED BY <1>1, <1>2, <1>3, <1>4

\* A step past a slot that stops nothing keeps what was passed.
LEMMA PassOne ==
  ASSUME NEW stops, TypeOK, NEW h \in Indices(cap), Passed(h, idx, stops),
         slots[idx] \notin stops, NEW e \in Indices(cap), slots[e] \in stops
  PROVE  /\ Passed(h, After(idx, cap), stops)
         /\ Distance(h, idx, cap) < Distance(h, After(idx, cap), cap)
<1>1. /\ cap \in Nat /\ cap > 0 /\ idx \in Indices(cap)
      /\ Distance(h, e, cap) \in Indices(cap) /\ Distance(h, idx, cap) \in Indices(cap)
  BY DistanceFacts DEF TypeOK
<1>2. ~(Distance(h, e, cap) < Distance(h, idx, cap)) /\ e # idx
  BY DEF Passed
<1>3. Distance(h, e, cap) # Distance(h, idx, cap)
  BY <1>1, <1>2, DistanceFacts
<1>4. Distance(h, idx, cap) < Distance(h, e, cap)
  BY <1>1, <1>2, <1>3 DEF Indices
<1>5. Distance(h, After(idx, cap), cap) = Distance(h, idx, cap) + 1
  BY <1>1, <1>4, DistanceFacts DEF Indices
<1>6. ASSUME NEW j \in Indices(cap),
             Distance(h, j, cap) < Distance(h, After(idx, cap), cap)
      PROVE  slots[j] \notin stops
  <2>1. Distance(h, j, cap) \in Indices(cap)
    BY <1>1, DistanceFacts
  <2>2. CASE Distance(h, j, cap) < Distance(h, idx, cap)
    BY <2>2 DEF Passed
  <2>3. CASE Distance(h, j, cap) = Distance(h, idx, cap)
    <3>1. j = idx
      BY <1>1, <2>3, DistanceFacts
    <3> QED BY <3>1
  <2> QED BY <1>1, <1>5, <1>6, <2>1, <2>2, <2>3 DEF Indices
<1> QED BY <1>1, <1>5, <1>6 DEF Passed, Indices

----------------------------------------------------------------------------
(* What a table holds after one of its slots changed.                      *)

\* Table u is table t but for slot i, which holds e.
Written(t, u, n, i, e) ==
  /\ u \in [Indices(n) -> Slot]
  /\ u[i] = e
  /\ \A j \in Indices(n) : j # i => u[j] = t[j]

KeyedApart(t, n) ==
  \A i \in Indices(n) : IsEntry(t[i]) =>
    \A j \in Indices(n) : Holds(t[j], t[i].key) => j = i

LEMMA EntriesInFact ==
  ASSUME NEW n \in Nat, NEW c \in Nat, NEW t \in [Indices(n) -> Slot], NEW e
  PROVE  e \in EntriesIn(t, c, n)
           <=> \E i \in c..(n - 1) : IsEntry(t[i]) /\ t[i] = e
BY DEF EntriesIn

LEMMA PutFree ==
  ASSUME NEW n \in Nat, NEW t \in [Indices(n) -> Slot], NEW i \in Indices(n),
         ~IsEntry(t[i]), NEW e \in Entry, NEW u, Written(t, u, n, i, e)
  PROVE  EntriesIn(u, 0, n) = EntriesIn(t, 0, n) \cup {e}
<1>1. u \in [Indices(n) -> Slot] /\ u[i] = e /\ IsEntry(e)
  BY SlotFact DEF Slot, Written
<1>2. \A j \in Indices(n) : j # i => u[j] = t[j]
  BY DEF Written
<1>3. ASSUME NEW x PROVE x \in EntriesIn(u, 0, n) <=> x \in EntriesIn(t, 0, n) \cup {e}
  BY <1>1, <1>2 DEF EntriesIn, Indices
<1> QED BY <1>3

LEMMA TakeOut ==
  ASSUME NEW n \in Nat, NEW t \in [Indices(n) -> Slot], NEW i \in Indices(n),
         KeyedApart(t, n), IsEntry(t[i]), NEW u, Written(t, u, n, i, Tombstone)
  PROVE  /\ EntriesIn(u, 0, n)
              = {x \in EntriesIn(t, 0, n) : x.key # t[i].key}
         /\ {x \in EntriesIn(t, 0, n) : x.key # t[i].key} = EntriesIn(t, 0, n) \ {t[i]}
         /\ {x \in EntriesIn(t, 0, n) : x.key = t[i].key} = {t[i]}
         /\ t[i] \in EntriesIn(t, 0, n)
<1>1. u \in [Indices(n) -> Slot] /\ u[i] = Tombstone /\ ~IsEntry(u[i])
  BY DEF Slot, IsEntry, Written
<1>2. \A j \in Indices(n) : j # i => u[j] = t[j]
  BY DEF Written
<1>3. \A j \in Indices(n) : IsEntry(t[j]) /\ t[j].key = t[i].key => j = i
  BY DEF KeyedApart, Holds
<1>4. ASSUME NEW x
      PROVE  x \in EntriesIn(u, 0, n) <=> x \in EntriesIn(t, 0, n) /\ x.key # t[i].key
  BY <1>1, <1>2, <1>3 DEF EntriesIn, Indices
<1>5. ASSUME NEW x
      PROVE  x \in EntriesIn(t, 0, n) /\ x.key = t[i].key <=> x = t[i]
  BY <1>3 DEF EntriesIn, Indices
<1> QED BY <1>4, <1>5

LEMMA PutOver ==
  ASSUME NEW n \in Nat, NEW t \in [Indices(n) -> Slot], NEW i \in Indices(n),
         KeyedApart(t, n), IsEntry(t[i]), NEW e \in Entry, e.key = t[i].key,
         NEW u, Written(t, u, n, i, e)
  PROVE  EntriesIn(u, 0, n)
           = {x \in EntriesIn(t, 0, n) : x.key # t[i].key} \cup {e}
<1>1. u \in [Indices(n) -> Slot] /\ u[i] = e /\ IsEntry(e)
  BY SlotFact DEF Slot, Written
<1>2. \A j \in Indices(n) : j # i => u[j] = t[j]
  BY DEF Written
<1>3. \A j \in Indices(n) : IsEntry(t[j]) /\ t[j].key = t[i].key => j = i
  BY DEF KeyedApart, Holds
<1>4. ASSUME NEW x
      PROVE  x \in EntriesIn(u, 0, n)
               <=> \/ x \in EntriesIn(t, 0, n) /\ x.key # t[i].key
                   \/ x = e
  BY <1>1, <1>2, <1>3 DEF EntriesIn, Indices
<1> QED BY <1>4

----------------------------------------------------------------------------
(* Room.                                                                   *)

LEMMA CountFacts ==
  ASSUME TypeOK
  PROVE  /\ IsFiniteSet(Indices(cap)) /\ Cardinality(Indices(cap)) = cap
         /\ IsFiniteSet(Used) /\ Cardinality(Used) \in Nat
         /\ IsFiniteSet(Tombs) /\ Cardinality(Tombs) \in Nat
<1>1. IsFiniteSet(Indices(cap)) /\ Cardinality(Indices(cap)) = cap
  BY FS_Interval DEF TypeOK, Indices
<1>2. Used \subseteq Indices(cap) /\ Tombs \subseteq Indices(cap)
  BY DEF Used, Tombs
<1>3. IsFiniteSet(Used) /\ IsFiniteSet(Tombs)
  BY <1>1, <1>2, FS_Subset
<1> QED BY <1>1, <1>3, FS_CardinalityType

\* Some slot is empty: fewer are used than there are.
LEMMA RoomLeavesEmpty ==
  ASSUME TypeOK, RoomOK
  PROVE  AnEmptySlotIsLeft
<1> SUFFICES ASSUME ~AnEmptySlotIsLeft PROVE FALSE
  OBVIOUS
<1>1. Used = Indices(cap)
  BY DEF AnEmptySlotIsLeft, Used
<1> QED BY <1>1, CountFacts DEF RoomOK, TypeOK

----------------------------------------------------------------------------
(* Steps that leave the table alone.                                       *)

LEMMA TypeFacts ==
  ASSUME TypeOK
  PROVE  /\ cap \in Nat /\ cap > 0 /\ oldCap \in Nat
         /\ slots \in [Indices(cap) -> Slot] /\ old \in [Indices(oldCap) -> Slot]
         /\ idx \in Indices(cap) /\ slots[idx] \in Slot
BY DEF TypeOK, Slot

LEMMA TableKept ==
  ASSUME IInv, UNCHANGED table
  PROVE  /\ Stored' = Stored /\ Used' = Used /\ Tombs' = Tombs
         /\ CountsAreExact' /\ ChainsAreWhole'
         /\ IsFiniteSet(Stored)'
         /\ (Cardinality(Used) = len + tombstones)'
         /\ (len + tombstones < cap)'
<1>1. slots' = slots /\ cap' = cap /\ len' = len /\ tombstones' = tombstones
  BY DEF table
<1>2. Stored' = Stored /\ Used' = Used /\ Tombs' = Tombs
  BY <1>1 DEF Stored, Used, Tombs
<1>3. CountsAreExact'
  BY <1>1, <1>2 DEF IInv, CountsAreExact
<1>4. ChainsAreWhole'
  BY <1>1 DEF IInv, ChainsAreWhole, Passed
<1>5. /\ IsFiniteSet(Stored)' /\ (Cardinality(Used) = len + tombstones)'
      /\ (len + tombstones < cap)'
  BY <1>1, <1>2 DEF IInv, RoomOK
<1> QED BY <1>2, <1>3, <1>4, <1>5

\* A probe starts with nothing passed.
LEMMA ProbeStarts ==
  ASSUME IInv, UNCHANGED <<slots, cap>>, call' \in Calls, Probe(call'.key, cap)
  PROVE  ProbeOK' /\ GrowthOK' /\ PlaceOK' /\ idx' \in Indices(cap) /\ firstTomb' = None
<1>1. /\ pc' = "probe" /\ idx' = Home(call'.key, cap) /\ firstTomb' = None
      /\ call'.key \in Keys /\ cap \in Nat /\ cap > 0 /\ cap' = cap
  BY CallFact, TypeFacts DEF Probe, IInv
<1>2. idx' \in Indices(cap)
  BY <1>1, HomeFact
<1>3. \A j \in Indices(cap) : ~(Distance(idx', j, cap) < Distance(idx', idx', cap))
  BY <1>1, <1>2, DistanceFacts DEF Indices
<1>4. ProbeOK'
  BY <1>1, <1>3 DEF ProbeOK, Passed
<1>5. GrowthOK' /\ PlaceOK'
  BY <1>1 DEF GrowthOK, PlaceOK, Growing
<1> QED BY <1>1, <1>2, <1>4, <1>5

\* A call that changed nothing in the table returns.
LEMMA ReturnsKept ==
  ASSUME IInv, UNCHANGED table, NEW a \in [hit : BOOLEAN, val : Values \cup {NoValue}],
         Return(a)
  PROVE  IInv'
<1>1. /\ pc' = "idle" /\ call' = NoCall /\ ret' = a /\ idx' = 0 /\ firstTomb' = None
      /\ UNCHANGED <<slots, cap, len, tombstones, old, oldCap, cursor>>
  BY DEF Return, table, growth
<1>2. TypeOK'
  BY <1>1 DEF IInv, TypeOK, Indices
<1>3. CallOK' /\ ProbeOK' /\ GrowthOK' /\ PlaceOK'
  BY <1>1 DEF CallOK, ProbeOK, GrowthOK, PlaceOK, Growing
<1>4. RoomOK'
  BY <1>1, TableKept DEF RoomOK
<1> QED BY <1>2, <1>3, <1>4, TableKept DEF IInv

LEMMA LookupEnds ==
  ASSUME IInv, GetHit \/ ContainsHit \/ LookupMiss
  PROVE  IInv'
<1>1. CASE GetHit
  <2>1. IsEntry(slots[idx]) /\ slots[idx] \in Slot
    BY <1>1, TypeFacts DEF GetHit, Hit, Holds, IInv
  <2>2. Answer(TRUE, slots[idx].val) \in [hit : BOOLEAN, val : Values \cup {NoValue}]
    BY <2>1, SlotFact DEF Answer
  <2> QED BY <1>1, <2>2, ReturnsKept DEF GetHit, table, Return
<1>2. CASE ContainsHit
  <2>1. Answer(TRUE, NoValue) \in [hit : BOOLEAN, val : Values \cup {NoValue}]
    BY DEF Answer
  <2> QED BY <1>2, <2>1, ReturnsKept DEF ContainsHit, table, Return
<1>3. CASE LookupMiss
  <2>1. NoAnswer \in [hit : BOOLEAN, val : Values \cup {NoValue}]
    BY DEF Answer, NoAnswer
  <2> QED BY <1>3, <2>1, ReturnsKept DEF LookupMiss, table, Return
<1> QED BY <1>1, <1>2, <1>3

LEMMA ProbePassesStep ==
  ASSUME IInv, ProbePasses
  PROVE  IInv'
<1> DEFINE h == Home(call.key, cap)
<1>1. /\ pc = "probe" /\ pc' = "probe" /\ call' = call /\ ret' = ret
      /\ slots[idx] # Empty /\ ~Holds(slots[idx], call.key)
      /\ idx' = After(idx, cap)
      /\ UNCHANGED table /\ UNCHANGED <<slots, cap, len, tombstones, old, oldCap, cursor>>
  BY DEF ProbePasses, table, growth
<1>2. call \in Calls /\ call.key \in Keys
  BY <1>1, CallFact DEF IInv, TypeOK, CallOK
<1>3. h \in Indices(cap)
  BY <1>2, HomeFact, TypeFacts DEF IInv
<1>4. slots[idx] \notin ProbeStops
  <2>1. slots[idx] \in Entry => IsEntry(slots[idx])
    BY TypeFacts, SlotFact DEF IInv
  <2> QED BY <1>1, <2>1 DEF ProbeStops, Holds
<1>5. PICK e \in Indices(cap) : slots[e] \in ProbeStops
  BY RoomLeavesEmpty DEF IInv, AnEmptySlotIsLeft, ProbeStops
<1>6. /\ Passed(h, After(idx, cap), ProbeStops)
      /\ Distance(h, idx, cap) < Distance(h, After(idx, cap), cap)
  BY <1>1, <1>3, <1>4, <1>5, PassOne DEF IInv, ProbeOK
<1>7. idx' \in Indices(cap) /\ firstTomb' \in Indices(cap) \cup {None}
  BY <1>1, DistanceFacts, TypeFacts DEF IInv, TypeOK, ProbePasses
<1>8. TypeOK'
  BY <1>1, <1>7 DEF IInv, TypeOK
<1>9. ProbeOK'
  <2>1. Passed(h, idx, ProbeStops)'
    BY <1>1, <1>6 DEF Passed, ProbeStops
  <2>2. ASSUME firstTomb' # None
        PROVE  /\ slots[firstTomb'] = Tombstone
               /\ Distance(h, firstTomb', cap) < Distance(h, idx', cap)
    <3>1. CASE firstTomb' = idx /\ slots[idx] = Tombstone
      BY <3>1, <1>1, <1>6
    <3>2. CASE firstTomb' = firstTomb
      <4>1. /\ slots[firstTomb] = Tombstone /\ firstTomb \in Indices(cap)
            /\ Distance(h, firstTomb, cap) < Distance(h, idx, cap)
        BY <1>1, <2>2, <3>2 DEF IInv, ProbeOK, TypeOK
      <4>2. /\ Distance(h, firstTomb, cap) \in Indices(cap)
            /\ Distance(h, idx, cap) \in Indices(cap) /\ Distance(h, idx', cap) \in Indices(cap)
        BY <1>3, <1>7, <4>1, DistanceFacts, TypeFacts DEF IInv
      <4> QED BY <1>1, <1>6, <3>2, <4>1, <4>2 DEF Indices
    <3> QED BY <3>1, <3>2 DEF ProbePasses
  <2> QED BY <1>1, <2>1, <2>2 DEF ProbeOK, Passed, ProbeStops
<1>10. CallOK' /\ GrowthOK' /\ PlaceOK'
  BY <1>1 DEF IInv, CallOK, GrowthOK, PlaceOK, Growing
<1>11. RoomOK'
  BY <1>1, TableKept DEF IInv, RoomOK
<1> QED BY <1>1, <1>8, <1>9, <1>10, <1>11, TableKept DEF IInv

----------------------------------------------------------------------------
(* The start of a call, and growth.                                        *)

LEMMA CallStep ==
  ASSUME IInv, NEW c \in Calls, Call(c)
  PROVE  IInv'
<1>1. /\ pc = "idle" /\ call' = c /\ ret' = NoAnswer
      /\ cap \in Nat /\ cap >= 4 /\ len \in Nat /\ tombstones \in Nat
  BY DEF Call, IInv, TypeOK
<1>2. c # NoCall /\ c.key \in Keys
  BY CallFact
<1>3. ret' \in [hit : BOOLEAN, val : Values \cup {NoValue}]
  BY <1>1 DEF NoAnswer, Answer
<1>4. CASE ~(c.op = "insert" /\ ShouldGrow)
  <2>1. Probe(c.key, cap) /\ UNCHANGED table /\ UNCHANGED growth
    BY <1>4 DEF Call
  <2>2. /\ UNCHANGED <<slots, cap, len, tombstones, old, oldCap, cursor>>
        /\ pc' = "probe"
    BY <2>1 DEF table, growth, Probe
  <2>3. ProbeOK' /\ GrowthOK' /\ PlaceOK' /\ idx' \in Indices(cap) /\ firstTomb' = None
    BY <1>1, <2>1, <2>2, ProbeStarts
  <2>4. TypeOK'
    BY <1>1, <1>3, <2>2, <2>3 DEF IInv, TypeOK
  <2>5. CallOK'
    BY <1>1, <1>2, <2>2 DEF CallOK, Growing
  <2>6. RoomOK'
    <3>1. call'.op = "insert" => len + tombstones + 1 < cap
      BY <1>1, <1>4 DEF ShouldGrow
    <3> QED BY <2>1, <2>2, <3>1, TableKept DEF RoomOK
  <2> QED BY <2>1, <2>3, <2>4, <2>5, <2>6, TableKept DEF IInv
<1>5. CASE c.op = "insert" /\ ShouldGrow
  <2>1. /\ old' = slots /\ oldCap' = cap /\ cursor' = 0 /\ cap' = 2 * cap
        /\ slots' = [i \in Indices(2 * cap) |-> Empty]
        /\ len' = 0 /\ tombstones' = 0 /\ pc' = "move"
        /\ idx' = idx /\ firstTomb' = firstTomb
    BY <1>5 DEF Call, Grow
  <2>2. \A i \in Indices(cap') : slots'[i] = Empty /\ ~IsEntry(slots'[i])
    BY <2>1 DEF IsEntry
  <2>3. TypeOK'
    <3>1. idx' \in Indices(cap') /\ firstTomb' \in Indices(cap') \cup {None}
      BY <1>1, <2>1 DEF IInv, TypeOK, Indices
    <3>2. slots' \in [Indices(cap') -> Entry \cup {Empty, Tombstone}]
      BY <2>1
    <3> QED BY <1>1, <1>3, <2>1, <3>1, <3>2 DEF IInv, TypeOK
  <2>4. CallOK' /\ ProbeOK' /\ PlaceOK'
    BY <1>1, <1>2, <1>5, <2>1 DEF CallOK, ProbeOK, PlaceOK
  <2>5. GrowthOK'
    <3>1. \A i \in 0..(cap - 1) : IsEntry(slots[i]) =>
            \A j \in 0..(cap - 1) : Holds(slots[j], slots[i].key) => j = i
      BY DEF IInv, ChainsAreWhole, Indices
    <3>2. \A j \in Indices(cap') : \A k : ~Holds(slots'[j], k)
      BY <2>2 DEF Holds
    <3> QED BY <1>1, <2>1, <3>1, <3>2 DEF GrowthOK
  <2>6. Stored' = {} /\ Used' = {} /\ Tombs' = {}
    <3>1. Empty # Tombstone
      BY SlotsAssumption
    <3>2. Stored' = {}
      BY <2>2 DEF Stored, EntriesIn, Indices
    <3> QED BY <2>2, <3>1, <3>2 DEF Used, Tombs
  <2>7. RoomOK' /\ CountsAreExact'
    BY <1>1, <2>1, <2>6, FS_EmptySet DEF RoomOK, CountsAreExact
  <2>8. ChainsAreWhole'
    BY <2>2 DEF ChainsAreWhole
  <2> QED BY <2>3, <2>4, <2>5, <2>7, <2>8 DEF IInv
<1> QED BY <1>4, <1>5

LEMMA MoveEndsStep ==
  ASSUME IInv, MoveEnds
  PROVE  IInv'
<1>1. /\ pc = "move" /\ pc' = "probe" /\ call' = call /\ ret' = ret
      /\ UNCHANGED table /\ UNCHANGED <<slots, cap, len, tombstones>>
      /\ old' = Nothing /\ oldCap' = 0 /\ cursor' = 0
      /\ Probe(call.key, cap) /\ cursor = oldCap
  BY DEF MoveEnds, table, Probe
<1>2. call \in Calls /\ call.op = "insert"
  BY <1>1 DEF IInv, TypeOK, CallOK, Growing
<1>3. ProbeOK' /\ GrowthOK' /\ PlaceOK' /\ idx' \in Indices(cap) /\ firstTomb' = None
  BY <1>1, <1>2, ProbeStarts
<1>4. TypeOK'
  <2>1. old' \in [Indices(oldCap') -> Entry \cup {Empty, Tombstone}]
    BY <1>1 DEF Nothing, Indices
  <2> QED BY <1>1, <1>3, <2>1 DEF IInv, TypeOK
<1>5. CallOK'
  BY <1>1 DEF IInv, CallOK, Growing
<1>6. RoomOK'
  <2>1. len + tombstones + 1 < cap
    BY <1>1 DEF IInv, TypeOK, GrowthOK, Growing
  <2> QED BY <1>1, <2>1, TableKept DEF RoomOK
<1> QED BY <1>1, <1>3, <1>4, <1>5, <1>6, TableKept DEF IInv

LEMMA MoveSkipsStep ==
  ASSUME IInv, MoveSkips
  PROVE  IInv'
<1>1. /\ pc = "move" /\ cursor < oldCap /\ cursor' = cursor + 1
      /\ UNCHANGED table /\ UNCHANGED <<slots, cap, len, tombstones>>
      /\ UNCHANGED <<old, oldCap, pc, idx, firstTomb, call, ret>>
  BY DEF MoveSkips, table
<1>2. TypeOK'
  BY <1>1 DEF IInv, TypeOK
<1>3. CallOK' /\ ProbeOK' /\ PlaceOK'
  BY <1>1 DEF IInv, CallOK, ProbeOK, PlaceOK, Growing
<1>4. GrowthOK'
  <2>1. cursor \in Nat /\ oldCap \in Nat /\ len \in Nat
    BY DEF IInv, TypeOK
  <2>2. cursor'..(oldCap' - 1) \subseteq cursor..(oldCap - 1)
    BY <1>1, <2>1
  <2>3. /\ cap = 2 * oldCap /\ oldCap >= 4 /\ tombstones = 0 /\ len <= cursor
        /\ \A i \in cursor..(oldCap - 1) : IsEntry(old[i]) =>
             /\ \A j \in cursor..(oldCap - 1) : Holds(old[j], old[i].key) => j = i
             /\ \A j \in Indices(cap) : ~Holds(slots[j], old[i].key)
    BY <1>1 DEF IInv, GrowthOK, Growing
  <2> QED BY <1>1, <2>1, <2>2, <2>3 DEF GrowthOK
<1>5. RoomOK'
  BY <1>1, TableKept DEF RoomOK
<1> QED BY <1>1, <1>2, <1>3, <1>4, <1>5, TableKept DEF IInv

LEMMA MoveStartsStep ==
  ASSUME IInv, MoveStarts
  PROVE  IInv'
<1>1. /\ pc = "move" /\ pc' = "place" /\ cursor < oldCap /\ IsEntry(old[cursor])
      /\ idx' = Home(old[cursor].key, cap)
      /\ UNCHANGED table /\ UNCHANGED <<slots, cap, len, tombstones>>
      /\ UNCHANGED <<old, oldCap, cursor, firstTomb, call, ret>>
  BY DEF MoveStarts, table, growth
<1>2. cap \in Nat /\ cap > 0 /\ cursor \in Indices(oldCap) /\ old[cursor].key \in Keys
  <2>1. cursor \in Indices(oldCap)
    BY <1>1 DEF IInv, TypeOK, Indices
  <2>2. old[cursor] \in Slot
    BY <2>1, TypeFacts DEF IInv
  <2> QED BY <1>1, <2>1, <2>2, SlotFact, TypeFacts DEF IInv
<1>3. idx' \in Indices(cap)
  BY <1>1, <1>2, HomeFact
<1>4. TypeOK'
  BY <1>1, <1>3 DEF IInv, TypeOK
<1>5. CallOK' /\ ProbeOK' /\ GrowthOK'
  BY <1>1 DEF IInv, CallOK, ProbeOK, GrowthOK, Growing
<1>6. PlaceOK'
  <2>1. \A j \in Indices(cap) : ~(Distance(idx', j, cap) < Distance(idx', idx', cap))
    BY <1>2, <1>3, DistanceFacts DEF Indices
  <2> QED BY <1>1, <2>1 DEF PlaceOK, Passed
<1>7. RoomOK'
  BY <1>1, TableKept DEF RoomOK
<1> QED BY <1>1, <1>4, <1>5, <1>6, <1>7, TableKept DEF IInv

LEMMA PlacePassesStep ==
  ASSUME IInv, PlacePasses
  PROVE  IInv'
<1> DEFINE h == Home(old[cursor].key, cap)
<1>1. /\ pc = "place" /\ pc' = "place" /\ slots[idx] # Empty /\ idx' = After(idx, cap)
      /\ UNCHANGED table /\ UNCHANGED <<slots, cap, len, tombstones>>
      /\ UNCHANGED <<old, oldCap, cursor, firstTomb, call, ret>>
  BY DEF PlacePasses, table, growth
<1>2. h \in Indices(cap) /\ Passed(h, idx, {Empty}) /\ cursor < oldCap /\ IsEntry(old[cursor])
  <2>1. cursor \in Indices(oldCap) /\ IsEntry(old[cursor])
    BY <1>1 DEF IInv, TypeOK, Indices, PlaceOK
  <2>2. old[cursor] \in Slot
    BY <2>1, TypeFacts DEF IInv
  <2> QED BY <1>1, <2>1, <2>2, SlotFact, TypeFacts, HomeFact DEF IInv, PlaceOK
<1>3. PICK e \in Indices(cap) : slots[e] = Empty
  BY RoomLeavesEmpty DEF IInv, AnEmptySlotIsLeft
<1>4. Passed(h, After(idx, cap), {Empty})
  BY <1>1, <1>2, <1>3, PassOne DEF IInv
<1>5. TypeOK'
  <2>1. idx' \in Indices(cap)
    BY <1>1, DistanceFacts, TypeFacts DEF IInv
  <2> QED BY <1>1, <2>1 DEF IInv, TypeOK
<1>6. CallOK' /\ ProbeOK' /\ GrowthOK'
  BY <1>1 DEF IInv, CallOK, ProbeOK, GrowthOK, Growing
<1>7. PlaceOK'
  BY <1>1, <1>2, <1>4 DEF PlaceOK, Passed
<1>8. RoomOK'
  BY <1>1, TableKept DEF RoomOK
<1> QED BY <1>1, <1>5, <1>6, <1>7, <1>8, TableKept DEF IInv

----------------------------------------------------------------------------
(* Steps that write a slot.                                                *)

\* A new entry goes to a free slot that its chain reaches.
LEMMA EntryPut ==
  ASSUME IInv, NEW i \in Indices(cap), NEW e \in Entry, ~IsEntry(slots[i]),
         Passed(Home(e.key, cap), i, {Empty}),
         \A j \in Indices(cap) : ~Holds(slots[j], e.key),
         slots' = [slots EXCEPT ![i] = e], cap' = cap
  PROVE  /\ ChainsAreWhole'
         /\ Stored' = Stored \cup {e}
         /\ IsFiniteSet(Stored') /\ Cardinality(Stored') = Cardinality(Stored) + 1
         /\ slots[i] = Empty =>
              /\ Cardinality(Used') = Cardinality(Used) + 1
              /\ Cardinality(Tombs') = Cardinality(Tombs)
         /\ slots[i] = Tombstone =>
              /\ Cardinality(Used') = Cardinality(Used)
              /\ Cardinality(Tombs') = Cardinality(Tombs) - 1
<1>1. /\ cap \in Nat /\ cap > 0 /\ slots \in [Indices(cap) -> Slot]
      /\ IsEntry(e) /\ e \in Slot /\ e # Empty /\ e # Tombstone
  <2>1. e \in Slot
    BY DEF Slot
  <2> QED BY <2>1, TypeFacts, SlotFact DEF IInv, IsEntry
<1>2. /\ slots'[i] = e /\ slots[i] \in {Empty, Tombstone}
      /\ \A j \in Indices(cap) : j # i => slots'[j] = slots[j]
      /\ Written(slots, slots', cap, i, e)
  BY <1>1 DEF IsEntry, Written
<1>3. Stored' = Stored \cup {e}
  <2>1. Stored' = EntriesIn(slots', 0, cap)
    BY DEF Stored, EntriesIn
  <2>2. EntriesIn(slots', 0, cap) = EntriesIn(slots, 0, cap) \cup {e}
    BY <1>1, <1>2, PutFree
  <2> QED BY <2>1, <2>2 DEF Stored
<1>4. e \notin Stored
  BY <1>1 DEF Stored, EntriesIn, Holds, Indices
<1>5. IsFiniteSet(Stored') /\ Cardinality(Stored') = Cardinality(Stored) + 1
  BY <1>3, <1>4, FS_AddElement DEF IInv, RoomOK
<1>6. IsFiniteSet(Used) /\ IsFiniteSet(Tombs)
  BY CountFacts DEF IInv
<1>7. /\ Used' = Used \cup {i} /\ Tombs' = Tombs \ {i}
  <2>1. ASSUME NEW j PROVE j \in Used' <=> j \in Used \cup {i}
    BY <1>1, <1>2 DEF Used
  <2>2. ASSUME NEW j PROVE j \in Tombs' <=> j \in Tombs \ {i}
    BY <1>1, <1>2 DEF Tombs
  <2> QED BY <2>1, <2>2
<1>8. ASSUME slots[i] = Empty
      PROVE  /\ Cardinality(Used') = Cardinality(Used) + 1
             /\ Cardinality(Tombs') = Cardinality(Tombs)
  <2>1. i \notin Used /\ i \notin Tombs
    BY <1>8, SlotsAssumption DEF Used, Tombs
  <2>2. Tombs' = Tombs
    BY <1>7, <2>1
  <2> QED BY <1>6, <1>7, <2>1, <2>2, FS_AddElement
<1>9. ASSUME slots[i] = Tombstone
      PROVE  /\ Cardinality(Used') = Cardinality(Used)
             /\ Cardinality(Tombs') = Cardinality(Tombs) - 1
  <2>1. i \in Used /\ i \in Tombs
    BY <1>9, SlotsAssumption DEF Used, Tombs
  <2>2. Used' = Used
    BY <1>7, <2>1
  <2> QED BY <1>6, <1>7, <2>1, <2>2, FS_RemoveElement
<1>10. ChainsAreWhole'
  <2> SUFFICES ASSUME NEW k \in Indices(cap), IsEntry(slots'[k])
               PROVE  /\ \A j \in Indices(cap) :
                            Distance(Home(slots'[k].key, cap), j, cap)
                              < Distance(Home(slots'[k].key, cap), k, cap)
                              => slots'[j] # Empty
                      /\ \A j \in Indices(cap) : Holds(slots'[j], slots'[k].key) => j = k
    BY DEF ChainsAreWhole, Passed
  <2>1. \A j \in Indices(cap) : slots[j] # Empty => slots'[j] # Empty
    BY <1>1, <1>2
  <2>2. CASE k = i
    BY <1>1, <1>2, <2>1, <2>2 DEF Passed, Holds
  <2>3. CASE k # i
    <3>1. slots'[k] = slots[k] /\ IsEntry(slots[k])
      BY <1>2, <2>3
    <3>2. /\ Passed(Home(slots[k].key, cap), k, {Empty})
          /\ \A j \in Indices(cap) : Holds(slots[j], slots[k].key) => j = k
      BY <3>1 DEF IInv, ChainsAreWhole
    <3>3. ~Holds(e, slots[k].key)
      BY <1>1, <3>1 DEF Holds
    <3> QED BY <1>2, <2>1, <3>1, <3>2, <3>3 DEF Passed
  <2> QED BY <2>2, <2>3
<1> QED BY <1>3, <1>5, <1>8, <1>9, <1>10

LEMMA PlaceStep ==
  ASSUME IInv, Place
  PROVE  IInv'
<1> DEFINE e == old[cursor]
<1>1. /\ pc = "place" /\ pc' = "move" /\ slots[idx] = Empty
      /\ slots' = [slots EXCEPT ![idx] = e]
      /\ len' = len + 1 /\ cursor' = cursor + 1
      /\ UNCHANGED <<cap, tombstones, old, oldCap, idx, firstTomb, call, ret>>
  BY DEF Place
<1>2. /\ cursor \in Nat /\ oldCap \in Nat /\ cursor < oldCap /\ cursor \in Indices(oldCap)
      /\ cap \in Nat /\ idx \in Indices(cap) /\ len \in Nat /\ tombstones \in Nat
      /\ IsEntry(e) /\ Passed(Home(e.key, cap), idx, {Empty})
      /\ cap = 2 * oldCap /\ oldCap >= 4 /\ tombstones = 0 /\ len <= cursor
  BY <1>1 DEF IInv, TypeOK, Indices, PlaceOK, GrowthOK, Growing
<1>3. e \in Entry
  BY <1>2, TypeFacts, SlotFact DEF IInv
<1>4. \A i \in cursor..(oldCap - 1) : IsEntry(old[i]) =>
        /\ \A j \in cursor..(oldCap - 1) : Holds(old[j], old[i].key) => j = i
        /\ \A j \in Indices(cap) : ~Holds(slots[j], old[i].key)
  BY <1>1 DEF IInv, GrowthOK, Growing
<1>5. \A j \in Indices(cap) : ~Holds(slots[j], e.key)
  BY <1>2, <1>4
<1>6. ~IsEntry(slots[idx])
  BY <1>1 DEF IsEntry
<1>7. /\ ChainsAreWhole'
      /\ IsFiniteSet(Stored') /\ Cardinality(Stored') = Cardinality(Stored) + 1
      /\ Cardinality(Used') = Cardinality(Used) + 1
      /\ Cardinality(Tombs') = Cardinality(Tombs)
  BY <1>1, <1>2, <1>3, <1>5, <1>6, EntryPut
<1>8. TypeOK'
  <2>1. slots' \in [Indices(cap') -> Entry \cup {Empty, Tombstone}]
    BY <1>1, <1>3 DEF IInv, TypeOK
  <2> QED BY <1>1, <1>2, <2>1 DEF IInv, TypeOK
<1>9. CallOK' /\ ProbeOK' /\ PlaceOK'
  BY <1>1 DEF IInv, CallOK, ProbeOK, PlaceOK, Growing
<1>10. GrowthOK'
  <2>1. cursor'..(oldCap' - 1) \subseteq cursor..(oldCap - 1)
    BY <1>1, <1>2
  <2>2. ASSUME NEW i \in cursor'..(oldCap' - 1), IsEntry(old[i]), NEW j \in Indices(cap)
        PROVE  ~Holds(slots'[j], old[i].key)
    <3>1. CASE j = idx
      <4>1. slots'[j] = e
        BY <1>1, <3>1, TypeFacts DEF IInv
      <4>2. i # cursor /\ cursor \in cursor..(oldCap - 1)
        BY <1>1, <1>2, <2>2
      <4>3. ~Holds(e, old[i].key)
        BY <1>4, <2>1, <2>2, <4>2
      <4> QED BY <4>1, <4>3
    <3>2. CASE j # idx
      <4>1. slots'[j] = slots[j]
        BY <1>1, <3>2, TypeFacts DEF IInv
      <4> QED BY <1>4, <2>1, <2>2, <4>1
    <3> QED BY <3>1, <3>2
  <2>3. ASSUME NEW i \in cursor'..(oldCap' - 1), IsEntry(old[i]),
               NEW j \in cursor'..(oldCap' - 1), Holds(old[j], old[i].key)
        PROVE  j = i
    BY <1>4, <2>1, <2>3
  <2> QED BY <1>1, <1>2, <2>2, <2>3 DEF GrowthOK
<1>11. RoomOK' /\ CountsAreExact'
  <2>1. /\ Cardinality(Used) = len + tombstones /\ len + tombstones < cap
        /\ len = Cardinality(Stored) /\ tombstones = Cardinality(Tombs)
    BY DEF IInv, RoomOK, CountsAreExact
  <2>2. /\ Cardinality(Used') = len' + tombstones' /\ len' + tombstones' < cap'
        /\ len' = Cardinality(Stored') /\ tombstones' = Cardinality(Tombs')
    BY <1>1, <1>2, <1>7, <2>1
  <2> QED BY <1>1, <1>7, <2>2 DEF RoomOK, CountsAreExact
<1> QED BY <1>7, <1>8, <1>9, <1>10, <1>11 DEF IInv

\* What a search that met an empty slot knows: the key is not in the table,
\* and the free slot it gives to insert is on the chain of the key.
LEMMA MissFacts ==
  ASSUME IInv, Miss
  PROVE  /\ call \in Calls /\ call.key \in Keys /\ Free \in Indices(cap)
         /\ Passed(Home(call.key, cap), Free, {Empty})
         /\ \A j \in Indices(cap) : ~Holds(slots[j], call.key)
         /\ ~IsEntry(slots[Free])
<1> DEFINE h == Home(call.key, cap)
<1>1. /\ pc = "probe" /\ slots[idx] = Empty /\ cap \in Nat /\ cap > 0 /\ idx \in Indices(cap)
      /\ Passed(h, idx, ProbeStops)
  BY TypeFacts DEF Miss, IInv, ProbeOK
<1>2. call \in Calls /\ call.key \in Keys
  BY <1>1, CallFact DEF IInv, TypeOK, CallOK
<1>3. h \in Indices(cap) /\ Distance(h, idx, cap) \in Indices(cap)
  BY <1>1, <1>2, HomeFact, DistanceFacts
<1>4. /\ Free \in Indices(cap) /\ slots[Free] \in {Empty, Tombstone}
      /\ Distance(h, Free, cap) <= Distance(h, idx, cap)
  <2>1. CASE firstTomb = None
    BY <1>1, <1>3, <2>1 DEF Free, Indices
  <2>2. CASE firstTomb # None
    <3>1. /\ firstTomb \in Indices(cap) /\ slots[firstTomb] = Tombstone
          /\ Distance(h, firstTomb, cap) < Distance(h, idx, cap)
      BY <1>1, <2>2 DEF IInv, TypeOK, ProbeOK
    <3>2. Distance(h, firstTomb, cap) \in Indices(cap)
      BY <1>1, <1>3, <3>1, DistanceFacts
    <3> QED BY <1>3, <2>2, <3>1, <3>2 DEF Free, Indices
  <2> QED BY <2>1, <2>2
<1>5. Passed(h, Free, {Empty})
  <2>1. Distance(h, Free, cap) \in Indices(cap)
    BY <1>1, <1>3, <1>4, DistanceFacts
  <2>2. ASSUME NEW j \in Indices(cap), Distance(h, j, cap) < Distance(h, Free, cap)
        PROVE  slots[j] # Empty
    <3>1. Distance(h, j, cap) \in Indices(cap)
      BY <1>1, <1>3, DistanceFacts
    <3>2. Distance(h, j, cap) < Distance(h, idx, cap)
      BY <1>3, <1>4, <2>1, <2>2, <3>1 DEF Indices
    <3> QED BY <1>1, <3>2 DEF Passed, ProbeStops
  <2> QED BY <2>2 DEF Passed
<1>6. ASSUME NEW j \in Indices(cap), Holds(slots[j], call.key)
      PROVE  FALSE
  <2>1. slots[j] \in Entry /\ IsEntry(slots[j]) /\ slots[j] # Empty /\ slots[j].key = call.key
    BY <1>6, TypeFacts, SlotFact DEF IInv, Holds
  <2>2. Distance(h, j, cap) \in Indices(cap)
    BY <1>1, <1>3, DistanceFacts
  <2>3. ~(Distance(h, j, cap) < Distance(h, idx, cap))
    BY <1>1, <2>1 DEF Passed, ProbeStops
  <2>4. Distance(h, j, cap) # Distance(h, idx, cap)
    <3>1. j # idx
      BY <1>1, <2>1
    <3> QED BY <1>1, <1>3, <3>1, DistanceFacts
  <2>5. ~(Distance(h, idx, cap) < Distance(h, j, cap))
    <3>1. Passed(h, j, {Empty})
      BY <2>1 DEF IInv, ChainsAreWhole
    <3> QED BY <1>1, <3>1 DEF Passed
  <2> QED BY <1>3, <2>2, <2>3, <2>4, <2>5 DEF Indices
<1> QED BY <1>2, <1>4, <1>5, <1>6 DEF IsEntry

LEMMA InsertMissStep ==
  ASSUME IInv, InsertMiss
  PROVE  IInv'
<1>1. /\ Miss /\ pc = "probe" /\ call.op = "insert"
      /\ slots' = [slots EXCEPT ![Free] = Mine] /\ len' = len + 1
      /\ tombstones' = IF slots[Free] = Tombstone THEN tombstones - 1 ELSE tombstones
      /\ pc' = "idle" /\ call' = NoCall /\ ret' = NoAnswer /\ idx' = 0 /\ firstTomb' = None
      /\ UNCHANGED <<cap, old, oldCap, cursor>>
  BY DEF InsertMiss, Return, Miss, growth
<1>2. /\ Free \in Indices(cap) /\ ~IsEntry(slots[Free])
      /\ Mine \in Entry /\ Mine.key = call.key
      /\ Passed(Home(Mine.key, cap), Free, {Empty})
      /\ \A j \in Indices(cap) : ~Holds(slots[j], Mine.key)
  <2>1. Mine \in Entry /\ Mine.key = call.key
    BY <1>1, MissFacts, CallFact DEF Mine
  <2> QED BY <1>1, <2>1, MissFacts
<1>3. /\ ChainsAreWhole'
      /\ IsFiniteSet(Stored') /\ Cardinality(Stored') = Cardinality(Stored) + 1
      /\ slots[Free] = Empty =>
           /\ Cardinality(Used') = Cardinality(Used) + 1
           /\ Cardinality(Tombs') = Cardinality(Tombs)
      /\ slots[Free] = Tombstone =>
           /\ Cardinality(Used') = Cardinality(Used)
           /\ Cardinality(Tombs') = Cardinality(Tombs) - 1
  <2> HIDE DEF Free, Mine
  <2> QED BY <1>1, <1>2, EntryPut
<1>4. slots[Free] = Empty \/ slots[Free] = Tombstone
  BY <1>2 DEF IsEntry
<1>5. /\ Cardinality(Used) = len + tombstones /\ len + tombstones + 1 < cap
      /\ len = Cardinality(Stored) /\ tombstones = Cardinality(Tombs)
      /\ len \in Nat /\ tombstones \in Nat /\ cap \in Nat
  BY <1>1 DEF IInv, RoomOK, CountsAreExact, TypeOK
<1>6. slots[Free] = Tombstone => tombstones - 1 \in Nat
  <2>1. ASSUME slots[Free] = Tombstone PROVE Free \in Tombs
    BY <1>2, <2>1 DEF Tombs
  <2>2. ASSUME slots[Free] = Tombstone PROVE Cardinality(Tombs) # 0
    BY <2>1, <2>2, CountFacts, FS_EmptySet DEF IInv
  <2> QED BY <1>5, <2>2
<1>7. TypeOK'
  <2>1. slots' \in [Indices(cap') -> Entry \cup {Empty, Tombstone}]
    BY <1>1, <1>2 DEF IInv, TypeOK
  <2>2. ret' \in [hit : BOOLEAN, val : Values \cup {NoValue}]
    BY <1>1 DEF NoAnswer, Answer
  <2>3. len' \in Nat /\ tombstones' \in Nat /\ idx' \in Indices(cap')
    BY SMTT(30), <1>1, <1>5, <1>6 DEF IInv, TypeOK, Indices
  <2> QED BY <1>1, <2>1, <2>2, <2>3 DEF IInv, TypeOK
<1>8. CallOK' /\ ProbeOK' /\ GrowthOK' /\ PlaceOK'
  BY <1>1 DEF CallOK, ProbeOK, GrowthOK, PlaceOK, Growing
<1>9. RoomOK' /\ CountsAreExact'
  <2>1. /\ Cardinality(Used') = len' + tombstones' /\ len' + tombstones' < cap'
        /\ len' = Cardinality(Stored') /\ tombstones' = Cardinality(Tombs')
    BY <1>1, <1>3, <1>4, <1>5, SlotsAssumption
  <2> QED BY <1>1, <1>3, <2>1 DEF RoomOK, CountsAreExact
<1> QED BY <1>3, <1>7, <1>8, <1>9 DEF IInv

LEMMA HitFacts ==
  ASSUME IInv, Hit
  PROVE  /\ call \in Calls /\ idx \in Indices(cap) /\ cap \in Nat
         /\ slots \in [Indices(cap) -> Slot] /\ KeyedApart(slots, cap)
         /\ IsEntry(slots[idx]) /\ slots[idx] \in Entry /\ slots[idx].key = call.key
         /\ slots[idx] # Empty /\ slots[idx] # Tombstone
<1>1. call \in Calls
  BY DEF Hit, IInv, TypeOK, CallOK
<1>2. KeyedApart(slots, cap)
  BY DEF IInv, ChainsAreWhole, KeyedApart
<1> QED BY <1>1, <1>2, TypeFacts, SlotFact DEF Hit, Holds, IInv

\* An entry, or a tombstone, written over an entry.
LEMMA EntryOver ==
  ASSUME IInv, NEW i \in Indices(cap), IsEntry(slots[i]), NEW e \in Slot, e # Empty,
         IsEntry(e) => e.key = slots[i].key,
         slots' = [slots EXCEPT ![i] = e], cap' = cap
  PROVE  ChainsAreWhole' /\ Used' = Used
<1>1. slots \in [Indices(cap) -> Slot] /\ slots[i] # Empty
  BY TypeFacts DEF IInv, IsEntry
<1>2. /\ slots'[i] = e
      /\ \A j \in Indices(cap) : j # i => slots'[j] = slots[j]
      /\ \A j \in Indices(cap) : slots[j] # Empty <=> slots'[j] # Empty
  BY <1>1
<1>3. Used' = Used
  BY <1>2 DEF Used
<1>4. \A j \in Indices(cap) : IsEntry(slots'[j]) =>
        IsEntry(slots[j]) /\ slots'[j].key = slots[j].key
  BY <1>2
<1>5. \A k : \A j \in Indices(cap) : Holds(slots'[j], k) => Holds(slots[j], k)
  BY <1>4 DEF Holds
<1>6. ChainsAreWhole'
  <2> SUFFICES ASSUME NEW k \in Indices(cap), IsEntry(slots'[k])
               PROVE  /\ \A j \in Indices(cap) :
                            Distance(Home(slots'[k].key, cap), j, cap)
                              < Distance(Home(slots'[k].key, cap), k, cap)
                              => slots'[j] # Empty
                      /\ \A j \in Indices(cap) : Holds(slots'[j], slots'[k].key) => j = k
    BY DEF ChainsAreWhole, Passed
  <2>1. /\ Passed(Home(slots[k].key, cap), k, {Empty})
        /\ \A j \in Indices(cap) : Holds(slots[j], slots[k].key) => j = k
    BY <1>4 DEF IInv, ChainsAreWhole
  <2> QED BY <1>2, <1>4, <1>5, <2>1 DEF Passed
<1> QED BY <1>3, <1>6

LEMMA InsertHitStep ==
  ASSUME IInv, InsertHit
  PROVE  IInv'
<1>1. /\ Hit /\ call.op = "insert"
      /\ slots' = [slots EXCEPT ![idx] = Mine] /\ len' = len /\ tombstones' = tombstones
      /\ pc' = "idle" /\ call' = NoCall /\ ret' = Answer(TRUE, NoValue)
      /\ idx' = 0 /\ firstTomb' = None
      /\ UNCHANGED <<cap, old, oldCap, cursor>>
  BY DEF InsertHit, Return, growth
<1>2. Mine \in Entry /\ Mine.key = call.key /\ Mine \in Slot /\ IsEntry(Mine)
      /\ Mine # Empty /\ Mine # Tombstone
  BY <1>1, HitFacts, CallFact DEF Mine, Slot, IsEntry
<1> HIDE DEF Mine
<1>3. ChainsAreWhole' /\ Used' = Used
  BY <1>1, <1>2, HitFacts, EntryOver
<1>4. Written(slots, slots', cap, idx, Mine)
  BY <1>1, <1>2, HitFacts DEF Written
<1>5. /\ EntriesIn(slots', 0, cap)
           = {x \in EntriesIn(slots, 0, cap) : x.key # slots[idx].key} \cup {Mine}
      /\ {x \in EntriesIn(slots, 0, cap) : x.key # slots[idx].key}
           = EntriesIn(slots, 0, cap) \ {slots[idx]}
      /\ slots[idx] \in EntriesIn(slots, 0, cap)
  <2>1. EntriesIn(slots', 0, cap)
           = {x \in EntriesIn(slots, 0, cap) : x.key # slots[idx].key} \cup {Mine}
    BY <1>1, <1>2, <1>4, HitFacts, PutOver
  <2>2. \A x : x \in EntriesIn(slots, 0, cap) /\ x.key = slots[idx].key <=> x = slots[idx]
    BY <1>1, HitFacts DEF EntriesIn, KeyedApart, Holds, Indices
  <2> QED BY <2>1, <2>2
<1>6. IsFiniteSet(Stored') /\ Cardinality(Stored') = Cardinality(Stored)
  <2> DEFINE rest == Stored \ {slots[idx]}
  <2>1. Stored' = rest \cup {Mine} /\ slots[idx] \in Stored
    BY <1>1, <1>5 DEF Stored, EntriesIn
  <2>2. Mine \notin rest
    BY <1>1, <1>2, <1>5, HitFacts DEF Stored
  <2>3. /\ IsFiniteSet(Stored) /\ Cardinality(Stored) \in Nat
    BY FS_CardinalityType DEF IInv, RoomOK
  <2>4. IsFiniteSet(rest) /\ Cardinality(rest) = Cardinality(Stored) - 1
    BY <2>1, <2>3, FS_RemoveElement
  <2> HIDE DEF rest
  <2>5. IsFiniteSet(rest \cup {Mine}) /\ Cardinality(rest \cup {Mine}) = Cardinality(rest) + 1
    BY <2>2, <2>4, FS_AddElement
  <2> QED BY <2>1, <2>3, <2>4, <2>5
<1>7. Tombs' = Tombs
  BY <1>1, <1>2, <1>4, HitFacts DEF Tombs, Written
<1>8. TypeOK'
  <2>1. slots' \in [Indices(cap') -> Entry \cup {Empty, Tombstone}]
    BY <1>1, <1>2 DEF IInv, TypeOK
  <2>2. ret' \in [hit : BOOLEAN, val : Values \cup {NoValue}]
    BY <1>1 DEF Answer
  <2>3. idx' \in Indices(cap')
    BY <1>1 DEF IInv, TypeOK, Indices
  <2> QED BY <1>1, <2>1, <2>2, <2>3 DEF IInv, TypeOK
<1>9. CallOK' /\ ProbeOK' /\ GrowthOK' /\ PlaceOK'
  BY <1>1 DEF CallOK, ProbeOK, GrowthOK, PlaceOK, Growing
<1>10. RoomOK' /\ CountsAreExact'
  BY <1>1, <1>3, <1>6, <1>7 DEF IInv, RoomOK, CountsAreExact
<1> QED BY <1>3, <1>8, <1>9, <1>10 DEF IInv

LEMMA RemoveHitStep ==
  ASSUME IInv, RemoveHit
  PROVE  IInv'
<1>1. /\ Hit /\ call.op = "remove"
      /\ slots' = [slots EXCEPT ![idx] = Tombstone]
      /\ len' = len - 1 /\ tombstones' = tombstones + 1
      /\ pc' = "idle" /\ call' = NoCall /\ ret' = Answer(TRUE, slots[idx].val)
      /\ idx' = 0 /\ firstTomb' = None
      /\ UNCHANGED <<cap, old, oldCap, cursor>>
  BY DEF RemoveHit, Return, growth
<1>2. Tombstone \in Slot /\ Tombstone # Empty /\ ~IsEntry(Tombstone)
  BY SlotsAssumption DEF Slot, IsEntry
<1>3. ChainsAreWhole' /\ Used' = Used
  BY <1>1, <1>2, HitFacts, EntryOver
<1>4. Written(slots, slots', cap, idx, Tombstone)
  BY <1>1, <1>2, HitFacts DEF Written
<1>5. Stored' = Stored \ {slots[idx]} /\ slots[idx] \in Stored
  <2>1. /\ EntriesIn(slots', 0, cap) = EntriesIn(slots, 0, cap) \ {slots[idx]}
        /\ slots[idx] \in EntriesIn(slots, 0, cap)
    BY <1>1, <1>4, HitFacts, TakeOut
  <2>2. Stored' = EntriesIn(slots', 0, cap)
    BY <1>1 DEF Stored, EntriesIn
  <2> QED BY <2>1, <2>2 DEF Stored
<1>6. /\ IsFiniteSet(Stored') /\ Cardinality(Stored') = Cardinality(Stored) - 1
      /\ Cardinality(Stored') \in Nat
  <2>1. IsFiniteSet(Stored)
    BY DEF IInv, RoomOK
  <2> QED BY <1>5, <2>1, FS_RemoveElement, FS_CardinalityType
<1>7. Cardinality(Tombs') = Cardinality(Tombs) + 1
  <2>1. idx \notin Tombs
    BY <1>1, HitFacts DEF Tombs
  <2>2. ASSUME NEW j PROVE j \in Tombs' <=> j \in Tombs \cup {idx}
    BY <1>1, <1>4, HitFacts DEF Tombs, Written
  <2>3. Tombs' = Tombs \cup {idx}
    BY <2>2
  <2> QED BY <2>1, <2>3, CountFacts, FS_AddElement DEF IInv
<1>8. /\ Cardinality(Used) = len + tombstones /\ len + tombstones < cap
      /\ len = Cardinality(Stored) /\ tombstones = Cardinality(Tombs)
      /\ len \in Nat /\ tombstones \in Nat /\ cap \in Nat
  BY DEF IInv, RoomOK, CountsAreExact, TypeOK
<1>9. TypeOK'
  <2>1. slots' \in [Indices(cap') -> Entry \cup {Empty, Tombstone}]
    BY <1>1 DEF IInv, TypeOK
  <2>2. ret' \in [hit : BOOLEAN, val : Values \cup {NoValue}]
    BY <1>1, HitFacts DEF Answer, Entry
  <2>3. idx' \in Indices(cap') /\ len' \in Nat /\ tombstones' \in Nat
    BY SMTT(30), <1>1, <1>6, <1>8 DEF IInv, TypeOK, Indices
  <2> QED BY <1>1, <2>1, <2>2, <2>3 DEF IInv, TypeOK
<1>10. CallOK' /\ ProbeOK' /\ GrowthOK' /\ PlaceOK'
  BY <1>1 DEF CallOK, ProbeOK, GrowthOK, PlaceOK, Growing
<1>11. RoomOK' /\ CountsAreExact'
  <2>1. /\ Cardinality(Used') = len' + tombstones' /\ len' + tombstones' < cap'
        /\ len' = Cardinality(Stored') /\ tombstones' = Cardinality(Tombs')
    BY <1>1, <1>3, <1>6, <1>7, <1>8
  <2> QED BY <1>1, <1>6, <2>1 DEF RoomOK, CountsAreExact
<1> QED BY <1>3, <1>9, <1>10, <1>11 DEF IInv

----------------------------------------------------------------------------
(* The theorems.                                                           *)

LEMMA InitIInv == Init => IInv
<1> SUFFICES ASSUME Init PROVE IInv
  OBVIOUS
<1>1. /\ cap = InitialCapacity /\ cap \in Nat /\ cap >= 4
      /\ slots = [i \in Indices(cap) |-> Empty]
      /\ \A i \in Indices(cap) : slots[i] = Empty /\ ~IsEntry(slots[i])
      /\ len = 0 /\ tombstones = 0 /\ pc = "idle" /\ call = NoCall
  BY CapacityAssumption DEF Init, IsEntry
<1>2. TypeOK
  <2>1. old \in [Indices(oldCap) -> Entry \cup {Empty, Tombstone}]
    BY DEF Init, Nothing, Indices
  <2>2. ret \in [hit : BOOLEAN, val : Values \cup {NoValue}] /\ idx \in Indices(cap)
    BY <1>1 DEF Init, NoAnswer, Answer, Indices
  <2>3. slots \in [Indices(cap) -> Entry \cup {Empty, Tombstone}]
    BY <1>1
  <2> QED BY <1>1, <2>1, <2>2, <2>3 DEF Init, TypeOK
<1>3. CallOK /\ ProbeOK /\ GrowthOK /\ PlaceOK
  BY <1>1 DEF CallOK, ProbeOK, GrowthOK, PlaceOK, Growing
<1>4. Stored = {} /\ Used = {} /\ Tombs = {}
  <2>1. Empty # Tombstone
    BY SlotsAssumption
  <2>2. Stored = {}
    BY <1>1 DEF Stored, EntriesIn, Indices
  <2> QED BY <1>1, <2>1, <2>2 DEF Used, Tombs
<1>5. RoomOK /\ CountsAreExact
  BY <1>1, <1>4, FS_EmptySet DEF RoomOK, CountsAreExact
<1>6. ChainsAreWhole
  BY <1>1 DEF ChainsAreWhole
<1> QED BY <1>2, <1>3, <1>5, <1>6 DEF IInv

LEMMA NextIInv == IInv /\ [Next]_vars => IInv'
<1> SUFFICES ASSUME IInv, [Next]_vars PROVE IInv'
  OBVIOUS
<1>1. ASSUME NEW c \in Calls, Call(c) PROVE IInv'
  BY <1>1, CallStep
<1>2. CASE Moves
  BY <1>2, MoveEndsStep, MoveSkipsStep, MoveStartsStep, PlacePassesStep, PlaceStep DEF Moves
<1>3. CASE ProbePasses
  BY <1>3, ProbePassesStep
<1>4. CASE Ends
  BY <1>4, InsertHitStep, InsertMissStep, RemoveHitStep, LookupEnds DEF Ends
<1>5. CASE UNCHANGED vars
  BY <1>5 DEF vars, IInv, TypeOK, CallOK, ProbeOK, GrowthOK, PlaceOK, RoomOK,
       CountsAreExact, ChainsAreWhole, Growing, Passed, ProbeStops, Stored, EntriesIn,
       Used, Tombs
<1> QED BY <1>1, <1>2, <1>3, <1>4, <1>5 DEF Next

\* Every conjunct of IInv holds in every reachable state: the counters are
\* exact and no chain is broken, for any hash function and any history.
THEOREM Invariance == Spec => []IInv
<1> QED BY InitIInv, NextIInv, PTL DEF Spec

\* What zo_map_len answers, and what the next growth is decided from, is exact.
THEOREM ExactCounts == Spec => []CountsAreExact
<1>1. IInv => CountsAreExact
  BY DEF IInv
<1> QED BY <1>1, Invariance, PTL

\* Everything stored can be found from its home slot, and is stored once.
THEOREM WholeChains == Spec => []ChainsAreWhole
<1>1. IInv => ChainsAreWhole
  BY DEF IInv
<1> QED BY <1>1, Invariance, PTL

\* However many entries were inserted and removed, some slot of the table is
\* empty, so every search of find_slot and grow ends.
THEOREM SearchesEnd == Spec => []AnEmptySlotIsLeft
<1>1. IInv => AnEmptySlotIsLeft
  BY RoomLeavesEmpty DEF IInv
<1> QED BY <1>1, Invariance, PTL

----------------------------------------------------------------------------
(* The table implements the dictionary.                                    *)

\* What is left of the old table, one slot later.
LEMMA EntriesAfter ==
  ASSUME NEW n \in Nat, NEW t \in [Indices(n) -> Slot], NEW c \in Nat, c < n
  PROVE  EntriesIn(t, c, n)
           = EntriesIn(t, c + 1, n) \cup (IF IsEntry(t[c]) THEN {t[c]} ELSE {})
<1>1. c..(n - 1) = {c} \cup (c + 1)..(n - 1)
  OBVIOUS
<1> QED BY <1>1 DEF EntriesIn

\* The steps inside a call do not show.
LEMMA HiddenSteps ==
  ASSUME IInv, Moves \/ ProbePasses
  PROVE  UNCHANGED Dict!vars
<1>1. call' = call /\ ret' = ret
  BY DEF Moves, ProbePasses, MoveEnds, MoveSkips, MoveStarts, PlacePasses, Place
<1>2. /\ oldCap \in Nat /\ cursor \in Nat /\ old \in [Indices(oldCap) -> Slot]
  BY TypeFacts DEF IInv, TypeOK
<1>3. CASE MoveEnds
  <2>1. EntriesIn(old, cursor, oldCap) = {}
    BY <1>2, <1>3 DEF MoveEnds, EntriesIn
  <2>2. Growing /\ ~Growing' /\ Stored' = Stored
    BY <1>3 DEF MoveEnds, Probe, Growing, Stored, EntriesIn, table
  <2> QED BY <1>1, <2>1, <2>2 DEF Entries, Dict!vars
<1>4. CASE MoveSkips
  <2>1. EntriesIn(old, cursor, oldCap) = EntriesIn(old, cursor + 1, oldCap)
    <3>1. cursor < oldCap /\ ~IsEntry(old[cursor])
      BY <1>4 DEF MoveSkips
    <3>2. EntriesIn(old, cursor, oldCap) = EntriesIn(old, cursor + 1, oldCap)
            \cup (IF IsEntry(old[cursor]) THEN {old[cursor]} ELSE {})
      BY <1>2, <3>1, EntriesAfter
    <3> QED BY <3>1, <3>2
  <2>2. Growing /\ Growing' /\ Stored' = Stored
    BY <1>4 DEF MoveSkips, Growing, Stored, EntriesIn, table
  <2>3. EntriesIn(old, cursor, oldCap)' = EntriesIn(old, cursor + 1, oldCap)
    BY <1>4 DEF MoveSkips, EntriesIn
  <2> QED BY <1>1, <2>1, <2>2, <2>3 DEF Entries, Dict!vars
<1>5. CASE Place
  <2>1. cursor < oldCap /\ IsEntry(old[cursor]) /\ old[cursor] \in Entry
    <3>1. cursor < oldCap /\ IsEntry(old[cursor]) /\ cursor \in Indices(oldCap)
      BY <1>2, <1>5 DEF IInv, PlaceOK, Place, Indices
    <3> QED BY <1>2, <3>1, SlotFact
  <2>2. EntriesIn(old, cursor, oldCap)
          = EntriesIn(old, cursor + 1, oldCap) \cup {old[cursor]}
    BY <1>2, <2>1, EntriesAfter
  <2>3. EntriesIn(old, cursor, oldCap)' = EntriesIn(old, cursor + 1, oldCap)
    BY <1>5 DEF Place, EntriesIn
  <2>4. Stored' = Stored \cup {old[cursor]}
    <3>1. /\ slots \in [Indices(cap) -> Slot] /\ cap \in Nat /\ idx \in Indices(cap)
          /\ ~IsEntry(slots[idx]) /\ slots' = [slots EXCEPT ![idx] = old[cursor]]
          /\ cap' = cap
      BY <1>5, TypeFacts DEF IInv, Place, IsEntry
    <3>2. Written(slots, slots', cap, idx, old[cursor])
      BY <2>1, <3>1 DEF Written, Slot
    <3>3. EntriesIn(slots', 0, cap) = EntriesIn(slots, 0, cap) \cup {old[cursor]}
      <4> DEFINE e == old[cursor]
      <4>1. /\ e \in Entry /\ Written(slots, slots', cap, idx, e) /\ cap \in Nat
            /\ slots \in [Indices(cap) -> Slot] /\ idx \in Indices(cap) /\ ~IsEntry(slots[idx])
        BY <2>1, <3>1, <3>2
      <4> HIDE DEF e
      <4>2. EntriesIn(slots', 0, cap) = EntriesIn(slots, 0, cap) \cup {e}
        BY <4>1, PutFree
      <4> QED BY <4>2 DEF e
    <3>4. Stored' = EntriesIn(slots', 0, cap)
      BY <3>1 DEF Stored, EntriesIn
    <3> QED BY <3>3, <3>4 DEF Stored
  <2>5. Growing /\ Growing'
    BY <1>5 DEF Place, Growing
  <2> QED BY <1>1, <2>2, <2>3, <2>4, <2>5 DEF Entries, Dict!vars
<1>6. CASE MoveStarts \/ PlacePasses \/ ProbePasses
  <2>1. UNCHANGED table /\ UNCHANGED growth /\ Growing' = Growing
    BY <1>6 DEF MoveStarts, PlacePasses, ProbePasses, Growing
  <2> QED BY <1>1, <2>1 DEF table, growth, Entries, Stored, EntriesIn, Dict!vars
<1> QED BY <1>3, <1>4, <1>5, <1>6 DEF Moves

LEMMA CallRefines ==
  ASSUME IInv, NEW c \in Calls, Call(c)
  PROVE  Dict!Ask
<1>1. /\ pc = "idle" /\ call = NoCall /\ call' = c /\ ret' = NoAnswer /\ ~Growing
  BY DEF Call, IInv, CallOK, Growing
<1>2. Entries' = Entries
  <2>1. CASE Grow
    <3>1. /\ Growing' /\ \A i \in Indices(cap') : ~IsEntry(slots'[i])
          /\ old' = slots /\ oldCap' = cap /\ cursor' = 0
      BY <2>1 DEF Grow, Growing, IsEntry
    <3>2. Stored' = {}
      BY <3>1 DEF Stored, EntriesIn, Indices
    <3>3. EntriesIn(old, cursor, oldCap)' = Stored
      BY <3>1 DEF Stored, EntriesIn
    <3> QED BY <1>1, <3>1, <3>2, <3>3 DEF Entries
  <2>2. CASE UNCHANGED table /\ pc' = "probe"
    BY <1>1, <2>2 DEF table, Entries, Stored, EntriesIn, Growing
  <2> QED BY <2>1, <2>2 DEF Call, Probe
<1>3. c \in Dict!Calls
  BY DEF Calls, Dict!Calls
<1> QED BY <1>1, <1>2, <1>3 DEF Dict!Ask, Dict!Answer, NoAnswer, Answer

\* What the search found is what the dictionary has under the key.
LEMMA HitShows ==
  ASSUME IInv, Hit
  PROVE  /\ Entries = Stored /\ Dict!Mine = {slots[idx]}
         /\ Dict!Others = {x \in EntriesIn(slots, 0, cap) : x.key # slots[idx].key}
<1>1. Entries = Stored /\ Stored = EntriesIn(slots, 0, cap)
  BY DEF Hit, Entries, Growing, Stored
<1>2. \A x : x \in EntriesIn(slots, 0, cap) /\ x.key = slots[idx].key <=> x = slots[idx]
  BY HitFacts DEF EntriesIn, KeyedApart, Holds, Indices
<1> QED BY <1>1, <1>2, HitFacts DEF Dict!Mine, Dict!Others

LEMMA MissShows ==
  ASSUME IInv, Miss
  PROVE  Entries = Stored /\ Dict!Mine = {} /\ Dict!Others = Stored
<1>1. Entries = Stored
  BY DEF Miss, Entries, Growing
<1>2. \A x \in Stored : x.key # call.key
  BY MissFacts DEF Stored, EntriesIn, Holds, Indices
<1> QED BY <1>1, <1>2 DEF Dict!Mine, Dict!Others

LEMMA EndsRefine ==
  ASSUME IInv, Ends
  PROVE  Dict!Next
<1>1. /\ pc = "probe" /\ ~Growing /\ pc' = "idle" /\ ~Growing' /\ call # NoCall /\ call' = NoCall
      /\ Entries = Stored /\ Entries' = Stored' /\ cap' = cap
  BY DEF Ends, InsertHit, InsertMiss, GetHit, ContainsHit, RemoveHit, LookupMiss, Hit, Miss,
     Return, IInv, CallOK, Growing, Entries
<1>2. Dict!Returns
  BY <1>1 DEF Dict!Returns
<1>3. Stored' = EntriesIn(slots', 0, cap)
  BY <1>1 DEF Stored, EntriesIn
<1>4. CASE InsertHit
  <2>1. /\ Hit /\ call.op = "insert" /\ slots' = [slots EXCEPT ![idx] = Mine]
        /\ ret' = Answer(TRUE, NoValue)
    BY <1>4 DEF InsertHit, Return
  <2>2. Mine \in Entry /\ Mine.key = slots[idx].key
    BY <2>1, HitFacts, CallFact DEF Mine
  <2>3. Written(slots, slots', cap, idx, Mine)
    BY <2>1, <2>2, HitFacts DEF Written, Slot
  <2>4. Entries' = Dict!Others \cup {Mine}
    <3> HIDE DEF Mine
    <3> QED BY <1>1, <1>3, <2>1, <2>2, <2>3, HitFacts, HitShows, PutOver
  <2>5. Dict!Inserted
    BY <1>2, <2>1, <2>4, HitShows DEF Dict!Inserted, Dict!Answer, Answer, Mine
  <2> QED BY <2>5 DEF Dict!Next
<1>5. CASE InsertMiss
  <2>1. /\ Miss /\ call.op = "insert" /\ slots' = [slots EXCEPT ![Free] = Mine]
        /\ ret' = NoAnswer
    BY <1>5 DEF InsertMiss, Return
  <2>2. /\ Mine \in Entry /\ Free \in Indices(cap) /\ ~IsEntry(slots[Free])
        /\ cap \in Nat /\ slots \in [Indices(cap) -> Slot]
    BY <2>1, MissFacts, CallFact, TypeFacts DEF Mine, IInv
  <2>3. Written(slots, slots', cap, Free, Mine)
    BY <2>1, <2>2 DEF Written, Slot
  <2>4. Entries' = Dict!Others \cup {Mine}
    <3>1. EntriesIn(slots', 0, cap) = EntriesIn(slots, 0, cap) \cup {Mine}
      <4> HIDE DEF Mine, Free
      <4> QED BY <2>2, <2>3, PutFree
    <3> QED BY <1>1, <1>3, <2>1, <3>1, MissShows DEF Stored
  <2>5. Dict!Inserted
    BY <1>2, <2>1, <2>4, MissShows DEF Dict!Inserted, Dict!Answer, Answer, NoAnswer, Mine
  <2> QED BY <2>5 DEF Dict!Next
<1>6. CASE GetHit
  <2>1. /\ Hit /\ call.op = "get" /\ ret' = Answer(TRUE, slots[idx].val) /\ Stored' = Stored
    BY <1>1, <1>6 DEF GetHit, Return, Stored, EntriesIn
  <2>2. Dict!Got
    BY <1>1, <1>2, <2>1, HitShows DEF Dict!Got, Dict!Answer, Answer
  <2> QED BY <2>2 DEF Dict!Next
<1>7. CASE ContainsHit
  <2>1. /\ Hit /\ call.op = "contains" /\ ret' = Answer(TRUE, NoValue) /\ Stored' = Stored
    BY <1>1, <1>7 DEF ContainsHit, Return, Stored, EntriesIn
  <2>2. Dict!Contained
    BY <1>1, <1>2, <2>1, HitShows DEF Dict!Contained, Dict!Answer, Answer
  <2> QED BY <2>2 DEF Dict!Next
<1>8. CASE RemoveHit
  <2>1. /\ Hit /\ call.op = "remove" /\ ret' = Answer(TRUE, slots[idx].val)
        /\ slots' = [slots EXCEPT ![idx] = Tombstone]
    BY <1>8 DEF RemoveHit, Return
  <2>2. Written(slots, slots', cap, idx, Tombstone)
    BY <2>1, HitFacts DEF Written, Slot
  <2>3. Entries' = Dict!Others
    <3>1. EntriesIn(slots', 0, cap)
            = {x \in EntriesIn(slots, 0, cap) : x.key # slots[idx].key}
      BY <2>1, <2>2, HitFacts, TakeOut
    <3> QED BY <1>1, <1>3, <2>1, <3>1, HitShows
  <2>4. Dict!Removed
    BY <1>2, <2>1, <2>3, HitShows DEF Dict!Removed, Dict!Answer, Answer
  <2> QED BY <2>4 DEF Dict!Next
<1>9. CASE LookupMiss
  <2>1. /\ Miss /\ call.op \in {"get", "contains", "remove"} /\ ret' = NoAnswer
        /\ Stored' = Stored
    BY <1>1, <1>9, MissFacts, CallFact DEF LookupMiss, Return, Stored, EntriesIn
  <2>2. Dict!Got \/ Dict!Contained \/ Dict!Removed
    BY <1>1, <1>2, <2>1, MissShows
    DEF Dict!Got, Dict!Contained, Dict!Removed, Dict!Answer, Answer, NoAnswer
  <2> QED BY <2>2 DEF Dict!Next
<1> QED BY <1>4, <1>5, <1>6, <1>7, <1>8, <1>9 DEF Ends

\* Every call to the table returns what a dictionary would have returned and
\* leaves what a dictionary would hold.
THEOREM Refinement == Spec => ActsAsDictionary
<1>1. Init => Dict!Init
  <2> SUFFICES ASSUME Init PROVE Dict!Init
    OBVIOUS
  <2>1. \A i \in Indices(cap) : ~IsEntry(slots[i])
    BY DEF Init, IsEntry
  <2>2. Stored = {} /\ ~Growing
    BY <2>1 DEF Init, Stored, EntriesIn, Indices, Growing
  <2> QED BY <2>2 DEF Init, Dict!Init, Entries, NoAnswer, Answer, Dict!Answer
<1>2. IInv /\ [Next]_vars => [Dict!Next]_(Dict!vars)
  <2> SUFFICES ASSUME IInv, [Next]_vars PROVE Dict!Next \/ UNCHANGED Dict!vars
    OBVIOUS
  <2>1. ASSUME NEW c \in Calls, Call(c) PROVE Dict!Next
    BY <2>1, CallRefines DEF Dict!Next
  <2>2. CASE Moves \/ ProbePasses
    BY <2>2, HiddenSteps
  <2>3. CASE Ends
    BY <2>3, EndsRefine
  <2>4. CASE UNCHANGED vars
    BY <2>4 DEF vars, Dict!vars, Entries, Stored, EntriesIn, Growing
  <2> QED BY <2>1, <2>2, <2>3, <2>4 DEF Next
<1> QED BY <1>1, <1>2, Invariance, PTL DEF Spec, ActsAsDictionary, Dict!Spec
=============================================================================
