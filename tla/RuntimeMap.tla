----------------------------- MODULE RuntimeMap -----------------------------
(***************************************************************************)
(* The hash table behind zo's HashMap and HashSet (zo-runtime, map.rs):    *)
(* open addressing with linear probing, tombstones for what was removed,   *)
(* and a table of twice the size when too few slots are left empty.  One   *)
(* step looks at one slot, so a probe that never ends is a behaviour.      *)
(***************************************************************************)
EXTENDS Integers, FiniteSets

CONSTANTS
  Keys,             \* the keys
  Values,           \* the values
  Hash,             \* the hash of each key
  InitialCapacity,  \* INITIAL_CAPACITY, the size of a new table
  MaxCapacity,      \* bound: a table of this size does not grow
  Empty, Tombstone, \* the slots without an entry
  None,             \* no tombstone has been passed
  NoValue,          \* what a call that returns no value returns
  NoCall            \* no call is being served

ASSUME HashAssumption == Hash \in [Keys -> Nat]
\* The code's is 16; a table of three slots can be left without an empty one.
ASSUME CapacityAssumption ==
  /\ InitialCapacity \in Nat /\ InitialCapacity >= 4
  /\ MaxCapacity \in Nat
ASSUME SlotsAssumption ==
  /\ Empty # Tombstone
  /\ {Empty, Tombstone} \cap [key : Keys, val : Values] = {}
ASSUME NoneAssumption == None \notin Nat
ASSUME NoCallAssumption ==
  NoCall \notin [op : {"insert"}, key : Keys, val : Values]
                  \cup [op : {"get", "contains", "remove"}, key : Keys, val : {NoValue}]

VARIABLES
  slots,      \* ZoMap.slots
  cap,        \* slots.len()
  len,        \* ZoMap.len
  tombstones, \* ZoMap.tombstones
  old,        \* grow: the table being emptied into slots
  oldCap,     \* its size
  cursor,     \* grow: the slot of old that is moved next
  pc,         \* what the call does: nothing, "move", "place" or "probe"
  idx,        \* the slot looked at next
  firstTomb,  \* find_slot: the first tombstone passed
  call,       \* the call and its arguments
  ret         \* what the last call returned

table == <<slots, cap, len, tombstones>>
growth == <<old, oldCap, cursor>>
vars == <<slots, cap, len, tombstones, old, oldCap, cursor, pc, idx, firstTomb,
          call, ret>>

Entry == [key : Keys, val : Values]
IsEntry(s) == s \notin {Empty, Tombstone}
Holds(s, k) == IsEntry(s) /\ s.key = k
Indices(n) == 0..(n - 1)

Home(k, n) == Hash[k] % n
After(i, n) == IF i + 1 = n THEN 0 ELSE i + 1      \* (i + 1) & mask
\* How far a probe that starts at h has come when it looks at i.
Distance(h, i, n) == IF i >= h THEN i - h ELSE i - h + n

Calls ==
  [op : {"insert"}, key : Keys, val : Values]
    \cup [op : {"get", "contains", "remove"}, key : Keys, val : {NoValue}]
Answer(hit, val) == [hit |-> hit, val |-> val]
NoAnswer == Answer(FALSE, NoValue)
Nothing == [i \in {} |-> Empty]                     \* no table

Init ==
  /\ cap = InitialCapacity
  /\ slots = [i \in Indices(cap) |-> Empty]
  /\ len = 0 /\ tombstones = 0
  /\ old = Nothing /\ oldCap = 0 /\ cursor = 0
  /\ pc = "idle" /\ idx = 0 /\ firstTomb = None
  /\ call = NoCall /\ ret = NoAnswer

----------------------------------------------------------------------------
(* Entry of a call: the hash, and growth before an insert.                 *)

\* Mutant: tombstones are not counted as used.
ShouldGrow_ForgetsTombstones == len * 4 >= cap * 3
ShouldGrow == (len + tombstones) * 4 >= cap * 3

\* find_slot starts at the home slot of the key.
Probe(k, n) ==
  /\ pc' = "probe"
  /\ idx' = Home(k, n)
  /\ firstTomb' = None

Grow ==
  /\ old' = slots /\ oldCap' = cap /\ cursor' = 0
  /\ cap' = 2 * cap
  /\ slots' = [i \in Indices(2 * cap) |-> Empty]
  /\ len' = 0 /\ tombstones' = 0
  /\ pc' = "move"
  /\ UNCHANGED <<idx, firstTomb>>

Call(c) ==
  /\ pc = "idle"
  /\ call' = c
  /\ \/ /\ c.op = "insert" /\ ShouldGrow
        /\ cap < MaxCapacity
        /\ Grow
     \/ /\ ~(c.op = "insert" /\ ShouldGrow)
        /\ Probe(c.key, cap)
        /\ UNCHANGED <<table, growth>>
  /\ ret' = NoAnswer

----------------------------------------------------------------------------
(* grow: every entry of the old table goes to the first empty slot from    *)
(* its home.                                                               *)

\* Mutant: the last slot of the old table is not moved.
MoveEnds_Early ==
  /\ pc = "move" /\ cursor >= oldCap - 1
  /\ old' = Nothing /\ oldCap' = 0 /\ cursor' = 0
  /\ Probe(call.key, cap)
  /\ UNCHANGED <<table, call, ret>>
MoveEnds ==
  /\ pc = "move" /\ cursor = oldCap
  /\ old' = Nothing /\ oldCap' = 0 /\ cursor' = 0
  /\ Probe(call.key, cap)
  /\ UNCHANGED <<table, call, ret>>

MoveSkips ==
  /\ pc = "move" /\ cursor < oldCap /\ ~IsEntry(old[cursor])
  /\ cursor' = cursor + 1
  /\ UNCHANGED <<table, old, oldCap, pc, idx, firstTomb, call, ret>>

\* Mutant: the home slot is that of the old table.
MoveStarts_OldMask ==
  /\ pc = "move" /\ cursor < oldCap /\ IsEntry(old[cursor])
  /\ pc' = "place"
  /\ idx' = Home(old[cursor].key, oldCap)
  /\ UNCHANGED <<table, growth, firstTomb, call, ret>>
MoveStarts ==
  /\ pc = "move" /\ cursor < oldCap /\ IsEntry(old[cursor])
  /\ pc' = "place"
  /\ idx' = Home(old[cursor].key, cap)
  /\ UNCHANGED <<table, growth, firstTomb, call, ret>>

PlacePasses ==
  /\ pc = "place" /\ slots[idx] # Empty
  /\ idx' = After(idx, cap)
  /\ UNCHANGED <<table, growth, pc, firstTomb, call, ret>>

Place ==
  /\ pc = "place" /\ slots[idx] = Empty
  /\ slots' = [slots EXCEPT ![idx] = old[cursor]]
  /\ len' = len + 1
  /\ cursor' = cursor + 1
  /\ pc' = "move"
  /\ UNCHANGED <<cap, tombstones, old, oldCap, idx, firstTomb, call, ret>>

----------------------------------------------------------------------------
(* find_slot.                                                              *)

\* The slot looked at neither holds the key nor ends the search.
ProbePasses ==
  /\ pc = "probe" /\ slots[idx] # Empty /\ ~Holds(slots[idx], call.key)
  /\ idx' = After(idx, cap)
  /\ firstTomb' = IF slots[idx] = Tombstone /\ firstTomb = None THEN idx ELSE firstTomb
  /\ UNCHANGED <<table, growth, pc, call, ret>>

Hit == pc = "probe" /\ Holds(slots[idx], call.key)
Miss == pc = "probe" /\ slots[idx] = Empty

Return(answer) ==
  /\ pc' = "idle" /\ call' = NoCall
  /\ ret' = answer
  /\ idx' = 0 /\ firstTomb' = None
  /\ UNCHANGED <<cap, growth>>

----------------------------------------------------------------------------
(* The rest of each call, once the slot is known.                          *)

Mine == [key |-> call.key, val |-> call.val]

InsertHit ==
  /\ Hit /\ call.op = "insert"
  /\ slots' = [slots EXCEPT ![idx] = Mine]
  /\ Return(Answer(TRUE, NoValue))
  /\ UNCHANGED <<len, tombstones>>

\* The first free slot of the probe chain.
Free == IF firstTomb = None THEN idx ELSE firstTomb

\* Mutant: a tombstone that is reused is still counted.
InsertMiss_KeepsCount ==
  /\ Miss /\ call.op = "insert"
  /\ slots' = [slots EXCEPT ![Free] = Mine]
  /\ len' = len + 1
  /\ UNCHANGED tombstones
  /\ Return(NoAnswer)
InsertMiss ==
  /\ Miss /\ call.op = "insert"
  /\ slots' = [slots EXCEPT ![Free] = Mine]
  /\ len' = len + 1
  /\ tombstones' = IF slots[Free] = Tombstone THEN tombstones - 1 ELSE tombstones
  /\ Return(NoAnswer)

GetHit ==
  /\ Hit /\ call.op = "get"
  /\ Return(Answer(TRUE, slots[idx].val))
  /\ UNCHANGED <<slots, len, tombstones>>

ContainsHit ==
  /\ Hit /\ call.op = "contains"
  /\ Return(Answer(TRUE, NoValue))
  /\ UNCHANGED <<slots, len, tombstones>>

\* Mutant: the slot of a removed entry becomes empty.
RemoveHit_Empties ==
  /\ Hit /\ call.op = "remove"
  /\ slots' = [slots EXCEPT ![idx] = Empty]
  /\ len' = len - 1 /\ tombstones' = tombstones + 1
  /\ Return(Answer(TRUE, slots[idx].val))
RemoveHit ==
  /\ Hit /\ call.op = "remove"
  /\ slots' = [slots EXCEPT ![idx] = Tombstone]
  /\ len' = len - 1 /\ tombstones' = tombstones + 1
  /\ Return(Answer(TRUE, slots[idx].val))

LookupMiss ==
  /\ Miss /\ call.op # "insert"
  /\ Return(NoAnswer)
  /\ UNCHANGED <<slots, len, tombstones>>

Moves == MoveEnds \/ MoveSkips \/ MoveStarts \/ PlacePasses \/ Place
Ends == InsertHit \/ InsertMiss \/ GetHit \/ ContainsHit \/ RemoveHit \/ LookupMiss

Next == (\E c \in Calls : Call(c)) \/ Moves \/ ProbePasses \/ Ends

Spec == Init /\ [][Next]_vars

----------------------------------------------------------------------------
(* Properties.                                                             *)

Growing == pc \in {"move", "place"}

\* Every variable is in its range.
TypeOK ==
  /\ cap \in Nat /\ cap >= 4
  /\ slots \in [Indices(cap) -> Entry \cup {Empty, Tombstone}]
  /\ len \in Nat /\ tombstones \in Nat
  /\ oldCap \in Nat
  /\ old \in [Indices(oldCap) -> Entry \cup {Empty, Tombstone}]
  /\ cursor \in 0..oldCap
  /\ pc \in {"idle", "move", "place", "probe"}
  /\ idx \in Indices(cap)
  /\ firstTomb \in Indices(cap) \cup {None}
  /\ call \in Calls \cup {NoCall}
  /\ ret \in [hit : BOOLEAN, val : Values \cup {NoValue}]

\* The entries in the slots from i to j - 1 of a table.
EntriesIn(t, i, j) == {t[x] : x \in {x \in i..(j - 1) : IsEntry(t[x])}}
Stored == EntriesIn(slots, 0, cap)
\* What the table stands for, in the middle of a growth too.
Entries == Stored \cup (IF Growing THEN EntriesIn(old, cursor, oldCap) ELSE {})

Used == {i \in Indices(cap) : slots[i] # Empty}
Tombs == {i \in Indices(cap) : slots[i] = Tombstone}

\* zo_map_len answers with `len` and the next growth is decided from `len`
\* and `tombstones`: both must be exact after any sequence of insertions
\* over tombstones, removals and growths (map.rs: insert, remove, grow).
CountsAreExact ==
  /\ len = Cardinality(Stored)
  /\ tombstones = Cardinality(Tombs)

\* No slot on the way from h to i is one of `stops`.
Passed(h, i, stops) ==
  \A j \in Indices(cap) : Distance(h, j, cap) < Distance(h, i, cap) => slots[j] \notin stops

\* A probe for any stored key meets no empty slot before the key's own, so
\* what is stored can be found, and no key is stored twice (map.rs: the
\* tombstone of remove, the rehash of grow, the slot find_slot gives insert).
ChainsAreWhole ==
  \A i \in Indices(cap) : IsEntry(slots[i]) =>
    /\ Passed(Home(slots[i].key, cap), i, {Empty})
    /\ \A j \in Indices(cap) : Holds(slots[j], slots[i].key) => j = i

\* find_slot and the loop of grow have no other exit than an empty slot or
\* the key: some slot is empty, so none of them runs for ever, whatever was
\* removed before.
AnEmptySlotIsLeft == \E i \in Indices(cap) : slots[i] = Empty

\* The table is a dictionary: what each call returns, and what the map holds
\* afterwards, is as if nothing were ever moved, probed or left behind.
Dict == INSTANCE Dictionary WITH entries <- Entries
ActsAsDictionary == Dict!Spec

----------------------------------------------------------------------------
(* The inductive invariant.                                                *)

\* A call is being served unless nothing is done; only an insert grows.
CallOK == /\ pc = "idle" <=> call = NoCall
          /\ Growing => call.op = "insert"

\* The slots a probe has left behind, and the tombstone it keeps.
ProbeStops == {Empty} \cup {e \in Entry : e.key = call.key}
ProbeOK ==
  pc = "probe" =>
    /\ Passed(Home(call.key, cap), idx, ProbeStops)
    /\ firstTomb # None =>
         /\ slots[firstTomb] = Tombstone
         /\ Distance(Home(call.key, cap), firstTomb, cap)
              < Distance(Home(call.key, cap), idx, cap)

\* What is left of the old table is keyed apart from itself and the new one.
GrowthOK ==
  Growing =>
    /\ cap = 2 * oldCap /\ oldCap >= 4
    /\ tombstones = 0 /\ len <= cursor
    /\ \A i \in cursor..(oldCap - 1) : IsEntry(old[i]) =>
         /\ \A j \in cursor..(oldCap - 1) : Holds(old[j], old[i].key) => j = i
         /\ \A j \in Indices(cap) : ~Holds(slots[j], old[i].key)
PlaceOK ==
  pc = "place" =>
    /\ cursor < oldCap /\ IsEntry(old[cursor])
    /\ Passed(Home(old[cursor].key, cap), idx, {Empty})

\* Room is counted, and an insert leaves a slot empty.
RoomOK ==
  /\ IsFiniteSet(Stored)
  /\ Cardinality(Used) = len + tombstones
  /\ len + tombstones < cap
  /\ pc = "probe" /\ call.op = "insert" => len + tombstones + 1 < cap

\* Everything above, which every step preserves.
IInv ==
  /\ TypeOK /\ CallOK /\ ProbeOK /\ GrowthOK /\ PlaceOK
  /\ RoomOK /\ CountsAreExact /\ ChainsAreWhole
=============================================================================
