--------------------------- MODULE ChannelProofs ---------------------------
(***************************************************************************)
(* Proofs about Channel, for any number of threads and any capacity: the   *)
(* conjuncts of IInv are invariants, and with them the properties that no  *)
(* value and no free slot is left while everybody who could use it sleeps. *)
(***************************************************************************)
EXTENDS Channel, ListLemmas, FiniteSetTheorems, SequenceTheorems, TLAPS

----------------------------------------------------------------------------
(* Lists of waiters.                                                       *)

\* The same for pop_front, which may find the list empty.
LEMMA PopFirst ==
  ASSUME NEW S, NEW list \in Seq(S), IsInjective(list)
  PROVE  /\ FirstOf(list) \in Seq(S) /\ RestOf(list) \in Seq(S)
         /\ IsInjective(RestOf(list))
         /\ Range(list) = Range(FirstOf(list)) \cup Range(RestOf(list))
         /\ Range(FirstOf(list)) \cap Range(RestOf(list)) = {}
<1>1. CASE list = <<>>
  BY <1>1 DEF FirstOf, RestOf, Range
<1>2. CASE list # <<>>
  <2>1. Range(<<Head(list)>>) = {Head(list)}
    BY DEF Range
  <2> QED BY <1>2, <2>1, RangeTail DEF FirstOf, RestOf
<1> QED BY <1>1, <1>2

\* Taking a park out of a list without duplicates takes out that park only.
LEMMA RangeWithout ==
  ASSUME NEW S, NEW s \in Seq(S), NEW p, IsInjective(s)
  PROVE  /\ Without(s, p) \in Seq(S)
         /\ Range(Without(s, p)) = Range(s) \ {p}
         /\ IsInjective(Without(s, p))
<1>1. CASE p \notin Range(s)
  BY <1>1 DEF Without
<1>2. CASE p \in Range(s)
  <2> DEFINE i == CHOOSE k \in 1..Len(s) : s[k] = p
             a == SubSeq(s, 1, i - 1)
             b == SubSeq(s, i + 1, Len(s))
  <2>1. i \in 1..Len(s) /\ s[i] = p
    BY <1>2 DEF Range
  <2>2. Len(s) \in Nat /\ DOMAIN s = 1..Len(s) /\ \A k \in 1..Len(s) : s[k] \in S
    BY LenProperties, ElementOfSeq
  <2> HIDE DEF i
  <2>3. /\ a \in Seq(S) /\ Len(a) = i - 1
        /\ \A k \in 1..(i - 1) : a[k] = s[k]
    <3>1. i - 1 \in Int /\ 1 \in Int /\ \A k \in 1..(i - 1) : s[k] \in S
      BY <2>1, <2>2
    <3>2. /\ a \in Seq(S)
          /\ Len(a) = IF 1 <= i - 1 THEN i - 1 - 1 + 1 ELSE 0
          /\ \A k \in 1..(i - 1 - 1 + 1) : a[k] = s[1 + k - 1]
      BY <3>1, SubSeqProperties
    <3> QED BY <3>2, <2>1, <2>2
  <2>4. /\ b \in Seq(S) /\ Len(b) = Len(s) - i
        /\ \A k \in 1..(Len(s) - i) : b[k] = s[i + k]
    <3>1. /\ i + 1 \in Int /\ Len(s) \in Int
          /\ \A k \in i + 1 .. Len(s) : s[k] \in S
      BY <2>1, <2>2
    <3>2. /\ b \in Seq(S)
          /\ Len(b) = IF i + 1 <= Len(s) THEN Len(s) - (i + 1) + 1 ELSE 0
          /\ \A k \in 1..(Len(s) - (i + 1) + 1) : b[k] = s[(i + 1) + k - 1]
      BY <3>1, SubSeqProperties
    <3> QED BY <3>2, <2>1, <2>2
  <2> DEFINE w == a \o b
  <2>5. Without(s, p) = w
    BY <1>2 DEF Without, i
  <2> HIDE DEF a, b
  <2>6. /\ w \in Seq(S) /\ Len(w) = Len(s) - 1 /\ DOMAIN w = 1..(Len(s) - 1)
        /\ \A k \in 1..(Len(s) - 1) : w[k] = IF k < i THEN s[k] ELSE s[k + 1]
    <3>1. w \in Seq(S) /\ Len(w) = Len(a) + Len(b)
      BY <2>3, <2>4, ConcatProperties
    <3>2. ASSUME NEW k \in 1..(Len(s) - 1)
          PROVE  w[k] = IF k < i THEN s[k] ELSE s[k + 1]
      <4>1. CASE k < i
        <5>1. k \in 1..Len(a) /\ k \in 1..(i - 1)
          BY <4>1, <2>1, <2>2, <2>3
        <5>2. w[k] = a[k]
          BY <5>1, <2>3, <2>4, ConcatProperties
        <5> QED BY <5>1, <5>2, <2>3, <4>1
      <4>2. CASE ~(k < i)
        <5>1. /\ k \in Len(a) + 1 .. Len(a) + Len(b)
              /\ k - Len(a) = k - i + 1 /\ k - i + 1 \in 1..(Len(s) - i)
              /\ i + (k - i + 1) = k + 1
          BY <4>2, <2>1, <2>2, <2>3, <2>4
        <5>2. w[k] = b[k - Len(a)]
          BY <5>1, <2>3, <2>4, ConcatProperties
        <5> QED BY <5>1, <5>2, <2>4, <4>2
      <4> QED BY <4>1, <4>2
    <3>3. Len(w) = Len(s) - 1
      BY <3>1, <2>1, <2>2, <2>3, <2>4
    <3> QED BY <3>1, <3>2, <3>3, LenProperties
  <2> HIDE DEF w
  <2>7. \A k, l \in 1..Len(s) : s[k] = s[l] => k = l
    BY <2>2 DEF IsInjective
  <2>8. IsInjective(w)
    <3>1. ASSUME NEW k \in 1..(Len(s) - 1), NEW l \in 1..(Len(s) - 1), w[k] = w[l]
          PROVE  k = l
      <4>1. k \in 1..Len(s) /\ k + 1 \in 1..Len(s) /\ l \in 1..Len(s) /\ l + 1 \in 1..Len(s)
        BY <2>1, <2>2
      <4> QED BY <4>1, <3>1, <2>1, <2>2, <2>6, <2>7
    <3> QED BY <3>1, <2>6 DEF IsInjective
  <2>9. Range(w) = Range(s) \ {p}
    <3>1. ASSUME NEW x \in Range(w) PROVE x \in Range(s) /\ x # p
      <4>1. PICK k \in 1..(Len(s) - 1) : x = w[k]
        BY <2>6 DEF Range
      <4>2. PICK l \in 1..Len(s) : x = s[l] /\ l # i
        BY <4>1, <2>1, <2>2, <2>6
      <4> QED BY <4>2, <2>1, <2>2, <2>7 DEF Range
    <3>2. ASSUME NEW x \in Range(s), x # p PROVE x \in Range(w)
      <4>1. PICK l \in 1..Len(s) : x = s[l] /\ l # i
        BY <3>2, <2>1, <2>2 DEF Range
      <4>2. CASE l < i
        <5>1. l \in 1..(Len(s) - 1) /\ w[l] = x
          BY <4>1, <4>2, <2>1, <2>2, <2>6
        <5> QED BY <5>1, <2>6 DEF Range
      <4>3. CASE l > i
        <5>1. l - 1 \in 1..(Len(s) - 1) /\ ~(l - 1 < i) /\ (l - 1) + 1 = l
          BY <4>1, <4>3, <2>1, <2>2
        <5>2. w[l - 1] = x
          BY <5>1, <4>1, <2>6
        <5> QED BY <5>1, <5>2, <2>6 DEF Range
      <4> QED BY <4>1, <4>2, <4>3, <2>1, <2>2
    <3> QED BY <3>1, <3>2
  <2> QED BY <2>5, <2>6, <2>8, <2>9
<1> QED BY <1>1, <1>2

----------------------------------------------------------------------------
(* Types.                                                                  *)

LEMMA BoundIsPositive == Bound \in Nat /\ Bound >= 1
BY NumbersAssumption DEF Bound

\* What the pieces of the critical sections do to the types of what they set.
LEMMA FirstRestTypes ==
  ASSUME NEW S, NEW list \in Seq(S)
  PROVE  FirstOf(list) \in Seq(S) /\ RestOf(list) \in Seq(S)
<1>1. CASE list = <<>>
  BY <1>1 DEF FirstOf, RestOf
<1>2. CASE list # <<>>
  BY <1>2, RangeTail DEF FirstOf, RestOf
<1> QED BY <1>1, <1>2

LEMMA TypeInit == Init => TypeOK
<1> SUFFICES ASSUME Init PROVE TypeOK
  OBVIOUS
<1>1. <<>> \in Seq(Messages) /\ <<>> \in Seq(Parks) /\ Len(<<>>) <= Bound
  BY BoundIsPositive
<1>2. pc \in [Threads -> Places] /\ sent \in [Threads -> 0..MaxSends]
  BY NumbersAssumption DEF Init, Places
<1>3. park \in [Threads -> Parks \cup {NoPark}] /\ waking \in [Threads -> Seq(Parks)]
  BY <1>1 DEF Init
<1> QED BY <1>1, <1>2, <1>3 DEF Init, TypeOK

LEMMA TypeStep ==
  ASSUME TypeOK, RolesRespected, HoldsWhileWaiting, ListsRegistered,
         NEW t \in Threads, CallStep(t) \/ RunStep(t)
  PROVE  TypeOK'
<1> USE DEF TypeOK
<1>1. CASE CallStep(t)
  <2>1. pc' \in [Threads -> Places]
    BY <1>1 DEF CallStep, Call, CallSend, CallRecv, CallTimed, CallTry, CallClose,
                Places, LockPoints
  <2>2. sent' \in [Threads -> 0..MaxSends]
    <3>1. CASE CallSend(t)
      <4>1. sent[t] \in 0..MaxSends /\ sent[t] < MaxSends
        BY <3>1 DEF CallSend
      <4>2. sent[t] + 1 \in 0..MaxSends
        BY <4>1, NumbersAssumption
      <4> QED BY <3>1, <4>2 DEF CallSend
    <3>2. CASE ~CallSend(t)
      BY <1>1, <3>2 DEF CallStep, CallRecv, CallTimed, CallTry, CallClose
    <3> QED BY <3>1, <3>2
  <2>3. UNCHANGED <<queue, closed, senders, receivers, notified, park, waking,
                    delivered, fault>>
    BY <1>1 DEF CallStep, Call, CallSend, CallRecv, CallTimed, CallTry, CallClose
  <2> QED BY <2>1, <2>2, <2>3
<1>2. CASE SendPush(t)
  <2>1. t \in Senders /\ sent[t] \in 1..MaxSends
    BY <1>2, NumbersAssumption DEF SendPush, Locks, RolesRespected
  <2>2. queue' \in Seq(Messages) /\ Len(queue') <= Bound
    <3>1. <<t, sent[t]>> \in Messages
      BY <2>1 DEF Messages
    <3>2. queue' = Append(queue, <<t, sent[t]>>) /\ Len(queue) < Bound
      BY <1>2 DEF SendPush
    <3> QED BY <3>1, <3>2, BoundIsPositive
  <2>3. waking' \in [Threads -> Seq(Parks)] /\ receivers' \in Seq(Parks)
    BY <1>2, FirstRestTypes DEF SendPush, Unlock
  <2>4. pc' \in [Threads -> Places]
    BY <1>2 DEF SendPush, Unlock, Places
  <2> QED BY <1>2, <2>2, <2>3, <2>4 DEF SendPush
<1>3. CASE SendPark(t)
  BY <1>3 DEF SendPark, ParkAt, Places, Waits
<1>4. CASE SendClosed(t)
  BY <1>4 DEF SendClosed, Places
<1>5. ASSUME NEW at, Pop(t, at) PROVE TypeOK'
  <2>1. /\ Head(queue) \in Messages /\ Tail(queue) \in Seq(Messages)
        /\ Len(Tail(queue)) = Len(queue) - 1
    BY <1>5, RangeTail DEF Pop
  <2>2. /\ queue' \in Seq(Messages) /\ Len(queue') <= Bound
        /\ delivered' \in Seq(Messages)
    BY <1>5, <2>1, BoundIsPositive DEF Pop
  <2>3. waking' \in [Threads -> Seq(Parks)] /\ senders' \in Seq(Parks)
    BY <1>5, FirstRestTypes DEF Pop, Unlock
  <2>4. pc' \in [Threads -> Places]
    BY <1>5 DEF Pop, Unlock, Places
  <2> QED BY <1>5, <2>2, <2>3, <2>4 DEF Pop
<1>6. CASE \/ ZeroFill(t, "recv") \/ ZeroFill(t, "timed") \/ TryEmpty(t)
           \/ TimedLate(t) \/ CloseAgain(t)
  BY <1>6 DEF ZeroFill, TryEmpty, TimedLate, CloseAgain, Return, Places
<1>7. ASSUME NEW at, NEW place \in Waits, RecvParkAt(t, at, place) PROVE TypeOK'
  BY <1>7 DEF RecvParkAt, ParkAt, Places
<1>8. CASE TimedGiveUp(t)
  BY <1>8 DEF TimedGiveUp, Places, LockPoints
<1>10. CASE Close(t)
  BY <1>10, RangeConcat DEF Close, Unlock, Places
<1>11. CASE Wake(t)
  <2>1. waking[t] # <<>> /\ waking[t] \in Seq(Parks)
    BY <1>11 DEF Wake, HoldsWhileWaiting
  <2>2. Head(waking[t]) \in Parks /\ Tail(waking[t]) \in Seq(Parks)
    BY <2>1, RangeTail
  <2> QED BY <1>11, <2>2 DEF Wake, Unlock, Places
<1>12. CASE Resume(t)
  <2>1. Retry(pc[t]) \in LockPoints
    BY <1>12 DEF Resume, Waits, Retry, LockPoints
  <2> QED BY <1>12, <2>1 DEF Resume, Places
<1>13. CASE PoisonedLock(t)
  BY <1>13 DEF PoisonedLock, Places
<1>14. CASE TimedExpired(t)
  BY <1>14, RangeWithout
  DEF TimedExpired, Return, Places, ListsRegistered, Registered
<1> QED
  BY <1>1, <1>2, <1>3, <1>4, <1>5, <1>6, <1>7, <1>8, <1>10, <1>11, <1>12,
     <1>13, <1>14
  DEF RunStep, RecvPop, TryPop, TimedPop, RecvClosed, TimedClosed, RecvPark,
      TimedPark, Waits

----------------------------------------------------------------------------
(* Roles, parks and faults.                                                *)

LEMMA RolesStep ==
  ASSUME IInv, NEW t \in Threads, CallStep(t) \/ RunStep(t)
  PROVE  RolesRespected'
<1> USE DEF IInv, TypeOK, RolesRespected
<1>1. CASE CallStep(t)
  BY <1>1, NumbersAssumption
  DEF CallStep, Call, CallSend, CallRecv, CallTimed, CallTry, CallClose
<1>2. CASE RunStep(t)
  <2>1. sent' = sent /\ \A u \in Threads \ {t} : pc'[u] = pc[u]
    BY <1>2
    DEF RunStep, SendPush, SendPark, SendClosed, RecvPop, TryPop, TimedPop, Pop,
        RecvClosed, TimedClosed, ZeroFill, RecvPark, TimedPark, RecvParkAt,
        ParkAt, TryEmpty, TimedLate, TimedGiveUp, TimedExpired, Close,
        CloseAgain, Wake, Resume, PoisonedLock, Unlock, Return
  <2>2. \/ pc'[t] \in {"idle", "waking", "panicked", "recv", "recvParked"}
        \/ pc'[t] = "sendParked" /\ pc[t] = "send"
        \/ pc'[t] = "timedParked" /\ pc[t] = "timed"
        \/ pc'[t] = "timedExpired" /\ pc[t] = "timedParked"
        \/ pc'[t] = Retry(pc[t]) /\ pc[t] \in Waits
    BY <1>2
    DEF RunStep, SendPush, SendPark, SendClosed, RecvPop, TryPop, TimedPop, Pop,
        RecvClosed, TimedClosed, ZeroFill, RecvPark, TimedPark, RecvParkAt,
        ParkAt, TryEmpty, TimedLate, TimedGiveUp, TimedExpired, Close,
        CloseAgain, Wake, Resume, PoisonedLock, Unlock, Return, Locks
  <2> QED BY <2>1, <2>2 DEF Waits, Retry
<1> QED BY <1>1, <1>2

LEMMA HoldsStep ==
  ASSUME IInv, NEW t \in Threads, CallStep(t) \/ RunStep(t)
  PROVE  HoldsWhileWaiting'
<1> USE DEF IInv, TypeOK, HoldsWhileWaiting, Waits
<1>1. CASE CallStep(t)
  BY SMTT(30), <1>1
  DEF CallStep, Call, CallSend, CallRecv, CallTimed, CallTry, CallClose
<1>2. ASSUME NEW ws, Unlock(t, ws), pc[t] \in {"send", "close", "waking"},
             UNCHANGED park
      PROVE  HoldsWhileWaiting'
  <2>1. /\ waking'[t] = ws /\ pc'[t] = IF ws = <<>> THEN "idle" ELSE "waking"
        /\ \A u \in Threads \ {t} : waking'[u] = waking[u] /\ pc'[u] = pc[u]
    BY <1>2 DEF Unlock
  <2>2. park[t] = NoPark
    BY <1>2
  <2> QED BY <2>1, <2>2, <1>2
<1>3. ASSUME NEW at \in {"recv", "try", "timed"}, Pop(t, at)
      PROVE  HoldsWhileWaiting'
  BY <1>3 DEF Pop, Unlock, Locks
<1>4. CASE SendPark(t)
  BY <1>4, ParksAssumption DEF SendPark, ParkAt, Parks, Locks
<1>5. ASSUME NEW at \in {"recv", "timed"}, NEW place \in Waits,
             RecvParkAt(t, at, place)
      PROVE  HoldsWhileWaiting'
  BY <1>5, ParksAssumption DEF RecvParkAt, ParkAt, Parks, Locks
<1>6. CASE \/ ZeroFill(t, "recv") \/ ZeroFill(t, "timed") \/ TryEmpty(t)
           \/ TimedLate(t) \/ CloseAgain(t) \/ TimedExpired(t)
  BY <1>6
  DEF ZeroFill, TryEmpty, TimedLate, CloseAgain, TimedExpired, Return, Locks
<1>7. CASE SendClosed(t) \/ TimedGiveUp(t)
  BY <1>7 DEF SendClosed, TimedGiveUp, Locks
<1>8. CASE Resume(t)
  BY <1>8 DEF Resume, Retry
<1>9. CASE PoisonedLock(t)
  BY <1>9 DEF PoisonedLock, LockPoints
<1> QED
  BY <1>1, <1>2, <1>3, <1>4, <1>5, <1>6, <1>7, <1>8, <1>9
  DEF RunStep, RecvPop, TryPop, TimedPop, RecvClosed, TimedClosed, RecvPark,
      TimedPark, SendPush, Close, Wake, Locks

LEMMA FaultStep ==
  ASSUME IInv, NEW t \in Threads, CallStep(t) \/ RunStep(t)
  PROVE  FaultMeansClosed' /\ CloseReleasesAll'
<1> USE DEF IInv, FaultMeansClosed, CloseReleasesAll
<1>1. CASE CallStep(t)
  BY <1>1
  DEF CallStep, Call, CallSend, CallRecv, CallTimed, CallTry, CallClose
<1>2. CASE RunStep(t)
  BY SMTT(30), <1>2
  DEF RunStep, SendPush, SendPark, SendClosed, RecvPop, TryPop, TimedPop, Pop,
      RecvClosed, TimedClosed, ZeroFill, RecvPark, TimedPark, RecvParkAt,
      TryEmpty, TimedLate, TimedGiveUp, TimedExpired, Close, CloseAgain, Wake,
      Resume, PoisonedLock, RestOf, Without, Range
<1> QED BY <1>1, <1>2

----------------------------------------------------------------------------
(* The wait lists.                                                         *)

LEMMA ListsStep ==
  ASSUME IInv, NEW t \in Threads, CallStep(t) \/ RunStep(t)
  PROVE  ListsRegistered'
<1> USE DEF IInv, TypeOK, ListsRegistered, Registered
<1>0. \A p \in Parks : p[1] \in Threads
  BY DEF Parks
<1>a. Range(senders) \subseteq Parks /\ Range(receivers) \subseteq Parks
  BY RangeOfSeq
<1>b. ASSUME pc[t] \in {"idle", "send", "recv", "timed", "try", "close"}
      PROVE  \A p \in Range(senders) \cup Range(receivers) : p[1] # t
  BY <1>b
<1>1. CASE CallStep(t)
  <2>1. /\ pc[t] = "idle" /\ \A u \in Threads \ {t} : pc'[u] = pc[u]
        /\ UNCHANGED <<senders, receivers, notified, park, waking>>
    BY <1>1
    DEF CallStep, Call, CallSend, CallRecv, CallTimed, CallTry, CallClose
  <2> QED BY <1>0, <1>a, <1>b, <2>1
<1>2. CASE SendPush(t)
  <2> DEFINE ws == FirstOf(receivers)
  <2>1. /\ \A u \in Threads \ {t} : pc'[u] = pc[u] /\ waking'[u] = waking[u]
        /\ waking'[t] = ws /\ receivers' = RestOf(receivers)
        /\ UNCHANGED <<senders, notified, park>>
    BY <1>2 DEF SendPush, Unlock
  <2>2. \A p \in Range(senders) \cup Range(receivers) : p[1] # t
    BY <1>2, <1>b DEF SendPush, Locks
  <2>3. /\ IsInjective(RestOf(receivers))
        /\ Range(RestOf(receivers)) \subseteq Range(receivers)
        /\ Range(ws) \subseteq Range(receivers)
        /\ Range(ws) \cap Range(RestOf(receivers)) = {}
    BY PopFirst
  <2>4. Range(ws) \cap Range(senders) = {}
    BY <2>3
  <2> HIDE DEF ws
  <2>5. ASSUME NEW p \in Range(senders) \cup Range(receivers), p \notin Range(ws)
        PROVE  /\ pc'[p[1]] = pc[p[1]] /\ park'[p[1]] = park[p[1]]
               /\ p \notin notified'
               /\ \A u \in Threads : p \notin Range(waking'[u])
    BY <1>0, <1>a, <2>1, <2>2, <2>5
  <2>6. Registered(senders, {"sendParked"})'
    BY <2>1, <2>3, <2>4, <2>5
  <2>7. Registered(receivers, {"recvParked", "timedParked", "timedExpired"})'
    BY <2>1, <2>3, <2>4, <2>5
  <2> QED BY <2>6, <2>7
<1>3. ASSUME NEW at \in {"recv", "try", "timed"}, Pop(t, at)
      PROVE  ListsRegistered'
  <2> DEFINE ws == FirstOf(senders)
  <2>1. /\ \A u \in Threads \ {t} : pc'[u] = pc[u] /\ waking'[u] = waking[u]
        /\ waking'[t] = ws /\ senders' = RestOf(senders)
        /\ UNCHANGED <<receivers, notified, park>>
    BY <1>3 DEF Pop, Unlock
  <2>2. \A p \in Range(senders) \cup Range(receivers) : p[1] # t
    BY <1>3, <1>b DEF Pop, Locks
  <2>3. /\ IsInjective(RestOf(senders))
        /\ Range(RestOf(senders)) \subseteq Range(senders)
        /\ Range(ws) \subseteq Range(senders)
        /\ Range(ws) \cap Range(RestOf(senders)) = {}
    BY PopFirst
  <2>4. Range(ws) \cap Range(receivers) = {}
    BY <2>3
  <2> HIDE DEF ws
  <2>5. ASSUME NEW p \in Range(senders) \cup Range(receivers), p \notin Range(ws)
        PROVE  /\ pc'[p[1]] = pc[p[1]] /\ park'[p[1]] = park[p[1]]
               /\ p \notin notified'
               /\ \A u \in Threads : p \notin Range(waking'[u])
    BY <1>0, <1>a, <2>1, <2>2, <2>5
  <2>6. Registered(senders, {"sendParked"})'
    BY <2>1, <2>3, <2>4, <2>5
  <2>7. Registered(receivers, {"recvParked", "timedParked", "timedExpired"})'
    BY <2>1, <2>3, <2>4, <2>5
  <2> QED BY <2>6, <2>7
<1>4. CASE SendPark(t)
  BY <1>0, <1>a, <1>4, RangeAppend DEF SendPark, ParkAt, FreeParks, Locks
<1>5. ASSUME NEW at \in {"recv", "timed"}, NEW place,
             RecvParkAt(t, at, place),
             \/ at = "recv" /\ place = "recvParked"
             \/ at = "timed" /\ place = "timedParked"
      PROVE  ListsRegistered'
  BY <1>0, <1>a, <1>5, RangeAppend DEF RecvParkAt, ParkAt, FreeParks, Locks
<1>6. CASE \/ ZeroFill(t, "recv") \/ ZeroFill(t, "timed") \/ TryEmpty(t)
           \/ TimedLate(t) \/ CloseAgain(t)
  <2>1. /\ pc[t] \in {"recv", "timed", "try", "close"}
        /\ \A u \in Threads \ {t} : pc'[u] = pc[u]
        /\ UNCHANGED <<senders, receivers, notified, park, waking>>
    BY <1>6 DEF ZeroFill, TryEmpty, TimedLate, CloseAgain, Return, Locks
  <2> QED BY <1>0, <1>a, <1>b, <2>1
<1>7. CASE SendClosed(t)
  <2>1. /\ pc[t] = "send" /\ \A u \in Threads \ {t} : pc'[u] = pc[u]
        /\ UNCHANGED <<senders, receivers, notified, park, waking>>
    BY <1>7 DEF SendClosed, Locks
  <2> QED BY <1>0, <1>a, <1>b, <2>1
<1>13. CASE TimedGiveUp(t)
  <2>1. /\ pc[t] = "timedParked" /\ pc'[t] = "timedExpired"
        /\ \A u \in Threads \ {t} : pc'[u] = pc[u]
        /\ UNCHANGED <<senders, receivers, notified, park, waking>>
    BY <1>13 DEF TimedGiveUp
  <2> QED BY <1>0, <1>a, <2>1
<1>8. CASE Resume(t)
  BY <1>0, <1>a, <1>8 DEF Resume
<1>9. CASE PoisonedLock(t)
  BY <1>0, <1>a, <1>9
  DEF PoisonedLock, LockPoints, FaultMeansClosed, CloseReleasesAll, Range
<1>10. CASE TimedExpired(t)
  BY <1>0, <1>a, <1>10, RangeWithout DEF TimedExpired, Return, Locks
<1>11. CASE Close(t)
  BY <1>11 DEF Close, Range, IsInjective
<1>12. CASE Wake(t)
  BY <1>0, <1>a, <1>12, RangeTail DEF Wake, Unlock, HoldsWhileWaiting
<1> QED
  BY <1>1, <1>2, <1>3, <1>4, <1>5, <1>6, <1>7, <1>8, <1>9, <1>10, <1>11, <1>12,
     <1>13
  DEF RunStep, RecvPop, TryPop, TimedPop, RecvClosed, TimedClosed, RecvPark,
      TimedPark

----------------------------------------------------------------------------
(* A waiter taken off its list is never forgotten.                         *)

LEMMA PoppedStep ==
  ASSUME IInv, NEW t \in Threads, CallStep(t) \/ RunStep(t)
  PROVE  PoppedIsWoken'
<1> USE DEF IInv, TypeOK, Waits
<1> DEFINE Lists == Range(senders) \cup Range(receivers)
           Known(u) == \/ park[u] \in Lists
                       \/ park[u] \in notified
                       \/ \E w \in Threads : park[u] \in Range(waking[w])
<1> SUFFICES ASSUME NEW u \in Threads, pc'[u] \in Waits
             PROVE  Known(u)'
  BY DEF PoppedIsWoken
<1>a. pc[u] \in Waits => Known(u)
  BY DEF PoppedIsWoken
<1>b. /\ pc[u] \in Waits => park[u] # NoPark /\ park[u] \in Parks /\ park[u][1] = u
      /\ waking[t] # <<>> => pc[t] = "waking"
  BY DEF HoldsWhileWaiting
<1>c. \A w \in Threads : Range(waking[w]) \subseteq Parks
  BY RangeOfSeq
<1>1. CASE CallStep(t)
  BY <1>1, <1>a
  DEF CallStep, Call, CallSend, CallRecv, CallTimed, CallTry, CallClose
<1>2. ASSUME NEW ws, pc[t] \notin Waits, waking[t] = <<>>, Unlock(t, ws),
             UNCHANGED <<park, notified>>,
             Lists \subseteq Range(ws) \cup Lists'
      PROVE  Known(u)'
  <2>1. u # t /\ pc'[u] = pc[u] /\ Range(waking'[t]) = Range(ws)
    BY <1>2 DEF Unlock
  <2>2. \A w \in Threads : park[u] \in Range(waking[w]) => park[u] \in Range(waking'[w])
    BY <1>2 DEF Unlock, Range
  <2> HIDE DEF Lists
  <2> QED BY <2>1, <2>2, <1>2, <1>a
<1>3. CASE SendPush(t)
  <2>1. Range(receivers) = Range(FirstOf(receivers)) \cup Range(RestOf(receivers))
    BY PopFirst DEF ListsRegistered, Registered
  <2>2. pc[t] = "send" /\ waking[t] = <<>> /\ Unlock(t, FirstOf(receivers))
        /\ receivers' = RestOf(receivers) /\ UNCHANGED <<senders, park, notified>>
    BY <1>3, <1>b DEF SendPush, Locks
  <2> QED BY <2>1, <2>2, <1>2
<1>4. ASSUME NEW at \in {"recv", "try", "timed"}, Pop(t, at)
      PROVE  Known(u)'
  <2>1. Range(senders) = Range(FirstOf(senders)) \cup Range(RestOf(senders))
    BY PopFirst DEF ListsRegistered, Registered
  <2>2. pc[t] \notin Waits /\ waking[t] = <<>> /\ Unlock(t, FirstOf(senders))
        /\ senders' = RestOf(senders) /\ UNCHANGED <<receivers, park, notified>>
    BY <1>4, <1>b DEF Pop, Locks
  <2> QED BY <2>1, <2>2, <1>2
<1>5. CASE Close(t)
  <2>1. Range(senders \o receivers) = Lists
    BY RangeConcat
  <2>2. pc[t] = "close" /\ waking[t] = <<>> /\ Unlock(t, senders \o receivers)
        /\ UNCHANGED <<park, notified>>
    BY <1>5, <1>b DEF Close, Locks
  <2> QED BY <2>1, <2>2, <1>2
<1>6. CASE Wake(t)
  <2>1. waking[t] \in Seq(Parks) /\ waking[t] # <<>> /\ pc[t] = "waking"
    BY <1>6 DEF Wake, HoldsWhileWaiting
  <2>2. Range(waking[t]) = Range(Tail(waking[t])) \cup {Head(waking[t])}
    BY <2>1, RangeTail
  <2>3. /\ u # t /\ pc'[u] = pc[u]
        /\ waking'[t] = Tail(waking[t])
        /\ \A w \in Threads \ {t} : waking'[w] = waking[w]
        /\ notified' = notified \cup {Head(waking[t])}
        /\ UNCHANGED <<park, senders, receivers>>
    BY <1>6, <2>1 DEF Wake, Unlock
  <2> QED BY <2>2, <2>3, <1>a
<1>7. ASSUME NEW p \in Parks, NEW place, ParkAt(t, p, place), pc[t] \notin Waits,
             Lists' = Lists \cup {p}, UNCHANGED waking
      PROVE  Known(u)'
  <2>1. CASE u = t
    BY <2>1, <1>7 DEF ParkAt
  <2>2. CASE u # t
    <3>1. pc'[u] = pc[u] /\ park'[u] = park[u] /\ park[u] # p
      BY <2>2, <1>7 DEF ParkAt, FreeParks
    <3>2. notified' = notified \ {p}
      BY <1>7 DEF ParkAt
    <3> HIDE DEF Lists
    <3> QED BY <3>1, <3>2, <1>7, <1>a
  <2> QED BY <2>1, <2>2
<1>8. CASE SendPark(t)
  <2>1. PICK p \in Parks : ParkAt(t, p, "sendParked") /\ senders' = Append(senders, p)
    BY <1>8 DEF SendPark
  <2>2. Range(senders') = Range(senders) \cup {p}
    BY <2>1, RangeAppend
  <2>3. pc[t] \notin Waits /\ UNCHANGED <<receivers, waking>>
    BY <1>8 DEF SendPark, Locks
  <2> QED BY <2>1, <2>2, <2>3, <1>7
<1>9. ASSUME NEW at \in {"recv", "timed"}, NEW place, RecvParkAt(t, at, place)
      PROVE  Known(u)'
  <2>1. PICK p \in Parks : ParkAt(t, p, place) /\ receivers' = Append(receivers, p)
    BY <1>9 DEF RecvParkAt
  <2>2. Range(receivers') = Range(receivers) \cup {p}
    BY <2>1, RangeAppend
  <2>3. pc[t] \notin Waits /\ UNCHANGED <<senders, waking>>
    BY <1>9 DEF RecvParkAt, Locks
  <2> QED BY <2>1, <2>2, <2>3, <1>7
<1>10. CASE \/ ZeroFill(t, "recv") \/ ZeroFill(t, "timed") \/ TryEmpty(t)
            \/ TimedLate(t) \/ CloseAgain(t) \/ SendClosed(t) \/ TimedGiveUp(t)
  <2>1. /\ u # t /\ pc'[u] = pc[u]
        /\ UNCHANGED <<senders, receivers, notified, park, waking>>
    BY <1>10
    DEF ZeroFill, TryEmpty, TimedLate, CloseAgain, SendClosed, TimedGiveUp,
        Return
  <2> QED BY <2>1, <1>a
<1>11. ASSUME u # t, pc'[u] = pc[u], notified' = notified \ {park[t]},
              park' = [park EXCEPT ![t] = NoPark], UNCHANGED waking,
              Lists \ {park[t]} \subseteq Lists'
       PROVE  Known(u)'
  <2>1. park[u] # park[t] /\ park'[u] = park[u]
    BY <1>11, <1>b DEF HoldsWhileWaiting
  <2> HIDE DEF Lists
  <2> QED BY <2>1, <1>11, <1>a
<1>12. CASE Resume(t)
  <2>1. pc'[t] \notin Waits
    BY <1>12 DEF Resume, Retry
  <2> QED BY <1>11, <1>12, <2>1 DEF Resume
<1>13. CASE PoisonedLock(t)
  <2>1. pc'[t] \notin Waits
    BY <1>13 DEF PoisonedLock
  <2> QED BY <1>11, <1>13, <2>1 DEF PoisonedLock
<1>14. CASE TimedExpired(t)
  <2>1. pc'[t] \notin Waits
    BY <1>14 DEF TimedExpired, Return
  <2>2. Range(receivers') = Range(receivers) \ {park[t]}
    BY <1>14, RangeWithout DEF TimedExpired, ListsRegistered, Registered
  <2> QED BY <1>11, <1>14, <2>1, <2>2 DEF TimedExpired, Return
<1> QED
  BY <1>1, <1>3, <1>4, <1>5, <1>6, <1>8, <1>9, <1>10, <1>12, <1>13, <1>14
  DEF RunStep, RecvPop, TryPop, TimedPop, RecvClosed, TimedClosed, RecvPark,
      TimedPark

----------------------------------------------------------------------------
(* Enough threads are on their way.                                        *)

LEMMA InFlightFinite ==
  /\ IsFiniteSet(RecvsInFlight) /\ IsFiniteSet(RecvsInFlight')
  /\ IsFiniteSet(SendsInFlight) /\ IsFiniteSet(SendsInFlight')
<1>1. \A S \in SUBSET Threads : IsFiniteSet(S)
  BY RolesAssumption, FS_Subset
<1> QED BY <1>1 DEF RecvsInFlight, SendsInFlight

LEMMA ValuesStep ==
  ASSUME IInv, TimedReceivers = {},
         NEW t \in Threads, CallStep(t) \/ RunStep(t)
  PROVE  ValuesHaveTakers'
<1> USE DEF IInv, TypeOK, ValuesHaveTakers
<1> DEFINE R == RecvsInFlight
<1> SUFFICES ASSUME receivers' # <<>>
             PROVE  Len(queue') <= Cardinality(R')
  OBVIOUS
<1>a. IsFiniteSet(R) /\ IsFiniteSet(R') /\ Cardinality(R) \in Nat
      /\ Cardinality(R') \in Nat /\ Len(queue) \in Nat
  BY InFlightFinite, FS_CardinalityType
<1>b. pc[t] \notin {"timed", "timedParked", "timedExpired"}
  BY DEF RolesRespected
<1>c. \A p \in Range(receivers) : p[1] \in Threads /\ pc[p[1]] = "recvParked" /\ park[p[1]] = p
  <2>1. Range(receivers) \subseteq Parks
    BY RangeOfSeq
  <2> QED BY <2>1 DEF Parks, ListsRegistered, Registered, RolesRespected
\* Nobody leaves, and the queue and the list do not change.
<1>1. ASSUME R \subseteq R', UNCHANGED <<queue, receivers>>
      PROVE  Len(queue') <= Cardinality(R')
  BY <1>1, <1>a, CardinalitySteps
<1>2. CASE CallStep(t)
  BY <1>1, <1>2
  DEF CallStep, Call, CallSend, CallRecv, CallTimed, CallTry, CallClose,
      RecvsInFlight
<1>3. CASE SendPush(t)
  <2>1. receivers # <<>>
    BY <1>3 DEF SendPush, RestOf
  <2> DEFINE h == Head(receivers)
  <2>2. /\ h \in Range(receivers) /\ h \notin Range(Tail(receivers))
        /\ Range(Tail(receivers)) \subseteq Range(receivers)
    BY <2>1, RangeTail DEF ListsRegistered, Registered
  <2>3. receivers' = Tail(receivers) /\ park' = park /\ pc[t] = "send"
        /\ \A u \in Threads \ {t} : pc'[u] = pc[u]
    BY <1>3, <2>1 DEF SendPush, RestOf, Unlock, Locks
  <2> HIDE DEF h
  <2>4. h[1] \notin R /\ R \cup {h[1]} \subseteq R'
    BY <2>2, <2>3, <1>c DEF RecvsInFlight
  <2>5. Cardinality(R) + 1 <= Cardinality(R')
    BY <2>4, <1>a, CardinalitySteps
  <2>6. Len(queue') = Len(queue) + 1
    BY <1>3 DEF SendPush
  <2> QED BY <2>1, <2>5, <2>6, <1>a
<1>4. CASE RecvPop(t) \/ TryPop(t)
  <2>1. R \ {t} \subseteq R' /\ receivers' = receivers
    BY <1>4 DEF RecvPop, TryPop, Pop, Unlock, RecvsInFlight
  <2>2. Cardinality(R) - 1 <= Cardinality(R')
    BY <2>1, <1>a, CardinalitySteps
  <2>3. Len(queue') = Len(queue) - 1
    BY <1>4, RangeTail DEF RecvPop, TryPop, Pop
  <2> QED BY <2>1, <2>2, <2>3, <1>a
<1>5. CASE RecvPark(t)
  BY <1>5, <1>a DEF RecvPark, RecvParkAt
<1>6. CASE SendPark(t) \/ Wake(t) \/ TryEmpty(t)
  BY <1>1, <1>6
  DEF SendPark, ParkAt, Wake, TryEmpty, Locks, Unlock, Return, RecvsInFlight
<1>7. CASE Resume(t)
  <2>1. R \subseteq R'
    BY <1>7, <1>b DEF Resume, Retry, Waits, RecvsInFlight
  <2> QED BY <1>1, <1>7, <2>1 DEF Resume
<1>8. CASE \/ SendClosed(t) \/ RecvClosed(t) \/ Close(t) \/ CloseAgain(t)
           \/ PoisonedLock(t)
  BY <1>8
  DEF SendClosed, RecvClosed, ZeroFill, Close, CloseAgain, PoisonedLock,
      CloseReleasesAll, FaultMeansClosed
<1>9. CASE \/ TimedPop(t) \/ TimedClosed(t) \/ TimedPark(t) \/ TimedLate(t)
           \/ TimedGiveUp(t) \/ TimedExpired(t)
  BY <1>9, <1>b
  DEF TimedPop, Pop, TimedClosed, ZeroFill, TimedPark, RecvParkAt, TimedLate,
      TimedGiveUp, TimedExpired, Locks
<1> QED BY <1>2, <1>3, <1>4, <1>5, <1>6, <1>7, <1>8, <1>9 DEF RunStep

LEMMA SlotsStep ==
  ASSUME IInv, NEW t \in Threads, CallStep(t) \/ RunStep(t)
  PROVE  SlotsHaveFillers'
<1> USE DEF IInv, TypeOK, SlotsHaveFillers
<1> DEFINE R == SendsInFlight
<1> SUFFICES ASSUME senders' # <<>>
             PROVE  Bound - Len(queue') <= Cardinality(R')
  OBVIOUS
<1>a. /\ IsFiniteSet(R) /\ IsFiniteSet(R') /\ Cardinality(R) \in Nat
      /\ Cardinality(R') \in Nat /\ Len(queue) \in Nat /\ Bound \in Nat
  BY InFlightFinite, FS_CardinalityType, BoundIsPositive
<1>c. \A p \in Range(senders) : p[1] \in Threads /\ pc[p[1]] = "sendParked" /\ park[p[1]] = p
  <2>1. Range(senders) \subseteq Parks
    BY RangeOfSeq
  <2> QED BY <2>1 DEF Parks, ListsRegistered, Registered
\* Nobody leaves, and the queue and the list do not change.
<1>1. ASSUME R \subseteq R', UNCHANGED <<queue, senders>>
      PROVE  Bound - Len(queue') <= Cardinality(R')
  <2>1. Bound - Len(queue) <= Cardinality(R)
    BY <1>1
  <2>2. Cardinality(R) <= Cardinality(R')
    BY <1>1, <1>a, CardinalitySteps
  <2> HIDE DEF R
  <2> QED BY <2>1, <2>2, <1>1, <1>a
<1>2. CASE CallStep(t)
  BY <1>1, <1>2
  DEF CallStep, Call, CallSend, CallRecv, CallTimed, CallTry, CallClose,
      SendsInFlight
<1>3. ASSUME NEW at \in {"recv", "try", "timed"}, Pop(t, at)
      PROVE  Bound - Len(queue') <= Cardinality(R')
  <2>1. senders # <<>>
    BY <1>3 DEF Pop, RestOf
  <2> DEFINE h == Head(senders)
  <2>2. /\ h \in Range(senders) /\ h \notin Range(Tail(senders))
        /\ Range(Tail(senders)) \subseteq Range(senders)
    BY <2>1, RangeTail DEF ListsRegistered, Registered
  <2>3. senders' = Tail(senders) /\ park' = park /\ pc[t] = at
        /\ \A u \in Threads \ {t} : pc'[u] = pc[u]
    BY <1>3, <2>1 DEF Pop, RestOf, Unlock, Locks
  <2> HIDE DEF h
  <2>4. h[1] \notin R /\ R \cup {h[1]} \subseteq R'
    BY <2>2, <2>3, <1>c DEF SendsInFlight
  <2>5. Cardinality(R) + 1 <= Cardinality(R')
    BY <2>4, <1>a, CardinalitySteps
  <2>6. Len(queue') = Len(queue) - 1
    BY <1>3, RangeTail DEF Pop
  <2> QED BY <2>1, <2>5, <2>6, <1>a
<1>4. CASE SendPush(t)
  <2>1. R \ {t} \subseteq R' /\ senders' = senders
    BY <1>4 DEF SendPush, Unlock, SendsInFlight
  <2>2. Cardinality(R) - 1 <= Cardinality(R')
    BY <2>1, <1>a, CardinalitySteps
  <2>3. Len(queue') = Len(queue) + 1
    BY <1>4 DEF SendPush
  <2> QED BY <2>1, <2>2, <2>3, <1>a
<1>5. CASE SendPark(t)
  BY <1>5, <1>a DEF SendPark
<1>6. ASSUME NEW at \in {"recv", "timed"}, NEW place, RecvParkAt(t, at, place)
      PROVE  Bound - Len(queue') <= Cardinality(R')
  BY <1>1, <1>6 DEF RecvParkAt, ParkAt, Locks, SendsInFlight
<1>7. CASE \/ Wake(t) \/ TryEmpty(t) \/ TimedLate(t) \/ TimedGiveUp(t)
           \/ TimedExpired(t)
  BY <1>1, <1>7
  DEF Wake, TryEmpty, TimedLate, TimedGiveUp, TimedExpired, Locks, Unlock,
      Return, SendsInFlight
<1>8. CASE Resume(t)
  <2>1. R \subseteq R'
    BY <1>8 DEF Resume, Retry, Waits, SendsInFlight
  <2> QED BY <1>1, <1>8, <2>1 DEF Resume
<1>9. CASE \/ SendClosed(t) \/ RecvClosed(t) \/ TimedClosed(t) \/ Close(t)
           \/ CloseAgain(t) \/ PoisonedLock(t)
  BY <1>9
  DEF SendClosed, RecvClosed, TimedClosed, ZeroFill, Close, CloseAgain,
      PoisonedLock, CloseReleasesAll, FaultMeansClosed
<1> QED
  BY <1>2, <1>3, <1>4, <1>5, <1>6, <1>7, <1>8, <1>9
  DEF RunStep, RecvPop, TryPop, TimedPop, RecvPark, TimedPark

----------------------------------------------------------------------------
(* The order of the values: it needs the types and the roles only.          *)

\* What one sender has in the channel, as numbered by PerSenderFifo.
Mine(all, t) == {i \in DOMAIN all : all[i][1] = t}
Numbers(all, t) == {all[i][2] : i \in Mine(all, t)}
Increasing(all, t) == \A i, j \in Mine(all, t) : i < j => all[i][2] < all[j][2]
Accounted(numbers, place, n) ==
  CASE place \in {"send", "sendParked"} -> numbers = 1..n - 1
    [] place = "panicked" -> numbers \in {1..n - 1, 1..n}
    [] OTHER -> numbers = 1..n

LEMMA FifoParts ==
  PerSenderFifo <=>
    \A t \in Senders : /\ Increasing(delivered \o queue, t)
                       /\ Accounted(Numbers(delivered \o queue, t), pc[t], sent[t])
BY DEF PerSenderFifo, Increasing, Accounted, Numbers, Mine

\* A message appended to the channel is its sender's, with the next number.
LEMMA NumbersAppend ==
  ASSUME NEW all \in Seq(Messages), NEW m \in Messages, NEW t
  PROVE  LET new == Append(all, m)
         IN  /\ t # m[1] => /\ Numbers(new, t) = Numbers(all, t)
                            /\ Increasing(all, t) => Increasing(new, t)
             /\ t = m[1] => Numbers(new, t) = Numbers(all, t) \cup {m[2]}
             /\ t = m[1] /\ Increasing(all, t) /\ (\A n \in Numbers(all, t) : n < m[2])
                  => Increasing(new, t)
<1> DEFINE new == Append(all, m)
<1>1. /\ DOMAIN new = DOMAIN all \cup {Len(all) + 1} /\ new[Len(all) + 1] = m
      /\ \A i \in DOMAIN all : new[i] = all[i] /\ i \in Nat /\ i < Len(all) + 1
      /\ Len(all) \in Nat
  BY LenProperties
<1> HIDE DEF new
<1>2. CASE t # m[1]
  <2>1. Mine(new, t) = Mine(all, t) /\ \A i \in Mine(all, t) : new[i] = all[i]
    BY <1>1, <1>2 DEF Mine
  <2>2. Numbers(new, t) = Numbers(all, t)
    BY <2>1 DEF Numbers
  <2>3. Increasing(all, t) => Increasing(new, t)
    BY <2>1 DEF Increasing
  <2> QED BY <2>2, <2>3, <1>2 DEF new
<1>3. CASE t = m[1]
  <2>1. /\ Mine(new, t) = Mine(all, t) \cup {Len(all) + 1}
        /\ \A i \in Mine(all, t) : new[i] = all[i] /\ i \in Nat /\ i < Len(all) + 1
    BY <1>1, <1>3 DEF Mine
  <2>2. Numbers(new, t) = Numbers(all, t) \cup {m[2]}
    BY <2>1, <1>1 DEF Numbers
  <2>3. ASSUME Increasing(all, t), \A n \in Numbers(all, t) : n < m[2]
        PROVE  Increasing(new, t)
    <3>1. \A i \in Mine(all, t) : all[i][2] < m[2]
      BY <2>3 DEF Numbers
    <3>2. ASSUME NEW i \in Mine(new, t), NEW j \in Mine(new, t), i < j
          PROVE  new[i][2] < new[j][2]
      <4>1. i \in Mine(all, t)
        BY <3>2, <2>1, <1>1
      <4> QED BY <4>1, <3>1, <3>2, <2>1, <2>3, <1>1 DEF Increasing
    <3> QED BY <3>2 DEF Increasing
  <2> QED BY <2>2, <2>3, <1>3 DEF new
<1> QED BY <1>2, <1>3

\* The values of every sender stay in order and without a gap through a step.
LEMMA FifoStep ==
  ASSUME IInv, PerSenderFifo, NEW t \in Threads, CallStep(t) \/ RunStep(t)
  PROVE  PerSenderFifo'
<1> DEFINE all == delivered \o queue
<1>1. /\ queue \in Seq(Messages) /\ delivered \in Seq(Messages) /\ all \in Seq(Messages)
      /\ sent \in [Threads -> 0..MaxSends] /\ pc \in [Threads -> Places]
      /\ Senders \subseteq Threads
  BY ConcatProperties, RolesAssumption DEF IInv, TypeOK
<1>2. \A u \in Senders : Increasing(all, u) /\ Accounted(Numbers(all, u), pc[u], sent[u])
  BY FifoParts
<1>3. ASSUME (delivered \o queue)' = all,
             \A u \in Senders : Accounted(Numbers(all, u), pc'[u], sent'[u])
      PROVE  PerSenderFifo'
  <2>1. \A u \in Senders : /\ Increasing((delivered \o queue)', u)
                           /\ Accounted(Numbers((delivered \o queue)', u), pc'[u], sent'[u])
    BY <1>2, <1>3
  <2> QED BY <2>1 DEF PerSenderFifo, Increasing, Accounted, Numbers, Mine
<1>4. CASE CallStep(t)
  <2>1. UNCHANGED <<queue, delivered>> /\ pc[t] = "idle"
    BY <1>4 DEF CallStep, Call, CallSend, CallRecv, CallTimed, CallTry, CallClose
  <2>2. \/ /\ pc' = [pc EXCEPT ![t] = "send"] /\ sent' = [sent EXCEPT ![t] = @ + 1]
        \/ /\ \E op \in {"recv", "timed", "try", "close"} : pc' = [pc EXCEPT ![t] = op]
           /\ sent' = sent
    BY <1>4 DEF CallStep, Call, CallSend, CallRecv, CallTimed, CallTry, CallClose
  <2>3. ASSUME NEW u \in Senders PROVE Accounted(Numbers(all, u), pc'[u], sent'[u])
    <3>1. CASE u = t /\ pc'[t] = "send" /\ sent'[t] = sent[t] + 1
      <4>1. Numbers(all, u) = 1..sent[t] /\ sent[t] + 1 - 1 = sent[t]
        BY SMTT(30), <1>1, <1>2, <2>1, <3>1 DEF Accounted
      <4>2. pc'[u] = "send"
        BY <3>1
      <4>3. sent'[u] - 1 = sent[t]
        <5>1. sent[t] \in 0..MaxSends /\ sent'[u] = sent[t] + 1
          BY <1>1, <3>1
        <5> QED BY <5>1, NumbersAssumption
      <4> QED BY <4>1, <4>2, <4>3 DEF Accounted
    <3>2. CASE u # t \/ (pc'[t] \in {"recv", "timed", "try", "close"} /\ sent' = sent)
      BY <1>1, <1>2, <2>1, <2>2, <3>2 DEF Accounted
    <3> QED BY <1>1, <2>2, <3>1, <3>2
  <2> QED BY <2>1, <2>3, <1>3
<1>5. CASE SendPush(t)
  <2>1. /\ pc[t] = "send" /\ t \in Senders /\ sent[t] \in 1..MaxSends /\ sent' = sent
        /\ delivered' = delivered /\ queue' = Append(queue, <<t, sent[t]>>)
        /\ pc'[t] \in {"idle", "waking"} /\ \A u \in Threads \ {t} : pc'[u] = pc[u]
    BY <1>1, <1>5, NumbersAssumption DEF SendPush, Locks, Unlock, IInv, RolesRespected
  <2> DEFINE m == <<t, sent[t]>>
  <2>2. m \in Messages /\ m[1] = t /\ m[2] = sent[t]
    BY <2>1 DEF Messages
  <2>3. (delivered \o queue)' = Append(all, m)
    BY <1>1, <2>1, <2>2, AppendOfConcat
  <2>4. ASSUME NEW u \in Senders
        PROVE  /\ Increasing(Append(all, m), u)
               /\ Accounted(Numbers(Append(all, m), u), pc'[u], sent'[u])
    <3>1. CASE u # t
      BY <1>1, <1>2, <2>1, <2>2, <3>1, NumbersAppend
    <3>2. CASE u = t
      <4>1. Numbers(all, t) = 1..sent[t] - 1
        BY <1>2, <2>1 DEF Accounted
      <4>2. (\A n \in Numbers(all, t) : n < m[2]) /\ Numbers(all, t) \cup {m[2]} = 1..sent[t]
        BY <2>1, <4>1
      <4>3. Increasing(Append(all, m), t) /\ Numbers(Append(all, m), t) = 1..sent[t]
        BY <1>1, <1>2, <2>1, <2>2, <4>2, NumbersAppend
      <4> QED BY <2>1, <3>2, <4>3 DEF Accounted
    <3> QED BY <3>1, <3>2
  <2>5. \A u \in Senders : /\ Increasing((delivered \o queue)', u)
                           /\ Accounted(Numbers((delivered \o queue)', u), pc'[u], sent'[u])
    BY <2>3, <2>4
  <2> QED BY <2>5 DEF PerSenderFifo, Increasing, Accounted, Numbers, Mine
<1>6. ASSUME NEW at \in {"recv", "try", "timed"}, Pop(t, at)
      PROVE  PerSenderFifo'
  <2>1. (delivered \o queue)' = all
    BY <1>1, <1>6, PopOfConcat DEF Pop
  <2>2. /\ pc[t] = at /\ pc'[t] \in {"idle", "waking"} /\ sent' = sent
        /\ \A u \in Threads \ {t} : pc'[u] = pc[u]
    BY <1>1, <1>6 DEF Pop, Locks, Unlock
  <2>3. \A u \in Senders : Accounted(Numbers(all, u), pc'[u], sent'[u])
    BY <1>1, <1>2, <2>2 DEF Accounted
  <2> QED BY <2>1, <2>3, <1>3
<1>7. CASE RunStep(t) /\ ~SendPush(t) /\ ~(\E at \in {"recv", "try", "timed"} : Pop(t, at))
  <2>1. UNCHANGED <<queue, delivered, sent>>
    BY <1>7 DEF RunStep, SendPark, SendClosed, RecvPop, TryPop, TimedPop, RecvClosed, TimedClosed,
      ZeroFill, RecvPark, TimedPark, RecvParkAt, TryEmpty, TimedLate, TimedGiveUp, TimedExpired,
      Close, CloseAgain, Wake, Resume, PoisonedLock
  <2>2. \A u \in Threads \ {t} : pc'[u] = pc[u]
    BY <1>1, <1>7 DEF RunStep, SendPark, SendClosed, RecvPop, TryPop, TimedPop, RecvClosed,
      TimedClosed, ZeroFill, RecvPark, TimedPark, RecvParkAt, ParkAt, TryEmpty, TimedLate,
      TimedGiveUp, TimedExpired, Close, CloseAgain, Wake, Resume, PoisonedLock, Unlock, Return
  <2>3. \/ pc[t] = "send" /\ pc'[t] \in {"sendParked", "panicked"}
        \/ pc[t] = "sendParked" /\ pc'[t] = "send"
        \/ pc[t] \notin {"send", "sendParked", "panicked"} /\ pc'[t] \notin {"send", "sendParked"}
    BY <1>1, <1>7 DEF RunStep, SendPark, SendClosed, RecvPop, TryPop, TimedPop, RecvClosed,
      TimedClosed, ZeroFill, RecvPark, TimedPark, RecvParkAt, ParkAt, TryEmpty, TimedLate,
      TimedGiveUp, TimedExpired, Close, CloseAgain, Wake, Resume, Retry, PoisonedLock, Unlock,
      Return, Locks, LockPoints, Waits
  <2>4. \A u \in Senders : Accounted(Numbers(all, u), pc'[u], sent'[u])
    BY <1>2, <2>1, <2>2, <2>3, <1>1 DEF Accounted
  <2> QED BY <2>1, <2>4, <1>3
<1> QED BY <1>4, <1>5, <1>6, <1>7

----------------------------------------------------------------------------
(* The theorems.                                                           *)

LEMMA InitIInv == Init => IInv
<1> SUFFICES ASSUME Init PROVE IInv
  OBVIOUS
<1>1. TypeOK
  BY TypeInit
<1>2. RolesRespected /\ HoldsWhileWaiting /\ PoppedIsWoken
  BY DEF Init, RolesRespected, HoldsWhileWaiting, PoppedIsWoken, Waits
<1>3. ListsRegistered
  BY DEF Init, ListsRegistered, Registered, Range, IsInjective
<1>4. FaultMeansClosed /\ CloseReleasesAll /\ SlotsHaveFillers /\ ValuesHaveTakers
  BY DEF Init, FaultMeansClosed, CloseReleasesAll, SlotsHaveFillers,
         ValuesHaveTakers
<1> QED BY <1>1, <1>2, <1>3, <1>4 DEF IInv

LEMMA NextIInv == IInv /\ [Next]_vars => IInv'
<1> SUFFICES ASSUME IInv, [Next]_vars PROVE IInv'
  OBVIOUS
<1>1. CASE Next
  <2>1. PICK t \in Threads : CallStep(t) \/ RunStep(t)
    BY <1>1 DEF Next
  <2>2. TypeOK'
    BY <2>1, TypeStep DEF IInv
  <2>3. RolesRespected' /\ HoldsWhileWaiting' /\ ListsRegistered'
    BY <2>1, RolesStep, HoldsStep, ListsStep
  <2>4. FaultMeansClosed' /\ CloseReleasesAll' /\ PoppedIsWoken'
    BY <2>1, FaultStep, PoppedStep
  <2>5. SlotsHaveFillers'
    BY <2>1, SlotsStep
  <2>6. TimedReceivers = {} => ValuesHaveTakers'
    BY <2>1, ValuesStep DEF IInv
  <2> QED BY <2>2, <2>3, <2>4, <2>5, <2>6 DEF IInv
<1>2. CASE UNCHANGED vars
  BY <1>2
  DEF vars, IInv, TypeOK, RolesRespected, HoldsWhileWaiting, ListsRegistered,
      Registered, FaultMeansClosed, CloseReleasesAll, PoppedIsWoken,
      SlotsHaveFillers, SendsInFlight, ValuesHaveTakers, RecvsInFlight
<1> QED BY <1>1, <1>2

\* The inductive invariant holds in every behaviour of the channel.
THEOREM Invariance == Spec => []IInv
BY InitIInv, NextIInv, PTL DEF Spec

\* The variables keep their types, and the buffer its bound.
THEOREM TypeCorrect == Spec => []TypeOK
<1>1. IInv => TypeOK
  BY DEF IInv
<1> QED BY <1>1, Invariance, PTL

\* A thread popped from a wait list is always owed or given its wake-up.
THEOREM NoWakeupLost == Spec => []PoppedIsWoken
<1>1. IInv => PoppedIsWoken
  BY DEF IInv
<1> QED BY <1>1, Invariance, PTL

\* Closing empties the wait lists for good.
THEOREM ClosedListsEmpty == Spec => []CloseReleasesAll
<1>1. IInv => CloseReleasesAll
  BY DEF IInv
<1> QED BY <1>1, Invariance, PTL

\* No slot is free with a sender asleep and no other sender coming for it.
THEOREM SendersNotStranded == Spec => []SlotsHaveFillers
<1>1. IInv => SlotsHaveFillers
  BY DEF IInv
<1> QED BY <1>1, Invariance, PTL

\* Without receive deadlines, no value is buffered with a receiver asleep and
\* no other receiver coming for it.
THEOREM ReceiversNotStranded ==
  ASSUME TimedReceivers = {}
  PROVE  Spec => []ValuesHaveTakers
<1>1. IInv => ValuesHaveTakers
  BY DEF IInv
<1> QED BY <1>1, Invariance, PTL

\* What a sender sends comes out in order, nothing lost and nothing twice.
THEOREM NothingOvertakes == Spec => []PerSenderFifo
<1>1. Init => PerSenderFifo
  <2>1. ASSUME Init, NEW t \in Senders
        PROVE  /\ Increasing(delivered \o queue, t)
               /\ Accounted(Numbers(delivered \o queue, t), pc[t], sent[t])
    <3>1. delivered \o queue = <<>> /\ pc[t] = "idle" /\ sent[t] = 0
      BY <2>1, RolesAssumption DEF Init
    <3>2. Mine(<<>>, t) = {}
      BY DEF Mine
    <3> QED BY <3>1, <3>2 DEF Increasing, Accounted, Numbers
  <2> QED BY <2>1, FifoParts
<1>2. IInv /\ PerSenderFifo /\ [Next]_vars => PerSenderFifo'
  <2>1. CASE UNCHANGED vars
    BY SMTT(30), <2>1 DEF vars, PerSenderFifo
  <2> QED BY <2>1, FifoStep DEF Next
<1> QED BY <1>1, <1>2, Invariance, PTL DEF Spec

----------------------------------------------------------------------------
(* The channel implements the blocking FIFO, fairness aside.               *)

\* The mode of one thread changes with its program counter, no other's does.
LEMMA ModeStep ==
  ASSUME TypeOK, NEW t \in Threads, NEW q, pc' = [pc EXCEPT ![t] = q]
  PROVE  /\ Fifo!Becomes(t, Mode(q))
         /\ Mode(q) = Mode(pc[t]) =>
              [u \in Threads |-> Mode(pc[u])]' = [u \in Threads |-> Mode(pc[u])]
BY DEF TypeOK, Fifo!Becomes

LEMMA RefinementStep ==
  ASSUME IInv, ~PanicUnwinds, Next
  PROVE  Fifo!Next \/ UNCHANGED Fifo!vars
<1> USE DEF IInv
<1>1. PICK t \in Threads : CallStep(t) \/ RunStep(t)
  BY DEF Next
<1>a. fault # "aborted" /\ fault # "poisoned" /\ pc \in [Threads -> Places]
  BY DEF Next, FaultMeansClosed, TypeOK
<1> SUFFICES \/ Fifo!Start(t) \/ Fifo!Serve(t)
             \/ UNCHANGED Fifo!vars
  BY <1>a DEF Fifo!Next
<1>2. CASE CallStep(t)
  <2>1. ASSUME NEW op \in LockPoints \ {"timedExpired"}, NEW role, Call(t, op, role)
        PROVE  Fifo!Ask(t, Mode(op), role)
    BY <2>1, <1>a, ModeStep DEF Call, Fifo!Ask, Mode
  <2> QED
    BY <1>2, <2>1
    DEF CallStep, CallSend, CallRecv, CallTimed, CallTry, CallClose, LockPoints,
        Mode, Fifo!Start
<1>3. ASSUME NEW ws, Unlock(t, ws)
      PROVE  Fifo!Ends(t)
  BY <1>3, ModeStep DEF Unlock, Mode, Fifo!Ends
<1>4. CASE SendPush(t)
  <2>1. Fifo!Put(t)
    BY <1>a, <1>3, <1>4 DEF SendPush, Locks, Mode, Fifo!Put
  <2> QED BY <2>1 DEF Fifo!Serve
<1>5. ASSUME NEW at \in {"recv", "try", "timed"}, Pop(t, at)
      PROVE  Fifo!Serve(t)
  <2>1. Fifo!Take(t)
    BY <1>a, <1>3, <1>5 DEF Pop, Locks, Mode, Fifo!Take
  <2> QED BY <2>1 DEF Fifo!Serve
<1>6. CASE \/ ZeroFill(t, "recv") \/ ZeroFill(t, "timed") \/ TryEmpty(t)
           \/ TimedLate(t) \/ TimedExpired(t)
  <2>1. Fifo!Becomes(t, "idle")
    BY <1>6, ModeStep
    DEF ZeroFill, TryEmpty, TimedLate, TimedExpired, Return, Mode
  <2>2. Fifo!TakeNothing(t)
    BY <2>1, <1>6
    DEF ZeroFill, TryEmpty, TimedLate, TimedExpired, Locks, Mode,
        Fifo!TakeNothing
  <2> QED BY <2>2 DEF Fifo!Serve
<1>7. CASE Close(t)
  <2>1. Fifo!Shut(t)
    BY <1>a, <1>3, <1>7 DEF Close, Locks, Mode, Fifo!Shut
  <2> QED BY <2>1 DEF Fifo!Serve
<1>8. CASE CloseAgain(t)
  <2>1. Fifo!Becomes(t, "idle")
    BY <1>8, ModeStep DEF CloseAgain, Return, Mode
  <2>2. Fifo!Shut(t)
    BY <2>1, <1>8 DEF CloseAgain, Locks, Mode, Fifo!Shut, Fifo!Ends, TypeOK
  <2> QED BY <2>2 DEF Fifo!Serve
<1>9. CASE SendClosed(t)
  <2>1. Fifo!Becomes(t, "panicked")
    BY <1>9, ModeStep DEF SendClosed, Mode
  <2>2. Fifo!SendOnClosed(t)
    BY <2>1, <1>9, <1>a DEF SendClosed, Locks, Mode, Fifo!SendOnClosed
  <2> QED BY <2>2 DEF Fifo!Serve
<1>10. CASE Wake(t)
  <2>1. CASE Tail(waking[t]) = <<>>
    <3>1. Fifo!Becomes(t, "idle")
      BY <2>1, <1>10, ModeStep DEF Wake, Unlock, Mode
    <3>2. Fifo!Finish(t)
      BY <3>1, <1>10 DEF Wake, Mode, Fifo!Finish
    <3> QED BY <3>2 DEF Fifo!Serve
  <2>2. CASE Tail(waking[t]) # <<>>
    BY <2>2, <1>10, ModeStep DEF Wake, Unlock, Mode, Fifo!vars
  <2> QED BY <2>1, <2>2
<1>11. CASE \/ SendPark(t) \/ RecvParkAt(t, "recv", "recvParked")
            \/ RecvParkAt(t, "timed", "timedParked") \/ TimedGiveUp(t)
            \/ Resume(t)
  <2>1. PICK q : pc' = [pc EXCEPT ![t] = q] /\ Mode(q) = Mode(pc[t])
    BY <1>11
    DEF SendPark, RecvParkAt, ParkAt, TimedGiveUp, Resume, Locks, Mode, Waits,
        Retry
  <2>2. UNCHANGED <<queue, closed, sent, delivered, fault>>
    BY <1>11 DEF SendPark, RecvParkAt, TimedGiveUp, Resume
  <2> QED BY <2>1, <2>2, ModeStep DEF Fifo!vars
<1>12. ~PoisonedLock(t)
  BY <1>a DEF PoisonedLock
<1> QED
  BY <1>1, <1>2, <1>4, <1>5, <1>6, <1>7, <1>8, <1>9, <1>10, <1>11, <1>12
  DEF RunStep, RecvPop, TryPop, TimedPop, RecvClosed, TimedClosed, RecvPark,
      TimedPark, Fifo!Serve

\* Where a panic ends the process, every behaviour of the channel is one of
\* the blocking FIFO: parking and waking add nothing and take nothing away.
THEOREM Refinement ==
  ASSUME ~PanicUnwinds
  PROVE  Spec => Fifo!SafeSpec
<1>1. Init => Fifo!Init
  BY DEF Init, Fifo!Init, Mode
<1>2. IInv /\ [Next]_vars => [Fifo!Next]_Fifo!vars
  <2>1. IInv /\ Next => Fifo!Next \/ UNCHANGED Fifo!vars
    BY RefinementStep
  <2>2. UNCHANGED vars => UNCHANGED Fifo!vars
    BY DEF vars, Fifo!vars
  <2> QED BY <2>1, <2>2
<1> QED BY <1>1, <1>2, Invariance, PTL DEF Spec, Fifo!SafeSpec
=============================================================================
