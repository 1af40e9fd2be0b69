-------------------------- MODULE GreenTasksProofs --------------------------
(***************************************************************************)
(* Proofs about GreenTasks, for any number of tasks and channels and       *)
(* whatever their code calls: IInv is an invariant, so a task is where its *)
(* state says and nowhere else, nested dispatch keeps its books, a task    *)
(* that waits for another consumes it only when it is dead, and nothing    *)
(* can run where the runtime reports a deadlock or leaves Main's nursery.  *)
(***************************************************************************)
EXTENDS GreenTasks, ListLemmas, FiniteSetTheorems

LEMMA Names ==
  /\ Main \notin Tasks /\ Main \in Agents /\ Tasks \subseteq Agents
  /\ None \notin Tasks /\ None # Main /\ None \notin Agents
  /\ \A a \in Agents : a = Main \/ a \in Tasks
BY NamesAssumption DEF Agents

\* A node is a place and what it is for.
LEMMA NodeParts ==
  ASSUME NEW n \in Nodes
  PROVE  /\ n = <<n[1], n[2]>>
         /\ n[1] \in {"send", "recv", "timed", "sendParked", "recvParked",
                      "timedParked", "timedRan", "expired"} => n[2] \in Chans
         /\ n[1] \in {"await", "awaited"} => n[2] \in Tasks
         /\ n[1] \in {"code", "panics", "select", "read"} => n[2] = None
         /\ n[1] = "drain" => n[2] \in BOOLEAN
BY DEF Nodes

LEMMA NodesMade ==
  /\ Code \in Nodes /\ <<"panics", None>> \in Nodes
  /\ <<"select", None>> \in Nodes /\ <<"read", None>> \in Nodes
  /\ \A c \in Chans :
       \A p \in {"send", "recv", "timed", "sendParked", "recvParked", "timedParked",
                 "timedRan", "expired"} : <<p, c>> \in Nodes
  /\ \A t \in Tasks : <<"await", t>> \in Nodes /\ <<"awaited", t>> \in Nodes
  /\ \A b \in BOOLEAN : <<"drain", b>> \in Nodes
BY DEF Nodes, Code

----------------------------------------------------------------------------
(* Lists.                                                                  *)

LEMMA FirstAndRest ==
  ASSUME NEW S, NEW s \in Seq(S)
  PROVE  /\ FirstOf(s) \in Seq(S) /\ RestOf(s) \in Seq(S)
         /\ IsInjective(FirstOf(s))
         /\ Range(s) = Range(FirstOf(s)) \cup Range(RestOf(s))
         /\ IsInjective(s) => /\ IsInjective(RestOf(s))
                              /\ Range(FirstOf(s)) \cap Range(RestOf(s)) = {}
<1>1. CASE s = <<>>
  BY <1>1 DEF FirstOf, RestOf, Range, IsInjective
<1>2. CASE s # <<>>
  <2>1. /\ FirstOf(s) = <<Head(s)>> /\ RestOf(s) = Tail(s) /\ Head(s) \in S
        /\ Range(<<Head(s)>>) = {Head(s)} /\ IsInjective(<<Head(s)>>)
    BY <1>2, RangeTail DEF FirstOf, RestOf, Range, IsInjective
  <2> QED BY <1>2, <2>1, RangeTail
<1> QED BY <1>1, <1>2

\* The indices on the two sides of i.
LEMMA Cutting ==
  ASSUME NEW n \in Nat, NEW i \in 1..n
  PROVE  /\ \A k \in 1..(i - 1) : k \in 1..n /\ k # i /\ k \notin (i + 1)..n
         /\ \A k \in (i + 1)..n : k \in 1..n /\ k # i
         /\ \A k \in 1..n : k = i \/ k \in 1..(i - 1) \/ k \in (i + 1)..n
         /\ \A k \in (i + 1)..n : k - i \in 1..(n - i) /\ i + (k - i) = k
         /\ \A k \in 1..(n - i) : i + k \in (i + 1)..n /\ (i + 1) + k - 1 = i + k
         /\ \A k \in 1..(i - 1) : 1 + k - 1 = k
OBVIOUS

LEMMA WithoutMainFact ==
  ASSUME NEW s \in Seq(Agents), IsInjective(s)
  PROVE  /\ WithoutMain(s) \in Seq(Tasks) /\ WithoutMain(s) \in Seq(Agents)
         /\ IsInjective(WithoutMain(s))
         /\ Range(WithoutMain(s)) = Range(s) \ {Main}
<1>1. Len(s) \in Nat /\ DOMAIN s = 1..Len(s) /\ \A i \in 1..Len(s) : s[i] \in Agents
  BY LenProperties, ElementOfSeq
<1>2. CASE Main \in Range(s)
  <2>1. PICK i \in 1..Len(s) : i = (CHOOSE k \in DOMAIN s : s[k] = Main) /\ s[i] = Main
    BY <1>1, <1>2 DEF Range
  <2> DEFINE a == SubSeq(s, 1, i - 1)
             b == SubSeq(s, i + 1, Len(s))
  <2>2. WithoutMain(s) = a \o b
    BY <1>2, <2>1 DEF WithoutMain
  <2>3. PICK n \in Nat : n = Len(s)
    BY <1>1
  <2>4. /\ a \in Seq(Agents) /\ IsInjective(a)
        /\ b \in Seq(Agents) /\ IsInjective(b)
    <3>1. i - 1 \in 0..Len(s) /\ i \in 0..Len(s)
      BY <1>1, <2>1
    <3>2. SubSeq(s, (i - 1) + 1, Len(s)) \in Seq(Agents)
      BY <3>1, RangeCut
    <3> QED BY <3>1, RangeCut
  <2>5. /\ i \in 1..n
        /\ \A k \in 1..(i - 1) : k \in 1..n /\ k # i /\ k \notin (i + 1)..n
        /\ \A k \in (i + 1)..n : k \in 1..n /\ k # i
        /\ \A k \in 1..n : k = i \/ k \in 1..(i - 1) \/ k \in (i + 1)..n
        /\ \A k \in (i + 1)..n : k - i \in 1..(n - i) /\ i + (k - i) = k
        /\ \A k \in 1..(n - i) : i + k \in (i + 1)..n /\ (i + 1) + k - 1 = i + k
        /\ \A k \in 1..(i - 1) : 1 + k - 1 = k
    <3>1. i \in 1..n
      BY <2>3
    <3> QED BY <3>1, Cutting
  <2>6. /\ \A x : x \in Range(a) <=> \E k \in 1..(i - 1) : x = s[k]
        /\ \A x : x \in Range(b) <=> \E k \in (i + 1)..n : x = s[k]
    <3>1. /\ Len(a) = i - 1 /\ \A k \in 1..(i - 1) : a[k] = s[k]
          /\ Len(b) = n - i /\ \A k \in 1..(n - i) : b[k] = s[i + k]
      <4>1. \A k \in 1..n : s[k] \in Agents
        BY <1>1, <2>3
      <4>2. /\ Len(a) = IF 1 <= i - 1 THEN (i - 1) - 1 + 1 ELSE 0
            /\ \A k \in 1..((i - 1) - 1 + 1) : a[k] = s[1 + k - 1]
        BY <4>1, <2>5, SubSeqProperties
      <4>3. /\ Len(b) = IF i + 1 <= n THEN n - (i + 1) + 1 ELSE 0
            /\ \A k \in 1..(n - (i + 1) + 1) : b[k] = s[(i + 1) + k - 1]
        BY <4>1, <2>3, <2>5, SubSeqProperties
      <4>4. Len(a) = i - 1 /\ \A k \in 1..(i - 1) : a[k] = s[k]
        BY <4>2, <2>5
      <4>5. Len(b) = n - i /\ \A k \in 1..(n - i) : b[k] = s[i + k]
        BY <4>3, <2>3, <2>5
      <4> QED BY <4>4, <4>5
    <3>2. DOMAIN a = 1..(i - 1) /\ DOMAIN b = 1..(n - i)
      BY <3>1, <2>4, LenProperties
    <3>3. \A x : x \in Range(a) <=> \E k \in 1..(i - 1) : x = s[k]
      BY <3>1, <3>2 DEF Range
    <3>4. ASSUME NEW x PROVE x \in Range(b) <=> \E k \in (i + 1)..n : x = s[k]
      <4>1. x \in Range(b) <=> \E k \in 1..(n - i) : x = s[i + k]
        BY <3>1, <3>2 DEF Range
      <4>2. ASSUME NEW k \in (i + 1)..n, x = s[k] PROVE \E m \in 1..(n - i) : x = s[i + m]
        BY <4>2, <2>5
      <4> QED BY <4>1, <4>2, <2>5
    <3> QED BY <3>3, <3>4
  <2> HIDE DEF a, b
  <2>7. \A x : x \in Range(s) <=> \E k \in 1..n : x = s[k]
    BY <1>1, <2>3 DEF Range
  <2>8. \A k, m \in 1..n : s[k] = s[m] => k = m
    BY <1>1, <2>3 DEF IsInjective
  <2>9. Range(a) \cup Range(b) = Range(s) \ {Main}
    <3>1. ASSUME NEW x PROVE x \in Range(a) \cup Range(b) <=> x \in Range(s) \ {Main}
      <4>1. s[i] = Main
        BY <2>1
      <4> QED BY <4>1, <2>5, <2>6, <2>7, <2>8
    <3> QED BY <3>1
  <2>10. Range(a) \cap Range(b) = {}
    BY <2>5, <2>6, <2>8
  <2>11. /\ a \o b \in Seq(Agents) /\ IsInjective(a \o b)
         /\ Range(a \o b) = Range(a) \cup Range(b)
    BY <2>4, <2>10, InjectiveConcat, RangeConcat
  <2>12. a \o b \in Seq(Tasks)
    <3>1. Range(s) \subseteq Agents
      BY <1>1 DEF Range
    <3>2. Range(a \o b) \subseteq Tasks
      BY <3>1, <2>9, <2>11, Names
    <3> QED BY <3>2, <2>11, SeqOfRange, SeqMonotonic
  <2> QED BY <2>2, <2>9, <2>11, <2>12
<1>3. CASE Main \notin Range(s)
  <2>1. \A i \in 1..Len(s) : s[i] \in Tasks
    BY <1>1, <1>3, Names DEF Range
  <2> QED BY <1>1, <1>3, <2>1 DEF WithoutMain
<1> QED BY <1>2, <1>3

\* The tasks a poll wakes, in whatever order.
LEMMA OrdersFact ==
  ASSUME NEW S, S \subseteq Tasks, NEW s \in Orders(S)
  PROVE  s \in Seq(Tasks) /\ IsInjective(s) /\ Range(s) \subseteq S
<1>1. Cardinality(S) \in Nat
  BY TasksAssumption, FS_Subset, FS_CardinalityType
<1>2. s \in [1..Cardinality(S) -> S] /\ IsInjective(s)
  BY DEF Orders
<1>3. s \in Seq(Tasks)
  BY <1>1, <1>2
<1> QED BY <1>2, <1>3 DEF Range

----------------------------------------------------------------------------
(* The chain of dispatches.                                                *)

\* Who has the CPU, and who runs: the agent on the CPU and the drivers below.
LEMMA CpuFact ==
  ASSUME IInv
  PROVE  /\ cpu \in Agents /\ cpu \notin Driving
         /\ current = (IF cpu = Main THEN None ELSE cpu) /\ Caller = cpu
         /\ cpu # Main => /\ cpu \in Tasks /\ state[cpu] = "Running"
                          /\ schCtx \in Driving /\ frame[schCtx].task = cpu
         /\ \A d \in Driving \cap Tasks : state[d] = "Running"
         /\ \A t \in Tasks : state[t] = "Running" => t = cpu \/ t \in Driving
         /\ cpu = Main => Driving = {}
<1>1. /\ cpu \in Agents /\ cpu \notin Driving
      /\ current = (IF cpu = Main THEN None ELSE cpu)
      /\ cpu # Main => schCtx \in Driving /\ frame[schCtx].task = cpu
  BY DEF IInv, TypeOK, ChainOK, ChainSound
<1>2. Caller = cpu
  BY <1>1, Names DEF Caller
<1>3. cpu # Main => cpu \in Tasks /\ state[cpu] = "Running"
  BY <1>1, Names DEF IInv, QueueOK
<1>4. ASSUME NEW d \in Driving \cap Tasks PROVE state[d] = "Running"
  <2>1. frame[d].ctx \in Driving /\ frame[frame[d].ctx].task = d
    BY <1>4, Names DEF IInv, ChainOK, ChainSound
  <2> QED BY <2>1, <1>4 DEF IInv, QueueOK
<1>5. \A t \in Tasks : state[t] = "Running" => t = cpu \/ t \in Driving
  BY DEF IInv, QueueOK, ChainOK
<1>6. ASSUME cpu = Main PROVE Driving = {}
  <2>1. \A d \in Driving : frame[d].task \in Driving
    BY <1>6, Names DEF IInv, ChainOK
  <2> QED BY <2>1 DEF IInv, ChainOK
<1> QED BY <1>1, <1>2, <1>3, <1>4, <1>5, <1>6

\* The first half of run_one puts the head of the queue on top of the chain.
LEMMA DispatchStep ==
  ASSUME IInv, NEW d \in Agents, cpu = d, Dispatch(d)
  PROVE  /\ ChainOK' /\ QueueOK'
         /\ cpu' \in Agents
         /\ frame' \in [Agents -> [task : Tasks \cup {None}, current : Tasks \cup {None},
                                   ctx : Agents \cup {None}]]
         /\ current' \in Tasks \cup {None} /\ schCtx' \in Agents \cup {None}
         /\ runQueue' \in Seq(Tasks)
         /\ state' \in [Tasks -> {"unborn", "Ready", "Running", "Blocked", "Dead", "freed"}]
         /\ \A u \in Tasks : \/ state'[u] = state[u]
                             \/ state[u] = "Ready" /\ state'[u] = "Running"
<1>1. PICK t \in Tasks : /\ t = Head(runQueue) /\ t \in Range(runQueue)
                         /\ runQueue' \in Seq(Tasks) /\ IsInjective(runQueue')
                         /\ Range(runQueue) = Range(runQueue') \cup {t}
                         /\ t \notin Range(runQueue')
  BY RangeTail DEF Dispatch, IInv, TypeOK, QueueOK
<1>2. /\ state' = [state EXCEPT ![t] = "Running"]
      /\ frame' = [frame EXCEPT ![d] = [task |-> t, current |-> current, ctx |-> schCtx]]
      /\ current' = t /\ schCtx' = d /\ cpu' = t
  BY <1>1 DEF Dispatch
<1>3. /\ state[t] = "Ready" /\ state'[t] = "Running"
      /\ \A u \in Tasks : u # t => state'[u] = state[u]
  BY <1>1, <1>2 DEF IInv, TypeOK, QueueOK
<1>4. t \notin Driving /\ d \notin Driving /\ t # d
  BY <1>1, <1>3, CpuFact, Names
<1>5. /\ frame'[d].task = t /\ frame'[d].current = current /\ frame'[d].ctx = schCtx
      /\ frame'[d] # NoFrame
      /\ \A e \in Agents : e # d => frame'[e] = frame[e]
  BY <1>1, <1>2, Names DEF IInv, TypeOK, NoFrame
<1>6. Driving' = Driving \cup {d}
  BY <1>5 DEF Driving
<1>7. frame' \in [Agents -> [task : Tasks \cup {None}, current : Tasks \cup {None},
                             ctx : Agents \cup {None}]]
  BY <1>1, <1>2 DEF IInv, TypeOK
<1>8. state' \in [Tasks -> {"unborn", "Ready", "Running", "Blocked", "Dead", "freed"}]
  BY <1>2 DEF IInv, TypeOK
<1>9. \A e \in Driving : e # d /\ frame'[e] = frame[e] /\ e \in Agents
  BY <1>4, <1>5 DEF Driving
<1>10. ChainSound'
  <2>1. current' = (IF cpu' = Main THEN None ELSE cpu')
    BY <1>1, <1>2, Names
  <2>2. cpu' \notin Driving'
    BY <1>2, <1>4, <1>6
  <2>3. schCtx' \in Driving' /\ frame'[schCtx'].task = cpu'
    BY <1>2, <1>5, <1>6
  <2>4. ASSUME NEW e \in Driving'
        PROVE  IF e = Main THEN frame'[e].current = None
               ELSE /\ frame'[e].current = e /\ frame'[e].ctx \in Driving'
                    /\ frame'[frame'[e].ctx].task = e
    <3>1. CASE e = d
      BY <3>1, <1>5, <1>6, <1>9, CpuFact
    <3>2. CASE e # d
      BY <3>2, <2>4, <1>6, <1>9 DEF IInv, ChainOK, ChainSound
    <3> QED BY <3>1, <3>2
  <2> QED BY <2>1, <2>2, <2>3, <2>4 DEF ChainSound
<1>11. \A e \in Driving' : frame'[e].task \in Tasks
                           /\ (frame'[e].task = cpu' \/ frame'[e].task \in Driving')
  BY <1>1, <1>2, <1>5, <1>6, <1>9 DEF IInv, ChainOK
<1>12. \A e \in Driving : frame[e].task # t
  BY <1>3 DEF IInv, QueueOK
<1>13. \A e, f \in Driving' : frame'[e].task = frame'[f].task => e = f
  BY <1>5, <1>6, <1>9, <1>12 DEF IInv, ChainOK
<1>14. ASSUME NEW D \in SUBSET Driving', \A e \in D : frame'[e].task \in D PROVE D = {}
  <2>1. d \notin D
    BY <1>14, <1>4, <1>5, <1>6
  <2>2. D \in SUBSET Driving /\ \A e \in D : frame[e].task \in D
    BY <2>1, <1>14, <1>6, <1>9
  <2> QED BY <2>2 DEF IInv, ChainOK
<1>15. ChainOK'
  BY <1>10, <1>11, <1>13, <1>14 DEF ChainOK
<1>16. QueueOK'
  <2>1. ASSUME NEW u \in Tasks
        PROVE  /\ u \in Range(runQueue') <=> state'[u] = "Ready"
               /\ state'[u] = "Running" <=> \E e \in Driving' : frame'[e].task = u
    <3>1. CASE u = t
      BY <3>1, <1>1, <1>3, <1>5, <1>6
    <3>2. CASE u # t
      BY <3>2, <1>1, <1>3, <1>5, <1>6, <1>9 DEF IInv, QueueOK
    <3> QED BY <3>1, <3>2
  <2> QED BY <2>1, <1>1 DEF QueueOK
<1> QED BY <1>1, <1>2, <1>3, <1>7, <1>8, <1>15, <1>16, Names

\* Tasks the agent on the CPU wakes go from blocked to ready, into the queue.
LEMMA WakeStep ==
  ASSUME IInv, NEW ws \in Seq(Agents), IsInjective(ws), UNCHANGED frame,
         \A t \in Tasks : t \in Range(ws) => state[t] = "Blocked",
         Wake(ws)
  PROVE  /\ QueueOK'
         /\ runQueue' \in Seq(Tasks)
         /\ state' \in [Tasks -> {"unborn", "Ready", "Running", "Blocked", "Dead", "freed"}]
         /\ \A t \in Tasks : state'[t] = IF t \in Range(ws) THEN "Ready" ELSE state[t]
         /\ notified' = (notified \/ Main \in Range(ws)) /\ notified' \in BOOLEAN
<1> DEFINE green == WithoutMain(ws)
<1>1. /\ green \in Seq(Tasks) /\ IsInjective(green) /\ Range(green) = Range(ws) \ {Main}
  BY WithoutMainFact
<1> HIDE DEF green
<1>2. /\ runQueue' = runQueue \o green
      /\ state' = [t \in Tasks |-> IF t \in Range(green) THEN "Ready" ELSE state[t]]
      /\ notified' = (notified \/ Main \in Range(ws))
  BY DEF Wake, green
<1>3. /\ runQueue \in Seq(Tasks) /\ notified \in BOOLEAN
      /\ state \in [Tasks -> {"unborn", "Ready", "Running", "Blocked", "Dead", "freed"}]
      /\ IsInjective(runQueue)
      /\ \A t \in Tasks : t \in Range(runQueue) <=> state[t] = "Ready"
      /\ \A t \in Tasks : state[t] = "Running" <=> \E d \in Driving : frame[d].task = t
  BY DEF IInv, TypeOK, QueueOK
<1>4. \A t \in Tasks : state'[t] = IF t \in Range(ws) THEN "Ready" ELSE state[t]
  BY <1>1, <1>2, Names
<1>5. Range(green) \subseteq Tasks
  BY <1>1 DEF Range
<1>6. Range(runQueue) \cap Range(green) = {}
  BY <1>1, <1>3, <1>5
<1>7. /\ runQueue' \in Seq(Tasks) /\ IsInjective(runQueue')
      /\ Range(runQueue') = Range(runQueue) \cup Range(green)
  BY <1>1, <1>2, <1>3, <1>6, RangeConcat, InjectiveConcat
<1>8. Driving' = Driving
  BY DEF Driving
<1>9. QueueOK'
  <2>1. \A t \in Tasks : t \in Range(runQueue') <=> state'[t] = "Ready"
    BY <1>1, <1>3, <1>4, <1>7, Names
  <2>2. \A t \in Tasks : state'[t] = "Running" <=> \E d \in Driving' : frame'[d].task = t
    BY <1>3, <1>4, <1>8
  <2> QED BY <2>1, <2>2, <1>7 DEF QueueOK
<1>10. state' \in [Tasks -> {"unborn", "Ready", "Running", "Blocked", "Dead", "freed"}]
  BY <1>2, <1>3
<1> QED BY <1>2, <1>3, <1>4, <1>7, <1>9, <1>10

\* What a task has made of the states, the queue and the parked set when it
\* leaves the CPU, and what these are after the switch.
Leaves(st, q, io) ==
  /\ q \in Seq(Tasks) /\ IsInjective(q) /\ io \subseteq Tasks
  /\ st \in [Tasks -> {"unborn", "Ready", "Running", "Blocked", "Dead", "freed"}]
  /\ \A t \in Tasks : t # cpu => (t \in Range(q) <=> st[t] = "Ready")
  /\ \A t \in Tasks : t # cpu => (st[t] = "Running" <=> state[t] = "Running")
  /\ cpu \notin Range(q) /\ st[cpu] \in {"Running", "Blocked", "Dead"}
  /\ \A t \in io : st[t] = "Blocked"
Switched(st, io) ==
  /\ ChainOK' /\ QueueOK'
  /\ cpu' \in Agents
  /\ frame' \in [Agents -> [task : Tasks \cup {None}, current : Tasks \cup {None},
                            ctx : Agents \cup {None}]]
  /\ current' \in Tasks \cup {None} /\ schCtx' \in Agents \cup {None}
  /\ runQueue' \in Seq(Tasks) /\ tick' \in 0..PollInterval - 1
  /\ state' \in [Tasks -> {"unborn", "Ready", "Running", "Blocked", "Dead", "freed"}]
  /\ ioWait' \subseteq io
  /\ \A t \in io : state'[t] = IF t \in ioWait' THEN "Blocked" ELSE "Ready"
  /\ \A t \in Tasks \ io : state'[t] = IF t = cpu /\ st[t] = "Running" THEN "Ready" ELSE st[t]

\* A task leaves the CPU to the run_one that dispatched it, which puts back
\* what it found; a task that can still run is in the queue again.
LEMMA SwitchStep ==
  ASSUME IInv, cpu # Main, NEW st, NEW q, NEW io, Leaves(st, q, io), SwitchOut(st, q, io)
  PROVE  Switched(st, io)
<1>0. /\ q \in Seq(Tasks) /\ IsInjective(q) /\ io \subseteq Tasks
      /\ st \in [Tasks -> {"unborn", "Ready", "Running", "Blocked", "Dead", "freed"}]
      /\ \A t \in Tasks : t # cpu => (t \in Range(q) <=> st[t] = "Ready")
      /\ \A t \in Tasks : t # cpu => (st[t] = "Running" <=> state[t] = "Running")
      /\ cpu \notin Range(q) /\ st[cpu] \in {"Running", "Blocked", "Dead"}
      /\ \A t \in io : st[t] = "Blocked"
  BY DEF Leaves
<1> USE <1>0
<1> DEFINE d == schCtx
           f == frame[d]
           canRun == st[cpu] = "Running"
           st1 == IF canRun THEN [st EXCEPT ![cpu] = "Ready"] ELSE st
           q1 == IF canRun THEN Append(q, cpu) ELSE q
<1>1. /\ cpu \in Tasks /\ cpu \notin Driving /\ state[cpu] = "Running"
      /\ d \in Driving /\ f.task = cpu /\ d \in Agents /\ d # cpu
      /\ frame[d] \in [task : Tasks \cup {None}, current : Tasks \cup {None},
                       ctx : Agents \cup {None}]
  BY CpuFact, Names DEF IInv, TypeOK, Driving
<1>2. IF d = Main THEN f.current = None
      ELSE f.current = d /\ f.ctx \in Driving /\ frame[f.ctx].task = d
  BY <1>1 DEF IInv, ChainOK, ChainSound
<1>3. PICK woken \in Orders(IF Polls(d) THEN io \cap readable ELSE {}) :
        /\ runQueue' = q1 \o woken
        /\ ioWait' = io \ Range(woken)
        /\ state' = [t \in Tasks |-> IF t \in Range(woken) THEN "Ready" ELSE st1[t]]
  <2>1. (st[f.task] \in {"Running", "Ready"}) <=> canRun
    BY <1>1
  <2>2. /\ q1 = IF st[f.task] \in {"Running", "Ready"} THEN Append(q, f.task) ELSE q
        /\ st1 = IF st[f.task] \in {"Running", "Ready"} THEN [st EXCEPT ![f.task] = "Ready"]
                 ELSE st
    BY <1>1, <2>1
  <2> HIDE <1>0
  <2> HIDE DEF q1, st1, canRun
  <2> QED BY <2>2 DEF SwitchOut, Requeued
<1>4. /\ cpu' = d /\ current' = f.current /\ schCtx' = RestoredCtx(f)
      /\ frame' = [frame EXCEPT ![d] = NoFrame] /\ tick' = NextTick(d)
  BY DEF SwitchOut
<1>5. /\ woken \in Seq(Tasks) /\ IsInjective(woken) /\ Range(woken) \subseteq io
  <2>1. (IF Polls(d) THEN io \cap readable ELSE {}) \subseteq io
    OBVIOUS
  <2> QED BY <2>1, <1>3, OrdersFact
<1>6. /\ frame'[d] = NoFrame
      /\ \A e \in Agents : e # d => frame'[e] = frame[e]
  BY <1>1, <1>4 DEF IInv, TypeOK
<1>7. \A e : e \in Driving' <=> e \in Driving /\ e # d
  BY <1>6 DEF Driving
<1>8. \A e \in Driving' : e \in Driving /\ e # d /\ frame'[e] = frame[e] /\ e \in Agents
  BY <1>6, <1>7 DEF Driving
<1>9. ChainSound'
  <2>1. current' = (IF cpu' = Main THEN None ELSE cpu') /\ cpu' \notin Driving'
    BY <1>2, <1>4, <1>7
  <2>2. ASSUME NEW e \in Driving, e # Main
        PROVE  /\ frame[e].current = e /\ frame[e].ctx \in Driving
               /\ frame[frame[e].ctx].task = e
               /\ frame[e].ctx # d
    BY <2>2, <1>1 DEF IInv, ChainOK, ChainSound
  <2>3. ASSUME cpu' # Main PROVE schCtx' \in Driving' /\ frame'[schCtx'].task = cpu'
    <3>1. schCtx' = f.ctx
      BY <2>3, <1>1, <1>2, <1>4, Names DEF RestoredCtx
    <3>2. f.ctx \in Driving /\ f.ctx # d /\ frame[f.ctx].task = d
      BY <2>2, <2>3, <1>1, <1>4
    <3>3. f.ctx \in Driving'
      BY <3>2, <1>7
    <3>4. frame'[f.ctx] = frame[f.ctx]
      BY <3>3, <1>8
    <3> QED BY <3>1, <3>2, <3>3, <3>4, <1>4
  <2>4. ASSUME NEW e \in Driving'
        PROVE  IF e = Main THEN frame'[e].current = None
               ELSE /\ frame'[e].current = e /\ frame'[e].ctx \in Driving'
                    /\ frame'[frame'[e].ctx].task = e
    <3>1. CASE e = Main
      BY <3>1, <1>8 DEF IInv, ChainOK, ChainSound
    <3>2. CASE e # Main
      BY <3>2, <2>2, <1>7, <1>8
    <3> QED BY <3>1, <3>2
  <2> QED BY <2>1, <2>3, <2>4 DEF ChainSound
<1>10. ChainOK'
  <2>1. \A e \in Driving' : frame'[e].task \in Tasks
                            /\ (frame'[e].task = cpu' \/ frame'[e].task \in Driving')
    BY <1>1, <1>4, <1>7, <1>8 DEF IInv, ChainOK
  <2>2. \A e, g \in Driving' : frame'[e].task = frame'[g].task => e = g
    BY <1>8 DEF IInv, ChainOK
  <2>3. ASSUME NEW D \in SUBSET Driving', \A e \in D : frame'[e].task \in D PROVE D = {}
    <3>1. D \in SUBSET Driving /\ \A e \in D : frame[e].task \in D
      BY <2>3, <1>8
    <3> QED BY <3>1 DEF IInv, ChainOK
  <2> QED BY <1>9, <2>1, <2>2, <2>3 DEF ChainOK
<1>11. /\ q1 \in Seq(Tasks) /\ IsInjective(q1)
       /\ Range(q1) = IF canRun THEN Range(q) \cup {cpu} ELSE Range(q)
  <2>1. /\ Append(q, cpu) \in Seq(Tasks) /\ IsInjective(Append(q, cpu))
        /\ Range(Append(q, cpu)) = Range(q) \cup {cpu}
    BY <1>1, RangeAppend
  <2> QED BY <2>1
<1>12. /\ st1 \in [Tasks -> {"unborn", "Ready", "Running", "Blocked", "Dead", "freed"}]
       /\ \A t \in Tasks : st1[t] = IF t = cpu /\ canRun THEN "Ready" ELSE st[t]
  BY <1>1
<1> HIDE DEF q1, st1
<1>13. ASSUME NEW t \in Tasks PROVE t \in Range(q1) <=> st1[t] = "Ready"
  <2>1. CASE t = cpu
    BY <2>1, <1>11, <1>12
  <2>2. CASE t # cpu
    <3>1. t \in Range(q) <=> st[t] = "Ready"
      BY <2>2
    <3> QED BY <3>1, <2>2, <1>11, <1>12
  <2> QED BY <2>1, <2>2
<1>14. Range(q1) \cap Range(woken) = {}
  <2>1. \A t \in io : t \in Tasks /\ st1[t] # "Ready"
    BY <1>12
  <2> QED BY <2>1, <1>5, <1>13
<1>15. /\ runQueue' \in Seq(Tasks) /\ IsInjective(runQueue')
       /\ Range(runQueue') = Range(q1) \cup Range(woken)
  BY <1>3, <1>5, <1>11, <1>14, RangeConcat, InjectiveConcat
<1>16. \A t \in Tasks : state'[t] = IF t \in Range(woken) THEN "Ready" ELSE st1[t]
  BY <1>3
<1>17. QueueOK'
  <2>1. \A t \in Tasks : t \in Range(runQueue') <=> state'[t] = "Ready"
    BY <1>13, <1>15, <1>16
  <2>2. ASSUME NEW t \in Tasks
        PROVE  state'[t] = "Running" <=> \E e \in Driving' : frame'[e].task = t
    <3>1. CASE t = cpu
      <4>1. state'[t] # "Running"
        BY <3>1, <1>12, <1>16
      <4>2. \A e \in Driving' : frame'[e].task # cpu
        BY <1>1, <1>8 DEF IInv, ChainOK
      <4> QED BY <3>1, <4>1, <4>2
    <3>2. CASE t # cpu
      <4>1. state'[t] = "Running" <=> state[t] = "Running"
        <5>1. st[t] = "Running" <=> state[t] = "Running"
          BY <3>2
        <5>2. t \in Range(woken) => st[t] = "Blocked"
          BY <1>5
        <5>3. st1[t] = st[t]
          BY <3>2, <1>12
        <5> QED BY <5>1, <5>2, <5>3, <1>16
      <4>2. state[t] = "Running" <=> \E e \in Driving : frame[e].task = t
        BY DEF IInv, QueueOK
      <4> QED BY <3>2, <4>1, <4>2, <1>1, <1>7, <1>8
    <3> QED BY <3>1, <3>2
  <2> QED BY <2>1, <2>2, <1>15 DEF QueueOK
<1>18. tick' \in 0..PollInterval - 1
  <2>1. tick \in Nat /\ PollInterval \in Nat \ {0} /\ tick \in 0..PollInterval - 1
    BY NumbersAssumption DEF IInv, TypeOK
  <2>2. (tick + 1) % PollInterval \in 0..PollInterval - 1
    BY <2>1
  <2> QED BY <2>1, <2>2, <1>4 DEF NextTick
<1>19. frame' \in [Agents -> [task : Tasks \cup {None}, current : Tasks \cup {None},
                             ctx : Agents \cup {None}]]
  BY <1>4 DEF IInv, TypeOK, NoFrame
<1>20. current' \in Tasks \cup {None} /\ schCtx' \in Agents \cup {None} /\ cpu' \in Agents
  BY <1>1, <1>4 DEF RestoredCtx
<1>21. state' \in [Tasks -> {"unborn", "Ready", "Running", "Blocked", "Dead", "freed"}]
  BY <1>3, <1>12
<1>22. ioWait' \subseteq io
  BY <1>3
<1>23. \A t \in io : state'[t] = IF t \in ioWait' THEN "Blocked" ELSE "Ready"
  BY <1>3, <1>12, <1>16
<1>24. \A t \in Tasks \ io : state'[t] = IF t = cpu /\ st[t] = "Running" THEN "Ready"
                                        ELSE st[t]
  BY <1>5, <1>12, <1>16
<1> QED BY <1>10, <1>15, <1>17, <1>18, <1>19, <1>20, <1>21, <1>22, <1>23, <1>24 DEF Switched

----------------------------------------------------------------------------
(* What a step leaves of the other parts of the invariant.                 *)

LEMMA ChainKept ==
  ASSUME IInv, UNCHANGED <<cpu, frame, current, schCtx>>
  PROVE  ChainOK'
<1>1. Driving' = Driving
  BY DEF Driving
<1> QED BY <1>1 DEF IInv, ChainOK, ChainSound

LEMMA QueueKept ==
  ASSUME IInv, UNCHANGED <<runQueue, frame>>,
         \A t \in Tasks : state'[t] = "Ready" <=> state[t] = "Ready",
         \A t \in Tasks : state'[t] = "Running" <=> state[t] = "Running"
  PROVE  QueueOK'
<1>1. Driving' = Driving
  BY DEF Driving
<1> QED BY <1>1 DEF IInv, QueueOK

\* The lists when the tasks in P park and those in W are woken.
LEMMA ParkStep ==
  ASSUME IInv, NEW P \in SUBSET Tasks, NEW W \in SUBSET Tasks,
         ioWait' \subseteq Tasks,
         \A u \in Tasks : Range(waiters'[u]) \subseteq Tasks /\ IsInjective(waiters'[u]),
         \A c \in Chans : /\ Range(chan'[c].senders) \subseteq Agents
                          /\ Range(chan'[c].receivers) \subseteq Agents
                          /\ IsInjective(chan'[c].senders)
                          /\ IsInjective(chan'[c].receivers),
         \A t \in Tasks : state'[t] = "Blocked" <=>
                            (state[t] = "Blocked" \/ t \in P) /\ t \notin W,
         \A t \in Tasks : state[t] = "Blocked" => pc'[t] = pc[t],
         \A t \in P : state[t] # "Blocked",
         \A t \in Tasks \ P : t \in ioWait' <=> t \in ioWait /\ t \notin W,
         \A u \in Tasks : \A t \in Tasks \ P :
           t \in Range(waiters'[u]) <=> t \in Range(waiters[u]) /\ t \notin W,
         \A c \in Chans : \A t \in Tasks \ P :
           t \in Range(chan'[c].senders) <=> t \in Range(chan[c].senders) /\ t \notin W,
         \A c \in Chans : \A t \in Tasks \ P :
           t \in Range(chan'[c].receivers) <=> t \in Range(chan[c].receivers) /\ t \notin W,
         \A t \in P : Waits(t)' <=> t \notin W,
         \A t \in P : t \in ioWait' => pc'[t] = <<"read", None>>,
         \A t \in P : \A u \in Tasks : t \in Range(waiters'[u]) => pc'[t] = <<"awaited", u>>,
         \A t \in P : \A c \in Chans :
           /\ t \in Range(chan'[c].senders) => pc'[t] = <<"send", c>>
           /\ t \in Range(chan'[c].receivers) => pc'[t] \in {<<"recv", c>>, <<"timed", c>>}
  PROVE  ParkOK'
<1>1. ASSUME NEW t \in Tasks PROVE state'[t] = "Blocked" <=> Waits(t)'
  <2>1. CASE t \in P
    BY <2>1
  <2>2. CASE t \notin P
    <3>1. Waits(t)' <=> Waits(t) /\ t \notin W
      BY <2>2 DEF Waits
    <3>2. state[t] = "Blocked" <=> Waits(t)
      BY DEF IInv, ParkOK
    <3> QED BY <2>2, <3>1, <3>2
  <2> QED BY <2>1, <2>2
<1>2. ASSUME NEW t \in Tasks \ P, Waits(t) PROVE pc'[t] = pc[t]
  BY <1>2 DEF IInv, ParkOK
<1>3. \A t \in ioWait' : pc'[t] = <<"read", None>>
  BY <1>2 DEF IInv, ParkOK, Waits
<1>4. ASSUME NEW u \in Tasks, NEW t \in Range(waiters'[u]) PROVE pc'[t] = <<"awaited", u>>
  BY <1>2, <1>4 DEF IInv, ParkOK, Waits
<1>5. ASSUME NEW c \in Chans, NEW t \in Range(chan'[c].senders) \ {Main}
      PROVE  pc'[t] = <<"send", c>>
  BY <1>2, <1>5, Names DEF IInv, ParkOK, Waits
<1>6. ASSUME NEW c \in Chans, NEW t \in Range(chan'[c].receivers) \ {Main}
      PROVE  pc'[t] \in {<<"recv", c>>, <<"timed", c>>}
  BY <1>2, <1>6, Names DEF IInv, ParkOK, Waits
<1>7. /\ \A c \in Chans : IsInjective(chan'[c].senders) /\ IsInjective(chan'[c].receivers)
      /\ \A u \in Tasks : IsInjective(waiters'[u])
  OBVIOUS
<1> QED BY <1>1, <1>3, <1>4, <1>5, <1>6, <1>7 DEF ParkOK

\* The lists hold tasks, of the type their variables have.
LEMMA ListTypes ==
  ASSUME IInv
  PROVE  /\ ioWait \subseteq Tasks
         /\ \A u \in Tasks : /\ waiters[u] \in Seq(Tasks) /\ IsInjective(waiters[u])
                             /\ Range(waiters[u]) \subseteq Tasks
         /\ \A c \in Chans :
              /\ chan[c].senders \in Seq(Agents) /\ IsInjective(chan[c].senders)
              /\ chan[c].receivers \in Seq(Agents) /\ IsInjective(chan[c].receivers)
              /\ Range(chan[c].senders) \subseteq Agents
              /\ Range(chan[c].receivers) \subseteq Agents
              /\ chan[c].count \in 0..Bound
<1>1. /\ ioWait \subseteq Tasks
      /\ \A u \in Tasks : waiters[u] \in Seq(Tasks) /\ IsInjective(waiters[u])
      /\ \A c \in Chans :
           /\ chan[c].senders \in Seq(Agents) /\ IsInjective(chan[c].senders)
           /\ chan[c].receivers \in Seq(Agents) /\ IsInjective(chan[c].receivers)
           /\ chan[c].count \in 0..Bound
  BY DEF IInv, TypeOK, ParkOK
<1>2. ASSUME NEW S, NEW s \in Seq(S) PROVE Range(s) \subseteq S
  BY DEF Range
<1> QED BY <1>1, <1>2

\* A task that is not blocked is on no list.
LEMMA OffLists ==
  ASSUME IInv, NEW t \in Tasks, state[t] # "Blocked"
  PROVE  /\ t \notin ioWait
         /\ \A u \in Tasks : t \notin Range(waiters[u])
         /\ \A c \in Chans : t \notin Range(chan[c].senders) /\ t \notin Range(chan[c].receivers)
BY DEF IInv, ParkOK, Waits

\* A task that waits for its fd is on no other list.
LEMMA ReaderOnly ==
  ASSUME IInv, NEW t \in ioWait
  PROVE  /\ t \in Tasks /\ pc[t] = <<"read", None>>
         /\ \A u \in Tasks : t \notin Range(waiters[u])
         /\ \A c \in Chans : t \notin Range(chan[c].senders)
                             /\ t \notin Range(chan[c].receivers)
<1>1. t \in Tasks /\ t # Main /\ pc[t] = <<"read", None>>
  BY ListTypes, Names DEF IInv, ParkOK
<1> QED BY <1>1 DEF IInv, ParkOK

\* Nobody parks on a channel or for a task; a poll may wake some readers.
LEMMA ParkKept ==
  ASSUME IInv, ioWait' \subseteq ioWait, UNCHANGED waiters,
         \A c \in Chans : /\ chan'[c].senders = chan[c].senders
                          /\ chan'[c].receivers = chan[c].receivers,
         \A t \in Tasks : state'[t] = "Blocked" <=>
                            state[t] = "Blocked" /\ t \notin ioWait \ ioWait',
         \A t \in Tasks : state[t] = "Blocked" => pc'[t] = pc[t]
  PROVE  ParkOK'
<1> DEFINE W == ioWait \ ioWait'
<1>1. ASSUME NEW t \in W
      PROVE  /\ t \in Tasks
             /\ \A u \in Tasks : t \notin Range(waiters[u])
             /\ \A c \in Chans : t \notin Range(chan[c].senders)
                                 /\ t \notin Range(chan[c].receivers)
  BY ReaderOnly
<1> DEFINE P == {}
<1>2. P \in SUBSET Tasks /\ W \in SUBSET Tasks /\ ioWait' \subseteq Tasks
  BY <1>1, ListTypes
<1>3. \A t \in Tasks : state'[t] = "Blocked" <=> (state[t] = "Blocked" \/ t \in P) /\ t \notin W
  OBVIOUS
<1>4. /\ \A t \in Tasks \ P : t \in ioWait' <=> t \in ioWait /\ t \notin W
      /\ \A u \in Tasks : \A t \in Tasks \ P :
           t \in Range(waiters'[u]) <=> t \in Range(waiters[u]) /\ t \notin W
      /\ \A c \in Chans : \A t \in Tasks \ P :
           /\ t \in Range(chan'[c].senders) <=> t \in Range(chan[c].senders) /\ t \notin W
           /\ t \in Range(chan'[c].receivers) <=> t \in Range(chan[c].receivers) /\ t \notin W
  BY <1>1
<1>5. /\ \A u \in Tasks : Range(waiters'[u]) \subseteq Tasks /\ IsInjective(waiters'[u])
      /\ \A c \in Chans : /\ Range(chan'[c].senders) \subseteq Agents
                          /\ Range(chan'[c].receivers) \subseteq Agents
                          /\ IsInjective(chan'[c].senders)
                          /\ IsInjective(chan'[c].receivers)
  BY ListTypes
<1>6. \A t \in P : FALSE
  OBVIOUS
<1> HIDE DEF W, P
<1> QED BY <1>2, <1>3, <1>4, <1>5, <1>6, ParkStep

\* Main's place is kept; a wake takes it off the list it was on.
LEMMA MainKept ==
  ASSUME IInv, pc'[Main] = pc[Main],
         \A c \in Chans :
           /\ Main \in Range(chan'[c].senders) => Main \in Range(chan[c].senders)
           /\ Main \in Range(chan'[c].receivers) => Main \in Range(chan[c].receivers),
         notified' => \/ notified
                      \/ \A c \in Chans :
                           Main \in Range(chan'[c].senders) \cup Range(chan'[c].receivers)
                             => pc[Main][1] = "panics"
  PROVE  MainOK'
<1>1. pc'[Main] # <<"drain", TRUE>> /\ pc'[Main][1] # "awaited"
  BY DEF IInv, MainOK
<1>2. ASSUME NEW c \in Chans, Main \in Range(chan'[c].senders)
      PROVE  ~notified' /\ pc'[Main] = <<"sendParked", c>>
  BY <1>2 DEF IInv, MainOK
<1>3. ASSUME NEW c \in Chans, Main \in Range(chan'[c].receivers)
      PROVE  /\ pc'[Main] \in {<<"panics", None>>} \cup
                  ({"recvParked", "timedParked", "timedRan", "expired"} \X {c})
             /\ pc'[Main][1] \in {"recvParked", "timedParked", "timedRan"} => ~notified'
  BY <1>3 DEF IInv, MainOK
<1> QED BY <1>1, <1>2, <1>3 DEF MainOK

\* Main is on no list while it calls.
LEMMA MainOffLists ==
  ASSUME IInv, pc[Main][1] \in {"code", "send", "recv", "timed", "select", "read", "drain",
                                "await", "awaited"}
  PROVE  \A c \in Chans : Main \notin Range(chan[c].senders)
                          /\ Main \notin Range(chan[c].receivers)
BY DEF IInv, MainOK

\* Nobody takes a handle, and no task that somebody waits for comes to be freed.
LEMMA AwaitKept ==
  ASSUME IInv,
         \A a \in Agents : pc'[a] = pc[a] \/ pc'[a][1] \notin {"await", "awaited"},
         \A t \in Tasks : state'[t] \in {"unborn", "freed"} => state[t] \in {"unborn", "freed"},
         \A t \in Tasks : state[t] = "Dead" => state'[t] = "Dead",
         \A t \in Tasks : state'[t] \in {"Dead", "freed"} => waiters'[t] = <<>>,
         \A a \in Tasks :
           pc'[a] = pc[a] /\ pc[a][1] = "awaited" /\ state[a] = "Blocked"
             /\ state'[a] # "Blocked" => state'[pc[a][2]] = "Dead"
  PROVE  AwaitOK'
<1>1. \A a \in Agents : /\ pc[a] \in Nodes
                        /\ pc[a][1] \in {"await", "awaited"} => pc[a][2] \in Tasks
  BY NodeParts DEF IInv, TypeOK
<1>2. \A a, b \in Agents :
        pc'[a][1] \in {"await", "awaited"} /\ pc'[b][1] \in {"await", "awaited"}
          /\ pc'[a][2] = pc'[b][2] => a = b
  BY DEF IInv, AwaitOK
<1>3. \A a \in Agents :
        pc'[a][1] \in {"await", "awaited"} =>
          pc'[a][2] # a /\ state'[pc'[a][2]] \notin {"unborn", "freed"}
  BY <1>1 DEF IInv, AwaitOK
<1>4. ASSUME NEW a \in Tasks, pc'[a][1] = "awaited", state'[a] # "Blocked"
      PROVE  state'[pc'[a][2]] = "Dead"
  <2>1. pc'[a] = pc[a] /\ a \in Agents
    BY <1>4, Names
  <2>2. CASE state[a] = "Blocked"
    BY <2>1, <2>2, <1>4
  <2>3. CASE state[a] # "Blocked"
    BY <2>1, <2>3, <1>1, <1>4 DEF IInv, AwaitOK
  <2> QED BY <2>2, <2>3
<1> QED BY <1>2, <1>3, <1>4 DEF AwaitOK

\* The same where no task dies, is born or freed, and none stops being blocked.
LEMMA AwaitUnmoved ==
  ASSUME IInv, UNCHANGED waiters,
         \A a \in Agents : pc'[a] = pc[a] \/ pc'[a][1] \notin {"await", "awaited"},
         \A t \in Tasks : state'[t] \in {"Dead", "unborn", "freed"} => state'[t] = state[t],
         \A t \in Tasks : state[t] \in {"Blocked", "Dead"} => state'[t] = state[t]
  PROVE  AwaitOK'
<1>1. \A t \in Tasks : state[t] \in {"Dead", "freed"} => waiters[t] = <<>>
  BY DEF IInv, AwaitOK
<1>2. /\ \A t \in Tasks : state'[t] \in {"unborn", "freed"} => state[t] \in {"unborn", "freed"}
      /\ \A t \in Tasks : state[t] = "Dead" => state'[t] = "Dead"
      /\ \A t \in Tasks : state'[t] \in {"Dead", "freed"} => waiters'[t] = <<>>
  BY <1>1
<1>3. \A a \in Tasks :
           pc'[a] = pc[a] /\ pc[a][1] = "awaited" /\ state[a] = "Blocked"
             /\ state'[a] # "Blocked" => state'[pc[a][2]] = "Dead"
  OBVIOUS
<1> QED BY <1>2, <1>3, AwaitKept

----------------------------------------------------------------------------
(* Whole steps, by what they do to the scheduler.                          *)

\* The agent on the CPU goes on to another place.
LEMMA MoveStep ==
  ASSUME IInv, NEW a \in Agents, cpu = a, NEW n \in Nodes,
         n[1] \notin {"await", "awaited"}, pc' = [pc EXCEPT ![a] = n],
         UNCHANGED <<cpu, sched, runQueue, ioWait, state, outcome, waiters, parent, notified,
                     halted>>,
         left' \in [Agents -> Nat], readable' \subseteq Agents,
         chan' \in [Chans -> [count : 0..Bound, closed : BOOLEAN, poisoned : BOOLEAN,
                              senders : Seq(Agents), receivers : Seq(Agents)]],
         \A c \in Chans : /\ chan'[c].senders = chan[c].senders
                          /\ chan'[c].receivers = chan[c].receivers,
         MainOK'
  PROVE  IInv'
<1>1. TypeOK'
  BY DEF IInv, TypeOK, sched
<1>2. ChainOK' /\ QueueOK'
  BY ChainKept, QueueKept DEF sched
<1>3. /\ pc'[a] = n
      /\ \A b \in Agents : b # a => pc'[b] = pc[b]
  BY DEF IInv, TypeOK
<1>4. ParkOK'
  <2>1. \A t \in Tasks : state[t] = "Blocked" => pc'[t] = pc[t]
    BY <1>3, CpuFact, Names
  <2> QED BY <2>1, ParkKept
<1>5. AwaitOK'
  <2>1. \A t \in Tasks : state[t] \in {"Dead", "freed"} => waiters[t] = <<>>
    BY DEF IInv, AwaitOK
  <2>2. \A b \in Agents : pc'[b] = pc[b] \/ pc'[b][1] \notin {"await", "awaited"}
    BY <1>3
  <2>3. UNCHANGED <<state, waiters>>
    OBVIOUS
  <2> QED BY <2>1, <2>2, <2>3, AwaitUnmoved
<1>6. HaltOK'
  BY DEF IInv, HaltOK, sched
<1> QED BY <1>1, <1>2, <1>4, <1>5, <1>6 DEF IInv

\* Main is on no list before the step, so it may go anywhere.
LEMMA MainMoves ==
  ASSUME IInv, NEW a \in Agents, NEW n \in Nodes, pc' = [pc EXCEPT ![a] = n],
         pc[a][1] \in {"code", "send", "recv", "timed", "select", "read", "drain", "await",
                       "awaited"},
         n[1] # "awaited", a = Main => n # <<"drain", TRUE>>,
         \A c \in Chans : /\ chan'[c].senders = chan[c].senders
                          /\ chan'[c].receivers = chan[c].receivers,
         UNCHANGED notified
  PROVE  MainOK'
<1>1. /\ pc'[a] = n
      /\ \A b \in Agents : b # a => pc'[b] = pc[b]
  BY DEF IInv, TypeOK
<1>2. CASE a = Main
  BY <1>1, <1>2, MainOffLists DEF MainOK
<1>3. CASE a # Main
  BY <1>1, <1>3, Names, MainKept
<1> QED BY <1>2, <1>3

\* The first half of run_one leaves everything but the queue and the chain.
LEMMA DispatchKeeps ==
  ASSUME IInv, NEW d \in Agents, cpu = d, Dispatch(d),
         pc' \in [Agents -> Nodes], \A a \in Tasks : pc'[a] = pc[a],
         pc'[Main] = pc[Main] \/ pc'[Main][1] \notin {"await", "awaited"},
         halted = "no", MainOK'
  PROVE  IInv'
<1>1. UNCHANGED <<left, tick, ioWait, readable, outcome, waiters, parent, chan, notified,
                  halted>>
  BY DEF Dispatch
<1>2. /\ ChainOK' /\ QueueOK'
      /\ cpu' \in Agents
      /\ frame' \in [Agents -> [task : Tasks \cup {None}, current : Tasks \cup {None},
                                ctx : Agents \cup {None}]]
      /\ current' \in Tasks \cup {None} /\ schCtx' \in Agents \cup {None}
      /\ runQueue' \in Seq(Tasks)
      /\ state' \in [Tasks -> {"unborn", "Ready", "Running", "Blocked", "Dead", "freed"}]
      /\ \A u \in Tasks : \/ state'[u] = state[u]
                          \/ state[u] = "Ready" /\ state'[u] = "Running"
  BY DispatchStep
<1>3. TypeOK'
  BY <1>1, <1>2 DEF IInv, TypeOK
<1>4. ParkOK'
  BY <1>1, <1>2, ParkKept
<1>5. AwaitOK'
  <2>1. \A t \in Tasks : state[t] \in {"Dead", "freed"} => waiters[t] = <<>>
    BY DEF IInv, AwaitOK
  <2>2. \A a \in Agents : pc'[a] = pc[a] \/ pc'[a][1] \notin {"await", "awaited"}
    BY Names
  <2>3. \A t \in Tasks : state'[t] \in {"Blocked", "Dead", "unborn", "freed"} => state'[t] = state[t]
    BY <1>2
  <2>4. \A t \in Tasks : state[t] \in {"Blocked", "Dead"} => state'[t] = state[t]
    BY <1>2
  <2>5. UNCHANGED waiters
    BY <1>1
  <2> QED BY <2>1, <2>2, <2>3, <2>4, <2>5, AwaitUnmoved
<1>6. HaltOK'
  BY <1>1 DEF HaltOK
<1> QED BY <1>2, <1>3, <1>4, <1>5, <1>6 DEF IInv

\* A dispatch after which the dispatcher is where it was.
LEMMA DispatchStays ==
  ASSUME IInv, NEW d \in Agents, cpu = d, Dispatch(d), UNCHANGED pc, halted = "no"
  PROVE  IInv'
<1>1. UNCHANGED <<chan, notified>>
  BY DEF Dispatch
<1>2. MainOK'
  BY <1>1, MainKept
<1>3. pc \in [Agents -> Nodes] /\ \A a \in Tasks : pc'[a] = pc[a]
  BY DEF IInv, TypeOK
<1> QED BY <1>2, <1>3, DispatchKeeps

\* A poll of the driver wakes tasks that wait for their fd.
LEMMA PollStep ==
  ASSUME IInv, PollWakes, halted = "no",
         UNCHANGED <<cpu, pc, left, sched, readable, outcome, waiters, parent, chan, halted>>
  PROVE  IInv'
<1>1. PICK woken \in Orders(ioWait \cap readable) :
        Wake(woken) /\ ioWait' = ioWait \ Range(woken)
  BY DEF PollWakes
<1>2. woken \in Seq(Tasks) /\ IsInjective(woken) /\ Range(woken) \subseteq ioWait
  <2>1. ioWait \cap readable \subseteq Tasks
    BY ListTypes
  <2> QED BY <2>1, OrdersFact
<1>3. woken \in Seq(Agents)
  BY <1>2, Names, SeqMonotonic
<1>4. \A t \in Tasks : t \in Range(woken) => state[t] = "Blocked"
  BY <1>2 DEF IInv, ParkOK, Waits
<1>5. Main \notin Range(woken)
  BY <1>2, ListTypes, Names
<1>6. /\ QueueOK'
      /\ runQueue' \in Seq(Tasks)
      /\ state' \in [Tasks -> {"unborn", "Ready", "Running", "Blocked", "Dead", "freed"}]
      /\ \A t \in Tasks : state'[t] = IF t \in Range(woken) THEN "Ready" ELSE state[t]
      /\ notified' = (notified \/ Main \in Range(woken)) /\ notified' \in BOOLEAN
  <2>1. UNCHANGED frame
    BY DEF sched
  <2> QED BY <2>1, <1>1, <1>2, <1>3, <1>4, WakeStep
<1>7. TypeOK'
  BY <1>1, <1>6 DEF IInv, TypeOK, sched
<1>8. ChainOK'
  BY ChainKept DEF sched
<1>9. ParkOK'
  <2>1. \A t \in Tasks : state'[t] = "Blocked" <=>
                           state[t] = "Blocked" /\ t \notin ioWait \ ioWait'
    BY <1>1, <1>2, <1>6
  <2> QED BY <2>1, <1>1, ParkKept
<1>10. MainOK'
  BY <1>5, <1>6, MainKept
<1>11. AwaitOK'
  <2>1. \A t \in Tasks : state[t] \in {"Dead", "freed"} => waiters[t] = <<>>
    BY DEF IInv, AwaitOK
  <2>2. \A t \in Tasks : t \in Range(woken) => pc[t][1] # "awaited"
    BY <1>2 DEF IInv, ParkOK
  <2>3. \A t \in Tasks : state[t] = "Blocked" /\ state'[t] # "Blocked" => pc[t][1] # "awaited"
    BY <2>2, <1>6
  <2>4. /\ \A a \in Agents : pc'[a] = pc[a] \/ pc'[a][1] \notin {"await", "awaited"}
        /\ \A t \in Tasks : state'[t] \in {"unborn", "freed"} => state[t] \in {"unborn", "freed"}
        /\ \A t \in Tasks : state[t] = "Dead" => state'[t] = "Dead"
        /\ \A t \in Tasks : state'[t] \in {"Dead", "freed"} => waiters'[t] = <<>>
    BY <2>1, <1>4, <1>6
  <2>5. \A a \in Tasks :
           pc'[a] = pc[a] /\ pc[a][1] = "awaited" /\ state[a] = "Blocked"
             /\ state'[a] # "Blocked" => state'[pc[a][2]] = "Dead"
    BY <2>3
  <2> QED BY <2>4, <2>5, AwaitKept
<1>12. HaltOK'
  BY DEF HaltOK
<1> QED BY <1>6, <1>7, <1>8, <1>9, <1>10, <1>11, <1>12 DEF IInv

\* Agents parked on one channel are taken off its lists and woken.
LEMMA ChannelWakes ==
  ASSUME IInv, halted = "no", NEW a \in Agents, cpu = a,
         pc[a][1] \in {"code", "send", "recv", "timed", "select"},
         pc' = [pc EXCEPT ![a] = Code], left' \in [Agents -> Nat],
         NEW c \in Chans,
         NEW r \in [count : 0..Bound, closed : BOOLEAN, poisoned : BOOLEAN,
                    senders : Seq(Agents), receivers : Seq(Agents)],
         chan' = [chan EXCEPT ![c] = r], IsInjective(r.senders), IsInjective(r.receivers),
         NEW S, NEW R,
         Range(chan[c].senders) = Range(r.senders) \cup S, Range(r.senders) \cap S = {},
         Range(chan[c].receivers) = Range(r.receivers) \cup R, Range(r.receivers) \cap R = {},
         NEW ws \in Seq(Agents), IsInjective(ws), Range(ws) = S \cup R, Wake(ws),
         UNCHANGED <<cpu, sched, ioWait, readable, outcome, waiters, parent, halted>>
  PROVE  IInv'
<1> DEFINE P == {}
           W == Range(ws) \ {Main}
<1>1. /\ pc'[a] = Code /\ pc'[a] \in Nodes
      /\ \A b \in Agents : b # a => pc'[b] = pc[b]
      /\ pc' \in [Agents -> Nodes]
  BY NodesMade DEF IInv, TypeOK
<1>2. /\ chan'[c] = r
      /\ \A e \in Chans : e # c => chan'[e] = chan[e]
      /\ chan' \in [Chans -> [count : 0..Bound, closed : BOOLEAN, poisoned : BOOLEAN,
                              senders : Seq(Agents), receivers : Seq(Agents)]]
  BY DEF IInv, TypeOK
<1>3. /\ r.senders \in Seq(Agents) /\ r.receivers \in Seq(Agents)
      /\ Range(r.senders) \subseteq Range(chan[c].senders)
      /\ Range(r.receivers) \subseteq Range(chan[c].receivers)
  OBVIOUS
<1>4. Range(ws) \subseteq Agents /\ W \subseteq Tasks
  <2>1. Range(ws) \subseteq Agents
    BY ListTypes
  <2> QED BY <2>1, Names
<1>5. ASSUME NEW t \in W
      PROVE  /\ t \in Tasks /\ t \notin ioWait
             /\ \A u \in Tasks : t \notin Range(waiters[u])
             /\ \A e \in Chans : e # c => /\ t \notin Range(chan[e].senders)
                                          /\ t \notin Range(chan[e].receivers)
             /\ t \notin Range(r.senders) /\ t \notin Range(r.receivers)
             /\ state[t] = "Blocked" /\ pc[t][1] # "awaited"
  <2>1. t \in Tasks /\ t # Main
    BY <1>4
  <2>2. CASE t \in S
    <3>1. t \in Range(chan[c].senders) \ {Main} /\ t \notin Range(r.senders)
      BY <2>1, <2>2
    <3>2. pc[t] = <<"send", c>> /\ state[t] = "Blocked"
      BY <2>1, <3>1 DEF IInv, ParkOK, Waits
    <3>3. \A e \in Chans : /\ t \notin Range(chan[e].receivers)
                           /\ e # c => t \notin Range(chan[e].senders)
      BY <2>1, <3>2 DEF IInv, ParkOK
    <3>4. t \notin ioWait /\ \A u \in Tasks : t \notin Range(waiters[u])
      BY <2>1, <3>2 DEF IInv, ParkOK
    <3> QED BY <2>1, <3>1, <3>2, <3>3, <3>4, <1>3
  <2>3. CASE t \in R
    <3>1. t \in Range(chan[c].receivers) \ {Main} /\ t \notin Range(r.receivers)
      BY <2>1, <2>3
    <3>2. pc[t] \in {<<"recv", c>>, <<"timed", c>>} /\ state[t] = "Blocked"
      BY <2>1, <3>1 DEF IInv, ParkOK, Waits
    <3> QED BY <2>1, <3>1, <3>2, <1>3 DEF IInv, ParkOK
  <2> QED BY <2>2, <2>3
<1>6. /\ QueueOK'
      /\ runQueue' \in Seq(Tasks)
      /\ state' \in [Tasks -> {"unborn", "Ready", "Running", "Blocked", "Dead", "freed"}]
      /\ \A t \in Tasks : state'[t] = IF t \in Range(ws) THEN "Ready" ELSE state[t]
      /\ notified' = (notified \/ Main \in Range(ws)) /\ notified' \in BOOLEAN
  <2>1. UNCHANGED frame
    BY DEF sched
  <2>2. \A t \in Tasks : t \in Range(ws) => state[t] = "Blocked"
    BY <1>5, Names
  <2> QED BY <2>1, <2>2, WakeStep
<1>7. TypeOK'
  BY <1>1, <1>2, <1>6 DEF IInv, TypeOK, sched
<1>8. ChainOK'
  BY ChainKept DEF sched
<1>9. ParkOK'
  <2>1. P \in SUBSET Tasks /\ W \in SUBSET Tasks /\ ioWait' \subseteq Tasks
    BY <1>4, ListTypes
  <2>2. \A t \in Tasks : state'[t] = "Blocked" <=> (state[t] = "Blocked" \/ t \in P) /\ t \notin W
    BY <1>6, Names
  <2>3. \A t \in Tasks : state[t] = "Blocked" => pc'[t] = pc[t]
    BY <1>1, CpuFact, Names
  <2>4. /\ \A t \in Tasks \ P : t \in ioWait' <=> t \in ioWait /\ t \notin W
        /\ \A u \in Tasks : \A t \in Tasks \ P :
             t \in Range(waiters'[u]) <=> t \in Range(waiters[u]) /\ t \notin W
    BY <1>5
  <2>5. \A e \in Chans : \A t \in Tasks \ P :
          t \in Range(chan'[e].senders) <=> t \in Range(chan[e].senders) /\ t \notin W
    BY <1>2, <1>5, Names
  <2>6. \A e \in Chans : \A t \in Tasks \ P :
          t \in Range(chan'[e].receivers) <=> t \in Range(chan[e].receivers) /\ t \notin W
    BY <1>2, <1>5, Names
  <2>7. /\ \A u \in Tasks : Range(waiters'[u]) \subseteq Tasks /\ IsInjective(waiters'[u])
        /\ \A e \in Chans : /\ Range(chan'[e].senders) \subseteq Agents
                            /\ Range(chan'[e].receivers) \subseteq Agents
                            /\ IsInjective(chan'[e].senders)
                            /\ IsInjective(chan'[e].receivers)
    BY <1>2, <1>3, ListTypes
  <2>8. \A t \in P : FALSE
    OBVIOUS
  <2> HIDE DEF W, P
  <2> QED BY <2>1, <2>2, <2>3, <2>4, <2>5, <2>6, <2>7, <2>8, ParkStep
<1>10. MainOK'
  <2>1. \A e \in Chans :
          /\ Main \in Range(chan'[e].senders) => Main \in Range(chan[e].senders)
          /\ Main \in Range(chan'[e].receivers) => Main \in Range(chan[e].receivers)
    BY <1>2, <1>3
  <2>2. CASE a = Main
    <3>1. \A e \in Chans : /\ Main \notin Range(chan'[e].senders)
                           /\ Main \notin Range(chan'[e].receivers)
      BY <2>1, <2>2, MainOffLists
    <3>2. pc'[Main] = Code
      BY <2>2, <1>1
    <3>3. Code # <<"drain", TRUE>> /\ Code[1] # "awaited"
      BY DEF Code
    <3> QED BY <3>1, <3>2, <3>3 DEF MainOK
  <2>3. CASE a # Main
    <3>1. pc'[Main] = pc[Main]
      BY <2>3, <1>1, Names
    <3>2. ASSUME Main \in Range(ws), NEW e \in Chans,
                 Main \in Range(chan'[e].senders) \cup Range(chan'[e].receivers)
          PROVE  pc[Main][1] = "panics"
      <4>1. Main \in Range(chan[e].senders) \cup Range(chan[e].receivers)
        BY <3>2, <2>1
      <4>2. CASE Main \in S
        <5>1. pc[Main] = <<"sendParked", c>> /\ Main \notin Range(r.senders)
          BY <4>2 DEF IInv, MainOK
        <5>2. e = c /\ Main \in Range(r.receivers)
          BY <4>1, <5>1, <3>2, <1>2 DEF IInv, MainOK
        <5>3. Main \in Range(chan[c].receivers)
          BY <5>2, <1>3
        <5>4. pc[Main][1] # "sendParked"
          <6>1. pc[Main] \in {<<"panics", None>>} \cup
                  ({"recvParked", "timedParked", "timedRan", "expired"} \X {c})
            BY <5>3 DEF IInv, MainOK
          <6> QED BY <6>1
        <5> QED BY <5>1, <5>4
      <4>3. CASE Main \in R
        <5>1. /\ \/ pc[Main] = <<"panics", None>>
                 \/ pc[Main] \in {"recvParked", "timedParked", "timedRan", "expired"} \X {c}
              /\ Main \notin Range(r.receivers)
          BY <4>3 DEF IInv, MainOK
        <5>2. CASE pc[Main] \in {"recvParked", "timedParked", "timedRan", "expired"} \X {c}
          <6>1. \A f \in Chans : Main \notin Range(chan[f].senders)
            BY <5>2 DEF IInv, MainOK
          <6>2. \A f \in Chans : Main \in Range(chan[f].receivers) => f = c
            BY <5>2 DEF IInv, MainOK
          <6> QED BY <6>1, <6>2, <5>1, <4>1, <3>2, <1>2, <2>1
        <5> QED BY <5>1, <5>2
      <4> QED BY <4>2, <4>3, <3>2
    <3> QED BY <3>1, <3>2, <2>1, <1>6, MainKept
  <2> QED BY <2>2, <2>3
<1>11. AwaitOK'
  <2>1. \A t \in Tasks : state[t] \in {"Dead", "freed"} => waiters[t] = <<>>
    BY DEF IInv, AwaitOK
  <2>2. \A t \in Tasks : t \in Range(ws) => state[t] = "Blocked" /\ pc[t][1] # "awaited"
    BY <1>5, Names
  <2>3. /\ \A b \in Agents : pc'[b] = pc[b] \/ pc'[b][1] \notin {"await", "awaited"}
        /\ \A t \in Tasks : state'[t] \in {"unborn", "freed"} => state[t] \in {"unborn", "freed"}
        /\ \A t \in Tasks : state[t] = "Dead" => state'[t] = "Dead"
        /\ \A t \in Tasks : state'[t] \in {"Dead", "freed"} => waiters'[t] = <<>>
    <3>1. Code[1] = "code"
      BY DEF Code
    <3>2. \A b \in Agents : pc'[b] = pc[b] \/ pc'[b][1] \notin {"await", "awaited"}
      BY <3>1, <1>1
    <3>3. /\ \A t \in Tasks : state'[t] \in {"unborn", "freed", "Dead"} => state'[t] = state[t]
          /\ \A t \in Tasks : state[t] = "Dead" => state'[t] = "Dead"
      BY <2>2, <1>6
    <3> QED BY <2>1, <3>2, <3>3
  <2>4. \A b \in Tasks :
           pc'[b] = pc[b] /\ pc[b][1] = "awaited" /\ state[b] = "Blocked"
             /\ state'[b] # "Blocked" => state'[pc[b][2]] = "Dead"
    BY <2>2, <1>6
  <2> QED BY <2>3, <2>4, AwaitKept
<1>12. HaltOK'
  BY DEF HaltOK
<1> QED BY <1>6, <1>7, <1>8, <1>9, <1>10, <1>11, <1>12 DEF IInv

\* A task on the CPU is in no queue.
LEMMA CpuTask ==
  ASSUME IInv, NEW a \in Tasks, cpu = a
  PROVE  /\ a # Main /\ current = a /\ a \in Agents
         /\ state[a] = "Running" /\ a \notin Range(runQueue)
         /\ state \in [Tasks -> {"unborn", "Ready", "Running", "Blocked", "Dead", "freed"}]
         /\ runQueue \in Seq(Tasks) /\ IsInjective(runQueue)
         /\ \A t \in Tasks : t \in Range(runQueue) <=> state[t] = "Ready"
BY SMTT(30), CpuFact, Names DEF IInv, TypeOK, QueueOK

\* A task leaves the CPU; what it parks on, and whom it wakes, is for the
\* caller to say.
LEMMA SwitchKeeps ==
  ASSUME IInv, halted = "no", cpu # Main,
         NEW st, NEW q, NEW io, Leaves(st, q, io),
         SwitchOut(st, q, io),
         pc' \in [Agents -> Nodes], pc'[Main] = pc[Main],
         UNCHANGED <<left, readable, parent, notified, halted>>,
         outcome' \in [Tasks -> {"Running", "Completed", "Panicked"}],
         waiters' \in [Tasks -> Seq(Tasks)],
         chan' \in [Chans -> [count : 0..Bound, closed : BOOLEAN, poisoned : BOOLEAN,
                              senders : Seq(Agents), receivers : Seq(Agents)]],
         \A c \in Chans :
           /\ Main \in Range(chan'[c].senders) => Main \in Range(chan[c].senders)
           /\ Main \in Range(chan'[c].receivers) => Main \in Range(chan[c].receivers),
         ParkOK', AwaitOK'
  PROVE  IInv'
<1>1. /\ ChainOK' /\ QueueOK'
      /\ cpu' \in Agents
      /\ frame' \in [Agents -> [task : Tasks \cup {None}, current : Tasks \cup {None},
                                ctx : Agents \cup {None}]]
      /\ current' \in Tasks \cup {None} /\ schCtx' \in Agents \cup {None}
      /\ runQueue' \in Seq(Tasks) /\ tick' \in 0..PollInterval - 1
      /\ state' \in [Tasks -> {"unborn", "Ready", "Running", "Blocked", "Dead", "freed"}]
      /\ ioWait' \subseteq io
  BY SwitchStep DEF Switched
<1>2. TypeOK'
  <2>1. /\ left' \in [Agents -> Nat] /\ readable' \subseteq Agents /\ notified' \in BOOLEAN
        /\ parent' \in [Tasks -> Agents \cup {None}] /\ ioWait' \subseteq Tasks
        /\ halted' \in {"no", "exited", "failed", "aborted", "deadlock"}
    BY <1>1 DEF IInv, TypeOK, Leaves
  <2> QED BY <1>1, <2>1 DEF TypeOK
<1>3. MainOK'
  BY MainKept
<1>4. HaltOK'
  BY DEF HaltOK
<1> QED BY <1>1, <1>2, <1>3, <1>4 DEF IInv

\* A task stops on one list, and somebody drives on.
LEMMA BlockStep ==
  ASSUME IInv, halted = "no", NEW a \in Tasks, cpu = a,
         NEW io \in SUBSET Tasks, \A t \in Tasks : t # a => (t \in io <=> t \in ioWait),
         SwitchOut([state EXCEPT ![current] = "Blocked"], runQueue, io),
         UNCHANGED <<left, readable, outcome, parent, notified, halted>>,
         pc' \in [Agents -> Nodes], \A b \in Agents : b # a => pc'[b] = pc[b],
         \/ pc'[a] = pc[a]
         \/ pc[a][1] = "await" /\ pc'[a] = <<"awaited", pc[a][2]>>,
         waiters' \in [Tasks -> Seq(Tasks)],
         chan' \in [Chans -> [count : 0..Bound, closed : BOOLEAN, poisoned : BOOLEAN,
                              senders : Seq(Agents), receivers : Seq(Agents)]],
         \A u \in Tasks : IsInjective(waiters'[u]),
         \A u \in Tasks : \A t \in Tasks :
           t # a => (t \in Range(waiters'[u]) <=> t \in Range(waiters[u])),
         \A u \in Tasks : state[u] \in {"Dead", "freed"} => waiters'[u] = <<>>,
         \A c \in Chans : IsInjective(chan'[c].senders) /\ IsInjective(chan'[c].receivers),
         \A c \in Chans : \A t \in Agents :
           t # a => (t \in Range(chan'[c].senders) <=> t \in Range(chan[c].senders)),
         \A c \in Chans : \A t \in Agents :
           t # a => (t \in Range(chan'[c].receivers) <=> t \in Range(chan[c].receivers)),
         a \in io => pc'[a] = <<"read", None>>,
         \A u \in Tasks : a \in Range(waiters'[u]) => pc'[a] = <<"awaited", u>>,
         \A c \in Chans :
           /\ a \in Range(chan'[c].senders) => pc'[a] = <<"send", c>>
           /\ a \in Range(chan'[c].receivers) => pc'[a] \in {<<"recv", c>>, <<"timed", c>>},
         \/ a \in io
         \/ \E u \in Tasks : a \in Range(waiters'[u])
         \/ \E c \in Chans : a \in Range(chan'[c].senders) \cup Range(chan'[c].receivers)
  PROVE  IInv'
<1> DEFINE st == [state EXCEPT ![current] = "Blocked"]
           P == {a}
           W == io \ ioWait'
<1>1. /\ a # Main /\ current = a /\ a \in Agents
      /\ state[a] = "Running" /\ a \notin Range(runQueue)
      /\ state \in [Tasks -> {"unborn", "Ready", "Running", "Blocked", "Dead", "freed"}]
      /\ runQueue \in Seq(Tasks) /\ IsInjective(runQueue)
      /\ \A t \in Tasks : t \in Range(runQueue) <=> state[t] = "Ready"
  BY CpuTask
<1>2. /\ st \in [Tasks -> {"unborn", "Ready", "Running", "Blocked", "Dead", "freed"}]
      /\ st[a] = "Blocked" /\ \A t \in Tasks : t # a => st[t] = state[t]
  BY <1>1
<1>3. \A t \in io : st[t] = "Blocked"
  BY <1>2 DEF IInv, ParkOK, Waits
<1>4. Leaves(st, runQueue, io) /\ SwitchOut(st, runQueue, io)
  BY <1>1, <1>2, <1>3 DEF Leaves
<1> HIDE DEF st
<1>5. /\ ioWait' \subseteq io
      /\ \A t \in io : state'[t] = IF t \in ioWait' THEN "Blocked" ELSE "Ready"
      /\ \A t \in Tasks \ io : state'[t] = IF t = a /\ st[t] = "Running" THEN "Ready"
                                           ELSE st[t]
  <2>1. Switched(st, io)
    BY <1>1, <1>4, SwitchStep
  <2> QED BY <2>1 DEF Switched
<1>6. /\ \A t \in Tasks : state'[t] = IF t \in W THEN "Ready" ELSE st[t]
  BY <1>2, <1>3, <1>5
<1>7. /\ a \notin ioWait /\ \A u \in Tasks : a \notin Range(waiters[u])
      /\ \A c \in Chans : a \notin Range(chan[c].senders) /\ a \notin Range(chan[c].receivers)
  BY <1>1, OffLists
<1>8. ASSUME NEW t \in W, t # a
      PROVE  /\ t \in Tasks /\ t \in ioWait
             /\ \A u \in Tasks : t \notin Range(waiters[u])
             /\ \A c \in Chans : t \notin Range(chan[c].senders)
                                 /\ t \notin Range(chan[c].receivers)
             /\ pc[t][1] # "awaited" /\ pc'[t] = pc[t]
  <2>1. t \in Tasks /\ t # Main /\ t \in ioWait /\ t \in Agents
    BY <1>8, Names
  <2>2. pc[t] = <<"read", None>>
    BY <2>1 DEF IInv, ParkOK
  <2>3. /\ \A u \in Tasks : t \notin Range(waiters[u])
        /\ \A c \in Chans : t \notin Range(chan[c].senders)
                            /\ t \notin Range(chan[c].receivers)
    BY <2>1, ReaderOnly
  <2>4. pc'[t] = pc[t]
    BY <2>1, <1>8
  <2> QED BY <2>1, <2>2, <2>3, <2>4
<1>9. ParkOK'
  <2>1. P \in SUBSET Tasks /\ W \in SUBSET Tasks /\ ioWait' \subseteq Tasks
    BY <1>1, <1>5
  <2>2. \A t \in Tasks : state'[t] = "Blocked" <=> (state[t] = "Blocked" \/ t \in P) /\ t \notin W
    BY <1>2, <1>6
  <2>3. /\ \A t \in Tasks : state[t] = "Blocked" => pc'[t] = pc[t]
        /\ \A t \in P : state[t] # "Blocked"
    BY <1>1, Names
  <2>4. \A t \in Tasks \ P : t \in ioWait' <=> t \in ioWait /\ t \notin W
    BY <1>5
  <2>5. \A u \in Tasks : \A t \in Tasks \ P :
          t \in Range(waiters'[u]) <=> t \in Range(waiters[u]) /\ t \notin W
    BY <1>8
  <2>6. \A c \in Chans : \A t \in Tasks \ P :
          t \in Range(chan'[c].senders) <=> t \in Range(chan[c].senders) /\ t \notin W
    BY <1>8, Names
  <2>7. \A c \in Chans : \A t \in Tasks \ P :
          t \in Range(chan'[c].receivers) <=> t \in Range(chan[c].receivers) /\ t \notin W
    BY <1>8, Names
  <2>8. /\ \A u \in Tasks : Range(waiters'[u]) \subseteq Tasks /\ IsInjective(waiters'[u])
        /\ \A c \in Chans : /\ Range(chan'[c].senders) \subseteq Agents
                            /\ Range(chan'[c].receivers) \subseteq Agents
                            /\ IsInjective(chan'[c].senders)
                            /\ IsInjective(chan'[c].receivers)
    <3>1. ASSUME NEW X, NEW s \in Seq(X) PROVE Range(s) \subseteq X
      BY DEF Range
    <3>2. \A u \in Tasks : waiters'[u] \in Seq(Tasks)
      OBVIOUS
    <3>3. \A c \in Chans : chan'[c].senders \in Seq(Agents) /\ chan'[c].receivers \in Seq(Agents)
      OBVIOUS
    <3> QED BY <3>1, <3>2, <3>3
  <2>9. Waits(a)' <=> a \notin W
    <3>1. CASE a \in io
      <4>1. pc'[a] = <<"read", None>>
        BY <3>1
      <4>2. /\ \A u \in Tasks : a \notin Range(waiters'[u])
            /\ \A c \in Chans : a \notin Range(chan'[c].senders)
                                /\ a \notin Range(chan'[c].receivers)
        BY <4>1
      <4>3. a \in ioWait' <=> a \notin W
        BY <3>1, <1>5
      <4>4. Waits(a)' <=> a \in ioWait'
        BY <4>2 DEF Waits
      <4> QED BY <4>3, <4>4
    <3>2. CASE a \notin io
      BY <3>2 DEF Waits
    <3> QED BY <3>1, <3>2
  <2>10. /\ \A t \in P : Waits(t)' <=> t \notin W
         /\ \A t \in P : t \in ioWait' => pc'[t] = <<"read", None>>
         /\ \A t \in P : \A u \in Tasks : t \in Range(waiters'[u]) => pc'[t] = <<"awaited", u>>
         /\ \A t \in P : \A c \in Chans :
              /\ t \in Range(chan'[c].senders) => pc'[t] = <<"send", c>>
              /\ t \in Range(chan'[c].receivers) => pc'[t] \in {<<"recv", c>>, <<"timed", c>>}
    BY <2>9, <1>5
  <2> HIDE DEF W, P
  <2> QED BY <2>1, <2>2, <2>3, <2>4, <2>5, <2>6, <2>7, <2>8, <2>10, ParkStep
<1>10. AwaitOK'
  <2>1. \A x \in Agents : /\ pc'[x][1] \in {"await", "awaited"} =>
                               pc[x][1] \in {"await", "awaited"} /\ pc'[x][2] = pc[x][2]
                          /\ x # a => pc'[x] = pc[x]
    OBVIOUS
  <2>2. \A t \in Tasks : /\ state[t] \in {"Dead", "freed", "unborn"} => state'[t] = state[t]
                         /\ state'[t] \in {"Dead", "freed", "unborn"} => state'[t] = state[t]
    <3>1. ASSUME NEW t \in Tasks
          PROVE  \/ state'[t] = state[t]
                 \/ /\ state'[t] \in {"Ready", "Blocked"}
                    /\ state[t] \in {"Running", "Blocked"}
      <4>1. t \in W => st[t] = "Blocked"
        BY <1>3
      <4> QED BY <4>1, <1>1, <1>2, <1>6
    <3> QED BY <3>1
  <2>3. \A x \in Agents : pc[x][1] \in {"await", "awaited"} => pc[x][2] \in Tasks
    BY NodeParts DEF IInv, TypeOK
  <2>4. \A x, b \in Agents :
          pc'[x][1] \in {"await", "awaited"} /\ pc'[b][1] \in {"await", "awaited"}
            /\ pc'[x][2] = pc'[b][2] => x = b
    BY <2>1 DEF IInv, AwaitOK
  <2>5. \A x \in Agents :
          pc'[x][1] \in {"await", "awaited"} =>
            pc'[x][2] # x /\ state'[pc'[x][2]] \notin {"unborn", "freed"}
    <3>1. ASSUME NEW x \in Agents, pc[x][1] \in {"await", "awaited"}
          PROVE  pc[x][2] # x /\ state'[pc[x][2]] \notin {"unborn", "freed"}
      <4>1. pc[x][2] # x /\ state[pc[x][2]] \notin {"unborn", "freed"} /\ pc[x][2] \in Tasks
        BY <3>1, <2>3 DEF IInv, AwaitOK
      <4> QED BY <4>1, <2>2
    <3> QED BY <3>1, <2>1
  <2>6. ASSUME NEW x \in Tasks, pc'[x][1] = "awaited", state'[x] # "Blocked"
        PROVE  state'[pc'[x][2]] = "Dead"
    <3>1. x \in Agents
      BY Names
    <3>2. x # a
      <4>1. CASE a \in io
        BY <4>1, <2>6
      <4>2. CASE a \notin io
        BY <4>2, <2>6, <1>1, <1>2, <1>6
      <4> QED BY <4>1, <4>2
    <3>3. x \notin W
      BY <3>1, <3>2, <2>6, <1>8
    <3>4. state[x] # "Blocked" /\ pc'[x] = pc[x]
      BY <3>1, <3>2, <3>3, <2>1, <2>6, <1>2, <1>6
    <3>5. state[pc[x][2]] = "Dead"
      BY <3>4, <2>6 DEF IInv, AwaitOK
    <3> QED BY <3>1, <3>4, <3>5, <2>2, <2>3, <2>6
  <2>7. \A u \in Tasks : state'[u] \in {"Dead", "freed"} => waiters'[u] = <<>>
    BY <2>2
  <2> QED BY <2>4, <2>5, <2>6, <2>7 DEF AwaitOK
<1>11. pc'[Main] = pc[Main] /\ outcome' \in [Tasks -> {"Running", "Completed", "Panicked"}]
  BY Names DEF IInv, TypeOK
<1>12. \A c \in Chans :
         /\ Main \in Range(chan'[c].senders) => Main \in Range(chan[c].senders)
         /\ Main \in Range(chan'[c].receivers) => Main \in Range(chan[c].receivers)
  BY Names
<1>13. UNCHANGED <<left, readable, parent, notified, halted>>
  OBVIOUS
<1>14. cpu # Main
  BY <1>1
<1> QED BY <1>4, <1>14, <1>9, <1>10, <1>11, <1>12, <1>13, SwitchKeeps

----------------------------------------------------------------------------
(* The actions.                                                            *)

\* An agent that holds the CPU moves on from where it calls from.
LEMMA FreeMove ==
  ASSUME IInv, NEW a \in Agents, cpu = a, NEW n \in Nodes,
         n[1] \notin {"await", "awaited"}, a = Main => n # <<"drain", TRUE>>,
         pc' = [pc EXCEPT ![a] = n],
         pc[a][1] \in {"code", "send", "recv", "timed", "select", "read", "drain", "await",
                       "awaited"},
         UNCHANGED <<cpu, sched, runQueue, ioWait, state, outcome, waiters, parent, notified,
                     halted>>,
         left' \in [Agents -> Nat], readable' \subseteq Agents,
         chan' \in [Chans -> [count : 0..Bound, closed : BOOLEAN, poisoned : BOOLEAN,
                              senders : Seq(Agents), receivers : Seq(Agents)]],
         \A c \in Chans : /\ chan'[c].senders = chan[c].senders
                          /\ chan'[c].receivers = chan[c].receivers
  PROVE  IInv'
<1>1. MainOK'
  BY MainMoves
<1> QED BY <1>1, MoveStep

\* What an action that leaves a variable alone needs of its type.
LEMMA Types ==
  ASSUME IInv
  PROVE  /\ left \in [Agents -> Nat] /\ readable \subseteq Agents
         /\ pc \in [Agents -> Nodes] /\ \A a \in Agents : pc[a] \in Nodes
         /\ chan \in [Chans -> [count : 0..Bound, closed : BOOLEAN, poisoned : BOOLEAN,
                                senders : Seq(Agents), receivers : Seq(Agents)]]
         /\ state \in [Tasks -> {"unborn", "Ready", "Running", "Blocked", "Dead", "freed"}]
         /\ waiters \in [Tasks -> Seq(Tasks)]
         /\ outcome \in [Tasks -> {"Running", "Completed", "Panicked"}]
BY DEF IInv, TypeOK

LEMMA Entering ==
  ASSUME IInv, NEW a \in Agents, NEW call, Enters(a, call)
  PROVE  /\ halted = "no" /\ cpu = a /\ pc[a][1] = "code" /\ pc[a] = Code
         /\ left' \in [Agents -> Nat]
<1>1. halted = "no" /\ cpu = a /\ pc[a][1] = "code" /\ left[a] > 0
      /\ left' = [left EXCEPT ![a] = @ - 1]
  BY DEF Enters, At
<1>2. pc[a] = Code
  BY <1>1, Types, NodeParts DEF Code
<1>3. left[a] - 1 \in Nat
  BY <1>1, Types
<1>4. left' \in [Agents -> Nat]
  BY <1>1, <1>3, Types
<1> QED BY <1>1, <1>2, <1>4

LEMMA CallFact ==
  ASSUME IInv, NEW a \in Agents, NEW call, NEW arg, Call(a, call, arg),
         <<call, arg>> \in Nodes, call \notin {"await", "awaited"},
         a = Main => <<call, arg>> # <<"drain", TRUE>>
  PROVE  IInv'
<1>1. /\ cpu = a /\ pc[a][1] = "code" /\ left' \in [Agents -> Nat]
  BY Entering DEF Call
<1>2. /\ pc' = [pc EXCEPT ![a] = <<call, arg>>]
      /\ UNCHANGED <<cpu, sched, runQueue, ioWait, readable, state, outcome,
                     waiters, parent, chan, notified, halted>>
  BY DEF Call, Goto
<1>3. /\ readable' \subseteq Agents
      /\ chan' \in [Chans -> [count : 0..Bound, closed : BOOLEAN, poisoned : BOOLEAN,
                              senders : Seq(Agents), receivers : Seq(Agents)]]
      /\ chan' = chan
  BY <1>2, Types
<1> QED BY <1>1, <1>2, <1>3, FreeMove

LEMMA CallsFact ==
  ASSUME IInv, NEW a \in Agents,
         CallSend(a) \/ CallRecv(a) \/ CallTimed(a) \/ CallSelect(a) \/ CallRead(a)
           \/ CallDrain(a)
  PROVE  IInv'
<1>1. CASE \E c \in Chans : \/ Call(a, "send", c) \/ Call(a, "recv", c)
                            \/ Call(a, "timed", c)
  <2>1. PICK c \in Chans : Call(a, "send", c) \/ Call(a, "recv", c) \/ Call(a, "timed", c)
    BY <1>1
  <2>2. <<"send", c>> \in Nodes /\ <<"recv", c>> \in Nodes /\ <<"timed", c>> \in Nodes
    BY NodesMade
  <2> QED BY <2>1, <2>2, CallFact
<1>2. CASE Call(a, "select", None) \/ Call(a, "read", None)
  BY <1>2, NodesMade, CallFact
<1>3. CASE Call(a, "drain", current # None)
  <2>1. cpu = a
    BY <1>3, Entering DEF Call
  <2>2. a = Main => current = None
    BY <2>1, CpuFact
  <2>3. <<"drain", current # None>> \in Nodes
    BY NodesMade
  <2>4. a = Main => <<"drain", current # None>> # <<"drain", TRUE>>
    BY <2>2
  <2> QED BY <1>3, <2>3, <2>4, CallFact
<1> QED BY <1>1, <1>2, <1>3, ArmsAssumption
        DEF CallSend, CallRecv, CallTimed, CallSelect, CallRead, CallDrain

\* An agent takes the one handle of a task it does not wait for yet.
LEMMA CallAwaitFact ==
  ASSUME IInv, NEW a \in Agents, CallAwait(a)
  PROVE  IInv'
<1>1. PICK t \in Tasks \ {a} :
        /\ state[t] \notin {"unborn", "freed"}
        /\ \A b \in Agents : pc[b] \notin {<<"await", t>>, <<"awaited", t>>}
        /\ Call(a, "await", t)
  BY DEF CallAwait
<1>2. /\ cpu = a /\ pc[a][1] = "code" /\ left' \in [Agents -> Nat]
  BY <1>1, Entering DEF Call
<1>3. /\ pc' = [pc EXCEPT ![a] = <<"await", t>>]
      /\ UNCHANGED <<cpu, sched, runQueue, ioWait, readable, state, outcome,
                     waiters, parent, chan, notified, halted>>
  BY <1>1 DEF Call, Goto
<1>4. /\ pc'[a] = <<"await", t>> /\ <<"await", t>> \in Nodes
      /\ \A b \in Agents : b # a => pc'[b] = pc[b]
      /\ pc' \in [Agents -> Nodes]
  BY <1>3, Types, NodesMade
<1>5. TypeOK'
  BY <1>2, <1>3, <1>4 DEF IInv, TypeOK, sched
<1>6. ChainOK' /\ QueueOK'
  BY <1>3, ChainKept, QueueKept DEF sched
<1>7. ParkOK'
  <2>1. \A u \in Tasks : state[u] = "Blocked" => pc'[u] = pc[u]
    BY <1>2, <1>4, CpuFact, Names
  <2> QED BY <2>1, <1>3, ParkKept
<1>8. MainOK'
  <2>1. <<"await", t>>[1] # "awaited" /\ <<"await", t>> # <<"drain", TRUE>>
    OBVIOUS
  <2> QED BY <2>1, <1>2, <1>3, <1>4, MainMoves
<1>9. AwaitOK'
  <2>1. ASSUME NEW b \in Agents, b # a, pc[b][1] \in {"await", "awaited"}
        PROVE  pc[b][2] # t
    <3>1. pc[b] = <<pc[b][1], pc[b][2]>>
      BY Types, NodeParts
    <3> QED BY <2>1, <3>1, <1>1
  <2>2. \A b, d \in Agents :
          pc'[b][1] \in {"await", "awaited"} /\ pc'[d][1] \in {"await", "awaited"}
            /\ pc'[b][2] = pc'[d][2] => b = d
    BY <2>1, <1>4 DEF IInv, AwaitOK
  <2>3. \A b \in Agents :
          pc'[b][1] \in {"await", "awaited"} =>
            pc'[b][2] # b /\ state[pc'[b][2]] \notin {"unborn", "freed"}
    BY <1>1, <1>4 DEF IInv, AwaitOK
  <2>4. ASSUME NEW b \in Tasks, pc'[b][1] = "awaited", state[b] # "Blocked"
        PROVE  state[pc'[b][2]] = "Dead"
    <3>1. b # a
      BY <2>4, <1>4
    <3>2. pc'[b] = pc[b]
      BY <3>1, <1>4, Names
    <3> QED BY <2>4, <3>2 DEF IInv, AwaitOK
  <2>5. \A u \in Tasks : state[u] \in {"Dead", "freed"} => waiters[u] = <<>>
    BY DEF IInv, AwaitOK
  <2> QED BY <2>2, <2>3, <2>4, <2>5, <1>3 DEF AwaitOK
<1>10. HaltOK'
  BY <1>3 DEF IInv, HaltOK, sched
<1> QED BY <1>5, <1>6, <1>7, <1>8, <1>9, <1>10 DEF IInv

LEMMA SpawnFact ==
  ASSUME IInv, NEW a \in Agents, Spawn(a)
  PROVE  IInv'
<1>1. PICK t \in Tasks :
        /\ state[t] = "unborn"
        /\ state' = [state EXCEPT ![t] = "Ready"]
        /\ parent' = [parent EXCEPT ![t] = a]
        /\ runQueue' = Append(runQueue, t)
  BY DEF Spawn
<1>2. /\ halted = "no" /\ cpu = a /\ left' \in [Agents -> Nat]
      /\ UNCHANGED <<cpu, pc, sched, ioWait, readable, outcome, waiters, chan, notified, halted>>
  BY Entering DEF Spawn
<1>3. /\ state'[t] = "Ready" /\ \A u \in Tasks : u # t => state'[u] = state[u]
      /\ state' \in [Tasks -> {"unborn", "Ready", "Running", "Blocked", "Dead", "freed"}]
  BY <1>1, Types
<1>4. /\ runQueue' \in Seq(Tasks) /\ IsInjective(runQueue')
      /\ Range(runQueue') = Range(runQueue) \cup {t}
  <2>1. runQueue \in Seq(Tasks) /\ IsInjective(runQueue) /\ t \notin Range(runQueue)
    BY <1>1 DEF IInv, TypeOK, QueueOK
  <2> QED BY <2>1, <1>1, RangeAppend
<1>5. TypeOK'
  BY <1>1, <1>2, <1>3, <1>4 DEF IInv, TypeOK, sched
<1>6. ChainOK'
  BY <1>2, ChainKept DEF sched
<1>7. QueueOK'
  <2>1. Driving' = Driving /\ frame' = frame
    BY <1>2 DEF Driving, sched
  <2>2. ASSUME NEW u \in Tasks
        PROVE  /\ u \in Range(runQueue') <=> state'[u] = "Ready"
               /\ state'[u] = "Running" <=> \E d \in Driving' : frame'[d].task = u
    <3>1. CASE u = t
      BY <3>1, <2>1, <1>1, <1>3, <1>4 DEF IInv, QueueOK
    <3>2. CASE u # t
      BY <3>2, <2>1, <1>3, <1>4 DEF IInv, QueueOK
    <3> QED BY <3>1, <3>2
  <2> QED BY <2>2, <1>4 DEF QueueOK
<1>8. ParkOK'
  <2>1. \A u \in Tasks : state'[u] = "Blocked" <=>
                           state[u] = "Blocked" /\ u \notin ioWait \ ioWait'
    BY <1>1, <1>2, <1>3
  <2> QED BY <2>1, <1>2, ParkKept
<1>9. MainOK'
  BY <1>2, MainKept
<1>10. AwaitOK'
  <2>1. /\ \A u \in Tasks : state'[u] \in {"Dead", "unborn", "freed"} => state'[u] = state[u]
        /\ \A u \in Tasks : state[u] \in {"Blocked", "Dead"} => state'[u] = state[u]
    BY <1>1, <1>3
  <2> QED BY <2>1, <1>2, AwaitUnmoved
<1>11. HaltOK'
  BY <1>2 DEF HaltOK
<1> QED BY <1>5, <1>6, <1>7, <1>8, <1>9, <1>10, <1>11 DEF IInv

\* The process ends: nothing else changes.
LEMMA HaltFact ==
  ASSUME IInv, NEW how \in {"exited", "failed", "aborted", "deadlock"}, Halt(how),
         how = "deadlock" => cpu = Main /\ runQueue = <<>> /\ ioWait = {}
  PROVE  IInv'
<1>1. /\ halted' = how
      /\ UNCHANGED <<cpu, pc, left, sched, runQueue, ioWait, readable, state,
                     outcome, waiters, parent, chan, notified>>
  BY DEF Halt
<1>2. TypeOK'
  BY <1>1 DEF IInv, TypeOK, sched
<1>3. ChainOK' /\ QueueOK'
  BY <1>1, ChainKept, QueueKept DEF sched
<1>4. ParkOK'
  BY <1>1, ParkKept
<1>5. MainOK'
  BY <1>1, MainKept
<1>6. AwaitOK'
  BY <1>1, AwaitUnmoved
<1>7. HaltOK'
  BY <1>1 DEF HaltOK
<1> QED BY <1>2, <1>3, <1>4, <1>5, <1>6, <1>7 DEF IInv

LEMMA ArriveFact ==
  ASSUME IInv, NEW a \in Agents, Arrive(a)
  PROVE  IInv'
<1>1. /\ readable' \subseteq Agents /\ halted = "no"
      /\ UNCHANGED <<cpu, pc, left, sched, runQueue, ioWait, state, outcome,
                     waiters, parent, chan, notified, halted>>
  BY Types DEF Arrive
<1>2. TypeOK'
  BY <1>1 DEF IInv, TypeOK, sched
<1>3. ChainOK' /\ QueueOK'
  BY <1>1, ChainKept, QueueKept DEF sched
<1>4. ParkOK'
  BY <1>1, ParkKept
<1>5. MainOK'
  BY <1>1, MainKept
<1>6. AwaitOK'
  BY <1>1, AwaitUnmoved
<1>7. HaltOK'
  BY <1>1 DEF HaltOK
<1> QED BY <1>2, <1>3, <1>4, <1>5, <1>6, <1>7 DEF IInv

\* Main is a receiver of one channel at most, and this is the one it is at.
LEMMA MainOnOne ==
  ASSUME NEW p \in {"send", "recv", "timed", "recvParked", "timedParked", "timedRan", "expired"},
         NEW c, pc'[Main] = <<p, c>>,
         \A e \in Chans : Main \notin Range(chan'[e].senders),
         \A e \in Chans : Main \in Range(chan'[e].receivers) =>
           e = c /\ ~notified' /\ p \notin {"send", "recv", "timed"}
  PROVE  MainOK'
<1>1. pc'[Main] # <<"drain", TRUE>> /\ pc'[Main][1] # "awaited"
  <2>1. pc'[Main][1] = p
    OBVIOUS
  <2>2. pc'[Main] # <<"drain", TRUE>>
    <3>1. SUFFICES ASSUME pc'[Main] = <<"drain", TRUE>> PROVE FALSE
      OBVIOUS
    <3>2. pc'[Main][1] = "drain"
      BY <3>1
    <3> QED BY <2>1, <3>2
  <2> QED BY <2>1, <2>2
<1>2. ASSUME NEW e \in Chans, Main \in Range(chan'[e].receivers)
      PROVE  /\ pc'[Main] \in {<<"panics", None>>} \cup
                  ({"recvParked", "timedParked", "timedRan", "expired"} \X {e})
             /\ pc'[Main][1] \in {"recvParked", "timedParked", "timedRan"} => ~notified'
  <2>1. p \in {"recvParked", "timedParked", "timedRan", "expired"} /\ e = c /\ ~notified'
    BY <1>2
  <2> QED BY <2>1
<1> QED BY <1>1, <1>2 DEF MainOK

\* run_one from the loops of an await, a nursery, a park and a select.
LEMMA DispatchesFact ==
  ASSUME IInv,
         \/ AwaitDispatch \/ ParkDispatch \/ TimedDispatch \/ SelectDispatch
         \/ \E a \in Agents : DrainDispatch(a)
  PROVE  IInv'
<1>1. CASE AwaitDispatch \/ ParkDispatch \/ SelectDispatch
  <2>1. cpu = Main /\ Main \in Agents /\ halted = "no" /\ Dispatch(Main) /\ UNCHANGED pc
    BY <1>1, Names
       DEF AwaitDispatch, ParkDispatch, SelectDispatch, Awaiting, Parked, At
  <2> QED BY <2>1, DispatchStays
<1>2. CASE \E a \in Agents : DrainDispatch(a)
  <2>1. PICK a \in Agents : cpu = a /\ halted = "no" /\ Dispatch(a) /\ UNCHANGED pc
    BY <1>2 DEF DrainDispatch, At
  <2> QED BY <2>1, DispatchStays
<1>3. CASE TimedDispatch
  <2> DEFINE c == pc[Main][2]
  <2>1. /\ halted = "no" /\ cpu = Main /\ pc[Main][1] = "timedParked" /\ ~notified
        /\ Dispatch(Main) /\ pc' = [pc EXCEPT ![Main] = <<"timedRan", c>>]
    BY <1>3 DEF TimedDispatch, At, Goto
  <2>2. c \in Chans /\ pc[Main] = <<"timedParked", c>>
    BY <2>1, Types, Names, NodeParts
  <2> HIDE DEF c
  <2>3. /\ pc' \in [Agents -> Nodes] /\ pc'[Main] = <<"timedRan", c>>
        /\ \A b \in Agents : b # Main => pc'[b] = pc[b]
    BY <2>1, <2>2, Types, Names, NodesMade
  <2>4. MainOK'
    <3>1. UNCHANGED <<chan, notified>>
      BY <2>1 DEF Dispatch
    <3>2. \A e \in Chans : /\ Main \notin Range(chan[e].senders)
                           /\ Main \in Range(chan[e].receivers) => e = c
      BY <2>2 DEF IInv, MainOK
    <3> QED BY <3>1, <3>2, <2>1, <2>3, MainOnOne
  <2>5. \A b \in Tasks : pc'[b] = pc[b]
    BY <2>3, Names
  <2>6. pc'[Main][1] \notin {"await", "awaited"}
    BY <2>3
  <2> QED BY <2>1, <2>3, <2>4, <2>5, <2>6, Names, DispatchKeeps
<1> QED BY <1>1, <1>2, <1>3

\* Polling with an empty run queue, and what the loops do when it wakes none.
LEMMA IdlesFact ==
  ASSUME IInv, AwaitIdle \/ ParkIdle \/ SelectIdle \/ \E a \in Agents : DrainIdle(a)
  PROVE  IInv'
<1>1. CASE ParkIdle \/ SelectIdle
  <2>1. /\ PollWakes /\ halted = "no"
        /\ UNCHANGED <<cpu, pc, left, sched, readable, outcome, waiters, parent, chan, halted>>
    BY <1>1 DEF ParkIdle, SelectIdle, Parked, At
  <2> QED BY <2>1, PollStep
<1>2. CASE AwaitIdle
  <2>1. CASE PollWakes /\ UNCHANGED <<cpu, pc, left, sched, readable, outcome, waiters,
                                      parent, chan, halted>>
    <3>1. halted = "no"
      BY <1>2 DEF AwaitIdle, Awaiting, At
    <3> QED BY <2>1, <3>1, PollStep
  <2>2. CASE PollWakesNone(TRUE) /\ Halt("deadlock")
    <3>1. cpu = Main /\ runQueue = <<>> /\ ioWait = {}
      BY <1>2, <2>2 DEF AwaitIdle, Awaiting, At, PollWakesNone
    <3> QED BY <2>2, <3>1, HaltFact
  <2> QED BY <1>2, <2>1, <2>2 DEF AwaitIdle
<1>3. CASE \E a \in Agents : DrainIdle(a)
  <2>1. PICK a \in Agents : DrainIdle(a)
    BY <1>3
  <2>2. cpu = a /\ halted = "no" /\ pc[a][1] = "drain"
        /\ UNCHANGED <<cpu, left, sched, readable, outcome, waiters, parent, chan, halted>>
    BY <2>1 DEF DrainIdle, At
  <2>3. CASE PollWakes /\ UNCHANGED pc
    BY <2>2, <2>3, PollStep
  <2>4. CASE pc' = [pc EXCEPT ![a] = Code] /\ UNCHANGED <<runQueue, ioWait, state, notified>>
    <3>1. Code \in Nodes /\ Code[1] \notin {"await", "awaited"} /\ Code # <<"drain", TRUE>>
      BY NodesMade DEF Code
    <3>2. /\ left' \in [Agents -> Nat] /\ readable' \subseteq Agents /\ chan' = chan
          /\ chan' \in [Chans -> [count : 0..Bound, closed : BOOLEAN, poisoned : BOOLEAN,
                                  senders : Seq(Agents), receivers : Seq(Agents)]]
      BY <2>2, Types
    <3> QED BY <2>2, <2>4, <3>1, <3>2, FreeMove
  <2> QED BY <2>1, <2>3, <2>4 DEF DrainIdle
<1> QED BY <1>1, <1>2, <1>3

\* Steps with a channel that wake nobody and park nobody, and a read.
LEMMA PlainMovesFact ==
  ASSUME IInv, NEW a \in Agents, SendClosed(a) \/ RecvNothing(a) \/ Read(a)
  PROVE  IInv'
<1> DEFINE c == pc[a][2]
           Chan == [count : 0..Bound, closed : BOOLEAN, poisoned : BOOLEAN,
                    senders : Seq(Agents), receivers : Seq(Agents)]
<1>1. /\ cpu = a /\ halted = "no" /\ pc[a][1] \in {"send", "recv", "timed", "read"}
      /\ pc[a][1] # "read" => c \in Chans
  <2>1. pc[a] \in Nodes
    BY Types
  <2> QED BY <2>1, NodeParts DEF SendClosed, RecvNothing, Read, Locked, At
<1>2. /\ Code \in Nodes /\ Code[1] \notin {"await", "awaited"} /\ Code # <<"drain", TRUE>>
      /\ <<"panics", None>> \in Nodes
  BY NodesMade DEF Code
<1>3. CASE SendClosed(a)
  <2>1. /\ chan' = [chan EXCEPT ![c].poisoned = PanicUnwinds] /\ c \in Chans
        /\ pc' = [pc EXCEPT ![a] = <<"panics", None>>]
        /\ UNCHANGED <<cpu, left, sched, runQueue, ioWait, readable, state,
                       outcome, waiters, parent, notified, halted>>
    <3>1. pc[a][1] = "send"
      BY <1>3 DEF SendClosed, Locked, At
    <3> QED BY <1>1, <1>3, <3>1 DEF SendClosed, Goto
  <2>2. /\ chan' \in [Chans -> Chan]
        /\ \A e \in Chans : /\ chan'[e].senders = chan[e].senders
                            /\ chan'[e].receivers = chan[e].receivers
    BY ZenonT(30), <2>1, Types, BuildAssumption
  <2>3. left' \in [Agents -> Nat] /\ readable' \subseteq Agents
    BY <2>1, Types
  <2> QED BY <1>1, <1>2, <2>1, <2>2, <2>3, FreeMove
<1>4. CASE RecvNothing(a)
  <2>1. /\ pc' = [pc EXCEPT ![a] = Code]
        /\ UNCHANGED <<cpu, left, sched, runQueue, ioWait, readable, state,
                       outcome, waiters, parent, chan, notified, halted>>
    BY <1>4 DEF RecvNothing
  <2>2. left' \in [Agents -> Nat] /\ readable' \subseteq Agents /\ chan' \in [Chans -> Chan]
    BY <2>1, Types
  <2> QED BY <1>1, <1>2, <2>1, <2>2, FreeMove
<1>5. CASE Read(a)
  <2>1. /\ pc' = [pc EXCEPT ![a] = Code] /\ readable' = readable \ {a}
        /\ UNCHANGED <<cpu, left, sched, runQueue, ioWait, state, outcome, waiters,
                       parent, chan, notified, halted>>
    BY <1>5 DEF Read
  <2>2. left' \in [Agents -> Nat] /\ readable' \subseteq Agents /\ chan' \in [Chans -> Chan]
    BY <2>1, Types
  <2> QED BY <1>1, <1>2, <2>1, <2>2, FreeMove
<1> QED BY <1>3, <1>4, <1>5

\* A poisoned mutex: the panic takes the caller from wherever it locks it.
LEMMA PoisonedLockFact ==
  ASSUME IInv, NEW a \in Agents, PoisonedLock(a)
  PROVE  IInv'
<1>1. /\ cpu = a /\ halted = "no" /\ pc[a][1] \in {"send", "recv", "timed", "expired"}
      /\ pc' = [pc EXCEPT ![a] = <<"panics", None>>]
      /\ UNCHANGED <<cpu, left, sched, runQueue, ioWait, readable, state,
                     outcome, waiters, parent, chan, notified, halted>>
  BY DEF PoisonedLock, At, Goto
<1>2. /\ <<"panics", None>> \in Nodes /\ <<"panics", None>>[1] = "panics"
      /\ <<"panics", None>> # <<"drain", TRUE>>
  BY NodesMade
<1>3. /\ left' \in [Agents -> Nat] /\ readable' \subseteq Agents
      /\ chan' \in [Chans -> [count : 0..Bound, closed : BOOLEAN, poisoned : BOOLEAN,
                              senders : Seq(Agents), receivers : Seq(Agents)]]
  BY <1>1, Types
<1>4. pc'[a] = <<"panics", None>> /\ \A b \in Agents : b # a => pc'[b] = pc[b]
  BY <1>1, Types
<1>5. MainOK'
  <2>1. CASE a = Main
    <3>1. \A c \in Chans : Main \notin Range(chan[c].senders)
      BY <2>1, <1>1 DEF IInv, MainOK
    <3> QED BY <2>1, <3>1, <1>1, <1>2, <1>4 DEF MainOK
  <2>2. CASE a # Main
    BY <2>2, <1>1, <1>4, Names, MainKept
  <2> QED BY <2>1, <2>2
<1> QED BY <1>1, <1>2, <1>3, <1>5, MoveStep

\* Main's steps from one place of its park to the next.
LEMMA MainMovesFact ==
  ASSUME IInv, Notified \/ TimedAgain \/ TimedOut
  PROVE  IInv'
<1> DEFINE c == pc[Main][2]
<1>1. /\ cpu = Main /\ halted = "no"
      /\ pc[Main][1] \in {"sendParked", "recvParked", "timedParked", "timedRan"}
      /\ UNCHANGED <<cpu, left, sched, runQueue, ioWait, readable, state,
                     outcome, waiters, parent, chan, notified, halted>>
  BY DEF Notified, TimedAgain, TimedOut, Parked, At
<1>2. c \in Chans /\ pc[Main] = <<pc[Main][1], c>>
  BY <1>1, Types, Names, NodeParts
<1>3. PICK p \in {"send", "recv", "timed", "timedParked", "expired"} :
        /\ pc' = [pc EXCEPT ![Main] = <<p, c>>]
        /\ p \in {"send", "recv", "timed"} => notified /\ pc[Main][1] # "timedRan"
        /\ p \in {"timedParked", "expired"} => pc[Main][1] \in {"timedParked", "timedRan"}
        /\ p = "timedParked" => pc[Main][1] = "timedRan"
  BY <1>1 DEF Notified, TimedAgain, TimedOut, Parked, At, Retry, Goto
<1> HIDE DEF c
<1>4. <<p, c>> \in Nodes /\ <<p, c>>[1] = p
  BY <1>2, NodesMade
<1>5. /\ left' \in [Agents -> Nat] /\ readable' \subseteq Agents
      /\ chan' \in [Chans -> [count : 0..Bound, closed : BOOLEAN, poisoned : BOOLEAN,
                              senders : Seq(Agents), receivers : Seq(Agents)]]
  BY <1>1, Types
<1>6. pc'[Main] = <<p, c>>
  BY <1>3, Types, Names
<1>7. MainOK'
  <2>1. CASE p \in {"send", "recv", "timed"}
    <3>1. \A e \in Chans : Main \notin Range(chan[e].senders) /\ Main \notin Range(chan[e].receivers)
      BY <2>1, <1>1, <1>2, <1>3 DEF IInv, MainOK
    <3> QED BY <2>1, <3>1, <1>1, <1>6, MainOnOne
  <2>2. CASE p \in {"timedParked", "expired"}
    <3>1. \A e \in Chans : /\ Main \notin Range(chan[e].senders)
                           /\ Main \in Range(chan[e].receivers) => e = c /\ ~notified
      BY <2>2, <1>2, <1>3 DEF IInv, MainOK
    <3> QED BY <2>2, <3>1, <1>1, <1>6, MainOnOne
  <2> QED BY <2>1, <2>2
<1> QED BY <1>1, <1>3, <1>4, <1>5, <1>7, Names, MoveStep

\* await_task with its target dead: the struct is freed, a panic raised again.
LEMMA ConsumeFact ==
  ASSUME IInv, NEW a \in Agents, AwaitDead(a) \/ AwaitResumed(a)
  PROVE  IInv'
<1> DEFINE t == pc[a][2]
<1>1. /\ cpu = a /\ halted = "no" /\ pc[a][1] \in {"await", "awaited"} /\ Consume(a, t)
      /\ pc[a][1] = "await" => state[t] = "Dead"
  BY DEF AwaitDead, AwaitResumed, At
<1>2. t \in Tasks /\ state[t] = "Dead"
  <2>1. t \in Tasks
    BY <1>1, Types, NodeParts
  <2>2. CASE pc[a][1] = "awaited"
    <3>1. a # Main /\ a \in Tasks
      BY <2>2, Names DEF IInv, MainOK
    <3>2. state[a] # "Blocked"
      BY <3>1, <1>1, CpuFact
    <3> QED BY <2>1, <2>2, <3>1, <3>2 DEF IInv, AwaitOK
  <2> QED BY <2>1, <2>2, <1>1
<1>3. PICK n \in {Code, <<"panics", None>>} :
        /\ state' = [state EXCEPT ![t] = "freed"] /\ pc' = [pc EXCEPT ![a] = n]
        /\ UNCHANGED <<cpu, left, sched, runQueue, ioWait, readable, outcome,
                       waiters, parent, chan, notified, halted>>
  BY <1>1 DEF Consume, Goto
<1>4. n \in Nodes /\ n[1] \notin {"await", "awaited"} /\ n # <<"drain", TRUE>>
  <2>1. Code \in Nodes /\ <<"panics", None>> \in Nodes
    BY NodesMade
  <2>2. n[1] \in {"code", "panics"}
    BY <1>3 DEF Code
  <2>3. <<"drain", TRUE>>[1] = "drain"
    OBVIOUS
  <2> QED BY <1>3, <2>1, <2>2, <2>3
<1>5. /\ pc'[a] = n /\ \A b \in Agents : b # a => pc'[b] = pc[b]
      /\ pc' \in [Agents -> Nodes]
      /\ state'[t] = "freed" /\ \A u \in Tasks : u # t => state'[u] = state[u]
      /\ state' \in [Tasks -> {"unborn", "Ready", "Running", "Blocked", "Dead", "freed"}]
  BY <1>2, <1>3, <1>4, Types
<1>6. \A b \in Agents : b # a /\ pc[b][1] \in {"await", "awaited"} => pc[b][2] # t
  BY <1>1 DEF IInv, AwaitOK
<1> HIDE DEF t
<1>7. TypeOK'
  BY <1>3, <1>5 DEF IInv, TypeOK, sched
<1>8. ChainOK' /\ QueueOK'
  <2>1. UNCHANGED <<cpu, frame, current, schCtx, runQueue>>
    BY <1>3 DEF sched
  <2> QED BY <2>1, <1>2, <1>5, ChainKept, QueueKept
<1>9. ParkOK'
  <2>1. \A u \in Tasks : state[u] = "Blocked" => pc'[u] = pc[u]
    BY <1>1, <1>5, CpuFact, Names
  <2>2. \A u \in Tasks : state'[u] = "Blocked" <=>
                           state[u] = "Blocked" /\ u \notin ioWait \ ioWait'
    BY <1>2, <1>3, <1>5
  <2> QED BY <2>1, <2>2, <1>3, ParkKept
<1>10. MainOK'
  BY <1>1, <1>3, <1>4, MainMoves
<1>11. AwaitOK'
  <2>1. \A b, d \in Agents :
          pc'[b][1] \in {"await", "awaited"} /\ pc'[d][1] \in {"await", "awaited"}
            /\ pc'[b][2] = pc'[d][2] => b = d
    BY <1>4, <1>5 DEF IInv, AwaitOK
  <2>2. ASSUME NEW b \in Agents, pc'[b][1] \in {"await", "awaited"}
        PROVE  pc'[b][2] # b /\ state'[pc'[b][2]] \notin {"unborn", "freed"}
    <3>1. b # a /\ pc'[b] = pc[b]
      BY <2>2, <1>4, <1>5
    <3>2. pc[b][2] \in Tasks /\ pc[b][2] # t
      BY <2>2, <3>1, <1>6, Types, NodeParts
    <3> QED BY <2>2, <3>1, <3>2, <1>5 DEF IInv, AwaitOK
  <2>3. ASSUME NEW b \in Tasks, pc'[b][1] = "awaited", state'[b] # "Blocked"
        PROVE  state'[pc'[b][2]] = "Dead"
    <3>1. b \in Agents /\ b # a /\ pc'[b] = pc[b]
      BY <2>3, <1>4, <1>5, Names
    <3>2. pc[b][2] \in Tasks /\ pc[b][2] # t
      BY <2>3, <3>1, <1>6, Types, NodeParts
    <3>3. state[b] # "Blocked"
      BY <2>3, <1>2, <1>5
    <3>4. state[pc[b][2]] = "Dead"
      BY <2>3, <3>1, <3>3 DEF IInv, AwaitOK
    <3> QED BY <3>1, <3>2, <3>4, <1>5
  <2>4. ASSUME NEW u \in Tasks, state'[u] \in {"Dead", "freed"} PROVE waiters'[u] = <<>>
    <3>1. state[u] \in {"Dead", "freed"}
      BY <2>4, <1>2, <1>5
    <3> QED BY <3>1, <1>3 DEF IInv, AwaitOK
  <2> QED BY <2>1, <2>2, <2>3, <2>4 DEF AwaitOK
<1>12. HaltOK'
  BY <1>1, <1>3 DEF HaltOK
<1> QED BY <1>7, <1>8, <1>9, <1>10, <1>11, <1>12 DEF IInv

----------------------------------------------------------------------------
(* Channels and selects that hand something over.                          *)

\* The lists of a channel when one entry is popped off one of them.
LEMMA PopFact ==
  ASSUME IInv, NEW a \in Agents, NEW c \in Chans, Pop(a, c), halted = "no", cpu = a,
         pc[a][1] \in {"recv", "timed", "select"}, chan[c].count > 0
  PROVE  IInv'
<1> DEFINE r == [chan[c] EXCEPT !.count = @ - 1, !.senders = RestOf(@)]
           ws == FirstOf(chan[c].senders)
<1>1. /\ chan' = [chan EXCEPT ![c] = r] /\ Wake(ws) /\ pc' = [pc EXCEPT ![a] = Code]
      /\ UNCHANGED <<cpu, left, sched, ioWait, readable, outcome, waiters, parent, halted>>
  BY Types DEF Pop
<1>2. /\ chan[c] \in [count : 0..Bound, closed : BOOLEAN, poisoned : BOOLEAN,
                      senders : Seq(Agents), receivers : Seq(Agents)]
      /\ chan[c].count \in 0..Bound /\ Bound \in Nat
  BY Types, NumbersAssumption DEF Bound
<1>3. /\ chan[c].senders \in Seq(Agents) /\ IsInjective(chan[c].senders)
      /\ chan[c].receivers \in Seq(Agents) /\ IsInjective(chan[c].receivers)
  BY ListTypes
<1>4. /\ ws \in Seq(Agents) /\ IsInjective(ws)
      /\ RestOf(chan[c].senders) \in Seq(Agents) /\ IsInjective(RestOf(chan[c].senders))
      /\ Range(chan[c].senders) = Range(RestOf(chan[c].senders)) \cup Range(ws)
      /\ Range(RestOf(chan[c].senders)) \cap Range(ws) = {}
  BY <1>3, FirstAndRest
<1>5. /\ r.senders = RestOf(chan[c].senders) /\ r.receivers = chan[c].receivers
      /\ r \in [count : 0..Bound, closed : BOOLEAN, poisoned : BOOLEAN,
                senders : Seq(Agents), receivers : Seq(Agents)]
  <2>1. chan[c].count - 1 \in 0..Bound
    BY <1>2
  <2> QED BY <2>1, <1>2, <1>4
<1> HIDE DEF r, ws
<1>6. /\ Range(chan[c].receivers) = Range(r.receivers) \cup {}
      /\ Range(r.receivers) \cap {} = {} /\ Range(ws) = Range(ws) \cup {}
  BY <1>5
<1>7. left' \in [Agents -> Nat]
  BY <1>1, Types
<1>8. /\ IsInjective(r.senders) /\ IsInjective(r.receivers)
      /\ Range(chan[c].senders) = Range(r.senders) \cup Range(ws)
      /\ Range(r.senders) \cap Range(ws) = {}
  BY <1>3, <1>4, <1>5
<1> QED BY <1>1, <1>4, <1>5, <1>6, <1>7, <1>8, ChannelWakes

LEMMA RecvFact ==
  ASSUME IInv, NEW a \in Agents, Recv(a)
  PROVE  IInv'
<1>1. /\ cpu = a /\ halted = "no" /\ pc[a][1] \in {"recv", "timed"}
      /\ chan[pc[a][2]].count > 0 /\ Pop(a, pc[a][2])
  BY DEF Recv, Locked, At
<1>2. pc[a][2] \in Chans
  BY <1>1, Types, NodeParts
<1> QED BY <1>1, <1>2, PopFact

LEMMA SendFact ==
  ASSUME IInv, NEW a \in Agents, Send(a)
  PROVE  IInv'
<1> DEFINE c == pc[a][2]
<1>1. /\ cpu = a /\ halted = "no" /\ pc[a][1] = "send" /\ chan[c].count < Bound
      /\ chan' = [chan EXCEPT ![c].count = @ + 1, ![c].receivers = RestOf(@)]
      /\ Wake(FirstOf(chan[c].receivers)) /\ pc' = [pc EXCEPT ![a] = Code]
      /\ UNCHANGED <<cpu, left, sched, ioWait, readable, outcome, waiters, parent, halted>>
  BY DEF Send, Locked, At
<1>2. c \in Chans
  BY <1>1, Types, NodeParts
<1> HIDE DEF c
<1> DEFINE r == [chan[c] EXCEPT !.count = @ + 1, !.receivers = RestOf(@)]
           ws == FirstOf(chan[c].receivers)
<1>3. chan' = [chan EXCEPT ![c] = r] /\ Wake(ws)
  BY <1>1, <1>2, Types
<1>4. /\ chan[c] \in [count : 0..Bound, closed : BOOLEAN, poisoned : BOOLEAN,
                      senders : Seq(Agents), receivers : Seq(Agents)]
      /\ chan[c].count \in 0..Bound /\ Bound \in Nat
  BY <1>2, Types, NumbersAssumption DEF Bound
<1>5. /\ chan[c].senders \in Seq(Agents) /\ IsInjective(chan[c].senders)
      /\ chan[c].receivers \in Seq(Agents) /\ IsInjective(chan[c].receivers)
  BY <1>2, ListTypes
<1>6. /\ ws \in Seq(Agents) /\ IsInjective(ws)
      /\ RestOf(chan[c].receivers) \in Seq(Agents) /\ IsInjective(RestOf(chan[c].receivers))
      /\ Range(chan[c].receivers) = Range(RestOf(chan[c].receivers)) \cup Range(ws)
      /\ Range(RestOf(chan[c].receivers)) \cap Range(ws) = {}
  BY <1>5, FirstAndRest
<1>7. /\ r.receivers = RestOf(chan[c].receivers) /\ r.senders = chan[c].senders
      /\ r \in [count : 0..Bound, closed : BOOLEAN, poisoned : BOOLEAN,
                senders : Seq(Agents), receivers : Seq(Agents)]
  <2>1. chan[c].count + 1 \in 0..Bound
    BY <1>1, <1>4
  <2> QED BY <2>1, <1>4, <1>6
<1> DEFINE S == {}
<1> HIDE DEF r, ws
<1>8. /\ Range(chan[c].senders) = Range(r.senders) \cup S
      /\ Range(r.senders) \cap S = {} /\ Range(ws) = S \cup Range(ws)
  BY <1>7
<1>9. left' \in [Agents -> Nat]
  BY <1>1, Types
<1>10. /\ IsInjective(r.senders) /\ IsInjective(r.receivers)
       /\ Range(chan[c].receivers) = Range(r.receivers) \cup Range(ws)
       /\ Range(r.receivers) \cap Range(ws) = {}
  BY <1>5, <1>6, <1>7
<1>11. pc[a][1] \in {"code", "send", "recv", "timed", "select"}
  BY <1>1
<1>12. UNCHANGED <<cpu, sched, ioWait, readable, outcome, waiters, parent, halted>>
  BY <1>1
<1>13. cpu = a /\ halted = "no" /\ pc' = [pc EXCEPT ![a] = Code]
  BY <1>1
<1> HIDE DEF S
<1> QED BY <1>2, <1>3, <1>6, <1>7, <1>8, <1>9, <1>10, <1>11, <1>12, <1>13, ChannelWakes

LEMMA SelectFiresFact ==
  ASSUME IInv, NEW a \in Agents, SelectFires(a)
  PROVE  IInv'
<1>1. PICK i \in Selects(a) :
        IF chan[Arms[i]].poisoned
        THEN /\ Goto(a, "panics", None)
             /\ UNCHANGED <<cpu, left, sched, runQueue, ioWait, readable, state,
                            outcome, waiters, parent, chan, notified, halted>>
        ELSE Pop(a, Arms[i])
  BY DEF SelectFires
<1>2. /\ cpu = a /\ halted = "no" /\ pc[a][1] = "select" /\ Arms[i] \in Chans
      /\ chan[Arms[i]].count > 0 \/ chan[Arms[i]].poisoned
  BY ArmsAssumption DEF SelectFires, At, Selects, Fires
<1>3. CASE chan[Arms[i]].poisoned
  <2>1. /\ pc' = [pc EXCEPT ![a] = <<"panics", None>>]
        /\ UNCHANGED <<cpu, left, sched, runQueue, ioWait, readable, state,
                       outcome, waiters, parent, chan, notified, halted>>
    BY <1>1, <1>3 DEF Goto
  <2>2. /\ <<"panics", None>> \in Nodes /\ <<"panics", None>>[1] = "panics"
        /\ <<"panics", None>> # <<"drain", TRUE>>
    BY NodesMade
  <2>3. /\ left' \in [Agents -> Nat] /\ readable' \subseteq Agents
        /\ chan' \in [Chans -> [count : 0..Bound, closed : BOOLEAN, poisoned : BOOLEAN,
                                senders : Seq(Agents), receivers : Seq(Agents)]]
    BY <2>1, Types
  <2> QED BY <1>2, <2>1, <2>2, <2>3, FreeMove
<1>4. CASE ~chan[Arms[i]].poisoned
  BY <1>1, <1>2, <1>4, PopFact
<1> QED BY <1>3, <1>4

\* Closing a channel empties its two lists, which have no agent in common.
LEMMA CloseFact ==
  ASSUME IInv, NEW a \in Agents, Close(a)
  PROVE  IInv'
<1>1. PICK c \in Chans :
        /\ Enters(a, "close")
        /\ IF chan[c].poisoned THEN Goto(a, "panics", None) ELSE UNCHANGED pc
        /\ IF chan[c].poisoned \/ chan[c].closed
           THEN UNCHANGED <<chan, runQueue, state, notified>>
           ELSE /\ chan' = [chan EXCEPT ![c].closed = TRUE,
                                        ![c].senders = <<>>, ![c].receivers = <<>>]
                /\ Wake(chan[c].senders \o chan[c].receivers)
        /\ UNCHANGED <<cpu, sched, ioWait, readable, outcome, waiters, parent, halted>>
  BY DEF Close
<1>2. /\ halted = "no" /\ cpu = a /\ pc[a][1] = "code" /\ pc[a] = Code
      /\ left' \in [Agents -> Nat]
  BY <1>1, Entering
<1>3. /\ Code \in Nodes /\ Code[1] = "code" /\ Code # <<"drain", TRUE>>
      /\ <<"panics", None>> \in Nodes /\ <<"panics", None>>[1] = "panics"
      /\ <<"panics", None>> # <<"drain", TRUE>>
  BY NodesMade DEF Code
<1>4. pc = [pc EXCEPT ![a] = Code]
  BY <1>2, Types
<1>5. CASE chan[c].poisoned \/ chan[c].closed
  <2>1. PICK n \in {Code, <<"panics", None>>} : pc' = [pc EXCEPT ![a] = n]
    BY <1>1, <1>4 DEF Goto
  <2>2. /\ readable' \subseteq Agents
        /\ chan' \in [Chans -> [count : 0..Bound, closed : BOOLEAN, poisoned : BOOLEAN,
                                senders : Seq(Agents), receivers : Seq(Agents)]]
        /\ UNCHANGED <<chan, runQueue, state, notified>>
    BY <1>1, <1>5, Types
  <2>3. n \in Nodes /\ n[1] \notin {"await", "awaited"} /\ n # <<"drain", TRUE>>
    BY <1>3
  <2> QED BY <1>1, <1>2, <2>1, <2>2, <2>3, FreeMove
<1>6. CASE ~(chan[c].poisoned \/ chan[c].closed)
  <2> DEFINE r == [chan[c] EXCEPT !.closed = TRUE, !.senders = <<>>, !.receivers = <<>>]
             ws == chan[c].senders \o chan[c].receivers
  <2>1. chan' = [chan EXCEPT ![c] = r] /\ Wake(ws) /\ pc' = [pc EXCEPT ![a] = Code]
    BY <1>1, <1>4, <1>6, Types
  <2>2. chan[c] \in [count : 0..Bound, closed : BOOLEAN, poisoned : BOOLEAN,
                     senders : Seq(Agents), receivers : Seq(Agents)]
    BY Types
  <2>3. /\ r.senders = <<>> /\ r.receivers = <<>>
        /\ r \in [count : 0..Bound, closed : BOOLEAN, poisoned : BOOLEAN,
                  senders : Seq(Agents), receivers : Seq(Agents)]
    <3>1. <<>> \in Seq(Agents)
      OBVIOUS
    <3> QED BY <2>2, <3>1
  <2>4. /\ chan[c].senders \in Seq(Agents) /\ IsInjective(chan[c].senders)
        /\ chan[c].receivers \in Seq(Agents) /\ IsInjective(chan[c].receivers)
    BY ListTypes
  <2>5. Range(chan[c].senders) \cap Range(chan[c].receivers) = {}
    <3>1. Main \in Range(chan[c].senders) => Main \notin Range(chan[c].receivers)
      BY DEF IInv, MainOK
    <3>2. ASSUME NEW x \in Range(chan[c].senders) \ {Main}, x \in Range(chan[c].receivers)
          PROVE  FALSE
      BY <3>2 DEF IInv, ParkOK
    <3> QED BY <3>1, <3>2
  <2>6. ws \in Seq(Agents) /\ IsInjective(ws)
        /\ Range(ws) = Range(chan[c].senders) \cup Range(chan[c].receivers)
    BY <2>4, <2>5, RangeConcat, InjectiveConcat
  <2>7. Range(<<>>) = {} /\ IsInjective(<<>>)
    BY DEF Range, IsInjective
  <2> HIDE DEF r, ws
  <2>8. /\ IsInjective(r.senders) /\ IsInjective(r.receivers)
        /\ Range(chan[c].senders) = Range(r.senders) \cup Range(chan[c].senders)
        /\ Range(r.senders) \cap Range(chan[c].senders) = {}
        /\ Range(chan[c].receivers) = Range(r.receivers) \cup Range(chan[c].receivers)
        /\ Range(r.receivers) \cap Range(chan[c].receivers) = {}
    BY <2>3, <2>7
  <2>9. /\ UNCHANGED <<cpu, sched, ioWait, readable, outcome, waiters, parent, halted>>
        /\ pc[a][1] \in {"code", "send", "recv", "timed", "select"}
    BY <1>1, <1>2
  <2> QED BY <1>2, <2>1, <2>3, <2>6, <2>8, <2>9, ChannelWakes
<1> QED BY <1>5, <1>6

\* Main takes itself off the channel's list and returns.
LEMMA TimedExpiredFact ==
  ASSUME IInv, TimedExpired
  PROVE  IInv'
<1> DEFINE c == pc[Main][2]
<1>1. /\ cpu = Main /\ halted = "no" /\ pc[Main][1] = "expired"
      /\ chan' = [chan EXCEPT ![c].receivers = WithoutMain(@)]
      /\ pc' = [pc EXCEPT ![Main] = Code]
      /\ UNCHANGED <<cpu, left, sched, runQueue, ioWait, readable, state,
                     outcome, waiters, parent, notified, halted>>
  BY DEF TimedExpired, Locked, At
<1>2. c \in Chans /\ pc[Main] = <<"expired", c>>
  BY <1>1, Types, Names, NodeParts
<1> HIDE DEF c
<1> DEFINE list == WithoutMain(chan[c].receivers)
<1>3. /\ list \in Seq(Agents) /\ IsInjective(list)
      /\ Range(list) = Range(chan[c].receivers) \ {Main}
  BY <1>2, ListTypes, WithoutMainFact
<1> HIDE DEF list
<1>4. /\ chan'[c].receivers = list /\ chan'[c].senders = chan[c].senders
      /\ \A e \in Chans : e # c => chan'[e] = chan[e]
      /\ chan' \in [Chans -> [count : 0..Bound, closed : BOOLEAN, poisoned : BOOLEAN,
                              senders : Seq(Agents), receivers : Seq(Agents)]]
  <2>1. chan' = [chan EXCEPT ![c].receivers = list]
    BY <1>1, <1>2, Types DEF list, c
  <2> QED BY ZenonT(30), <2>1, <1>2, <1>3, Types
<1>5. /\ pc'[Main] = Code /\ \A b \in Agents : b # Main => pc'[b] = pc[b]
      /\ pc' \in [Agents -> Nodes]
      /\ Code[1] = "code" /\ Code # <<"drain", TRUE>>
  BY <1>1, Types, Names, NodesMade DEF Code
<1>6. TypeOK'
  BY <1>1, <1>4, <1>5 DEF IInv, TypeOK, sched
<1>7. ChainOK' /\ QueueOK'
  BY <1>1, ChainKept, QueueKept DEF sched
<1>8. ParkOK'
  <2> DEFINE P == {}
  <2>1. P \in SUBSET Tasks /\ ioWait' \subseteq Tasks
    BY <1>1, ListTypes
  <2>2. \A t \in Tasks : /\ state'[t] = "Blocked" <=> (state[t] = "Blocked" \/ t \in P) /\ t \notin P
                         /\ state[t] = "Blocked" => pc'[t] = pc[t]
    BY <1>1, <1>5, Names
  <2>3. /\ \A t \in Tasks \ P : t \in ioWait' <=> t \in ioWait /\ t \notin P
        /\ \A u \in Tasks : \A t \in Tasks \ P :
             t \in Range(waiters'[u]) <=> t \in Range(waiters[u]) /\ t \notin P
    BY <1>1
  <2>4. /\ \A e \in Chans : \A t \in Tasks \ P :
             t \in Range(chan'[e].senders) <=> t \in Range(chan[e].senders) /\ t \notin P
        /\ \A e \in Chans : \A t \in Tasks \ P :
             t \in Range(chan'[e].receivers) <=> t \in Range(chan[e].receivers) /\ t \notin P
    BY <1>3, <1>4, Names
  <2>5. /\ \A u \in Tasks : Range(waiters'[u]) \subseteq Tasks /\ IsInjective(waiters'[u])
        /\ \A e \in Chans : /\ Range(chan'[e].senders) \subseteq Agents
                            /\ Range(chan'[e].receivers) \subseteq Agents
                            /\ IsInjective(chan'[e].senders)
                            /\ IsInjective(chan'[e].receivers)
    BY <1>1, <1>2, <1>3, <1>4, ListTypes
  <2>6. \A t \in P : FALSE
    OBVIOUS
  <2> HIDE DEF P
  <2> QED BY <2>1, <2>2, <2>3, <2>4, <2>5, <2>6, ParkStep
<1>9. MainOK'
  <2>1. \A e \in Chans : /\ Main \notin Range(chan[e].senders)
                         /\ Main \in Range(chan[e].receivers) => e = c
    BY <1>2 DEF IInv, MainOK
  <2>2. \A e \in Chans : /\ Main \notin Range(chan'[e].senders)
                         /\ Main \notin Range(chan'[e].receivers)
    BY <2>1, <1>3, <1>4
  <2> QED BY <2>2, <1>5 DEF MainOK
<1>10. AwaitOK'
  <2>1. \A b \in Agents : pc'[b] = pc[b] \/ pc'[b][1] \notin {"await", "awaited"}
    BY <1>5
  <2> QED BY <2>1, <1>1, AwaitUnmoved
<1>11. HaltOK'
  BY <1>1 DEF HaltOK
<1> QED BY <1>6, <1>7, <1>8, <1>9, <1>10, <1>11 DEF IInv

----------------------------------------------------------------------------
(* Leaving the CPU.                                                        *)

LEMMA SelectYieldFact ==
  ASSUME IInv, NEW a \in Agents, SelectYield(a)
  PROVE  IInv'
<1>1. /\ cpu = a /\ halted = "no" /\ current # None /\ SwitchOut(state, runQueue, ioWait)
      /\ UNCHANGED <<pc, left, readable, outcome, waiters, parent, chan, notified, halted>>
  BY DEF SelectYield, At
<1>2. /\ a \in Tasks /\ cpu # Main
  BY <1>1, CpuFact, Names
<1>3. Leaves(state, runQueue, ioWait)
  <2>1. \A t \in ioWait : state[t] = "Blocked"
    BY ReaderOnly DEF IInv, ParkOK, Waits
  <2>2. /\ state[cpu] = "Running" /\ cpu \notin Range(runQueue)
        /\ state \in [Tasks -> {"unborn", "Ready", "Running", "Blocked", "Dead", "freed"}]
        /\ runQueue \in Seq(Tasks) /\ IsInjective(runQueue)
        /\ \A t \in Tasks : t \in Range(runQueue) <=> state[t] = "Ready"
    BY <1>1, <1>2, CpuTask
  <2> QED BY <2>1, <2>2, ListTypes DEF Leaves
<1>4. Switched(state, ioWait)
  BY <1>1, <1>2, <1>3, SwitchStep
<1>5. /\ ioWait' \subseteq ioWait
      /\ \A t \in ioWait : state'[t] = IF t \in ioWait' THEN "Blocked" ELSE "Ready"
      /\ \A t \in Tasks \ ioWait : state'[t] = IF t = cpu /\ state[t] = "Running" THEN "Ready"
                                               ELSE state[t]
  BY <1>4 DEF Switched
<1>6. \A t \in ioWait : state[t] = "Blocked" /\ pc[t][1] # "awaited" /\ t \in Tasks
  BY <1>3, ReaderOnly DEF Leaves
<1>7. ParkOK'
  <2>1. \A t \in Tasks : state'[t] = "Blocked" <=>
                           state[t] = "Blocked" /\ t \notin ioWait \ ioWait'
    BY <1>5, <1>6
  <2> QED BY <2>1, <1>1, <1>5, ParkKept
<1>8. AwaitOK'
  <2>1. \A t \in Tasks : state[t] \in {"Dead", "freed"} => waiters[t] = <<>>
    BY DEF IInv, AwaitOK
  <2>2. /\ \A b \in Agents : pc'[b] = pc[b] \/ pc'[b][1] \notin {"await", "awaited"}
        /\ \A t \in Tasks : state'[t] \in {"unborn", "freed"} => state[t] \in {"unborn", "freed"}
        /\ \A t \in Tasks : state[t] = "Dead" => state'[t] = "Dead"
        /\ \A t \in Tasks : state'[t] \in {"Dead", "freed"} => waiters'[t] = <<>>
    BY <2>1, <1>1, <1>5, <1>6
  <2>3. \A b \in Tasks :
           pc'[b] = pc[b] /\ pc[b][1] = "awaited" /\ state[b] = "Blocked"
             /\ state'[b] # "Blocked" => state'[pc[b][2]] = "Dead"
    BY <1>5, <1>6
  <2> QED BY <2>2, <2>3, AwaitKept
<1>9. /\ pc' \in [Agents -> Nodes] /\ pc'[Main] = pc[Main]
      /\ outcome' \in [Tasks -> {"Running", "Completed", "Panicked"}]
      /\ waiters' \in [Tasks -> Seq(Tasks)]
      /\ chan' \in [Chans -> [count : 0..Bound, closed : BOOLEAN, poisoned : BOOLEAN,
                              senders : Seq(Agents), receivers : Seq(Agents)]]
      /\ chan' = chan
  BY <1>1, Types
<1> QED BY <1>1, <1>2, <1>3, <1>7, <1>8, <1>9, SwitchKeeps

LEMMA ReadParkFact ==
  ASSUME IInv, NEW a \in Agents, ReadPark(a)
  PROVE  IInv'
<1>1. /\ cpu = a /\ halted = "no" /\ pc[a][1] = "read" /\ current # None
      /\ SwitchOut([state EXCEPT ![current] = "Blocked"], runQueue, ioWait \cup {current})
      /\ UNCHANGED <<pc, left, readable, outcome, waiters, parent, chan, notified, halted>>
  BY DEF ReadPark, At
<1>2. a \in Tasks /\ a # Main /\ current = a /\ state[a] = "Running"
  BY <1>1, CpuFact, Names
<1>3. pc[a] = <<"read", None>>
  BY <1>1, Types, NodeParts
<1> DEFINE io == ioWait \cup {current}
<1>4. io \in SUBSET Tasks /\ a \in io /\ \A t \in Tasks : t # a => (t \in io <=> t \in ioWait)
  BY <1>2, ListTypes
<1>5. SwitchOut([state EXCEPT ![current] = "Blocked"], runQueue, io)
  BY <1>1
<1> HIDE DEF io
<1>6. /\ pc' \in [Agents -> Nodes] /\ pc'[a] = pc[a]
      /\ \A b \in Agents : b # a => pc'[b] = pc[b]
      /\ waiters' \in [Tasks -> Seq(Tasks)]
      /\ chan' \in [Chans -> [count : 0..Bound, closed : BOOLEAN, poisoned : BOOLEAN,
                              senders : Seq(Agents), receivers : Seq(Agents)]]
  BY <1>1, Types
<1>7. /\ \A u \in Tasks : a \notin Range(waiters'[u])
      /\ \A c \in Chans : a \notin Range(chan'[c].senders) /\ a \notin Range(chan'[c].receivers)
  BY <1>1, <1>2, OffLists
<1>8. /\ \A u \in Tasks : IsInjective(waiters'[u])
      /\ \A u \in Tasks : \A t \in Tasks :
           t # a => (t \in Range(waiters'[u]) <=> t \in Range(waiters[u]))
      /\ \A c \in Chans : IsInjective(chan'[c].senders) /\ IsInjective(chan'[c].receivers)
      /\ \A c \in Chans : \A t \in Agents :
           t # a => (t \in Range(chan'[c].senders) <=> t \in Range(chan[c].senders))
      /\ \A c \in Chans : \A t \in Agents :
           t # a => (t \in Range(chan'[c].receivers) <=> t \in Range(chan[c].receivers))
  BY <1>1, ListTypes
<1>9. \A u \in Tasks : state[u] \in {"Dead", "freed"} => waiters'[u] = <<>>
  BY <1>1 DEF IInv, AwaitOK
<1>10. UNCHANGED <<left, readable, outcome, parent, notified, halted>>
  BY <1>1
<1>11. pc'[a] = <<"read", None>>
  BY <1>3, <1>6
<1> QED BY <1>1, <1>2, <1>4, <1>5, <1>6, <1>7, <1>8, <1>9, <1>10, <1>11, BlockStep

LEMMA AwaitParkFact ==
  ASSUME IInv, NEW a \in Agents, AwaitPark(a)
  PROVE  IInv'
<1> DEFINE t == pc[a][2]
<1>1. /\ cpu = a /\ halted = "no" /\ pc[a][1] = "await" /\ current # None /\ state[t] # "Dead"
      /\ waiters' = [waiters EXCEPT ![t] = Append(@, current)]
      /\ pc' = [pc EXCEPT ![a] = <<"awaited", t>>]
      /\ SwitchOut([state EXCEPT ![current] = "Blocked"], runQueue, ioWait)
      /\ UNCHANGED <<left, readable, outcome, parent, chan, notified, halted>>
  BY DEF AwaitPark, At, Goto
<1>2. a \in Tasks /\ a # Main /\ current = a /\ state[a] = "Running"
  BY <1>1, CpuFact, Names
<1>3. t \in Tasks /\ state[t] \notin {"Dead", "freed"}
  <2>1. t \in Tasks
    BY <1>1, Types, NodeParts
  <2> QED BY <2>1, <1>1 DEF IInv, AwaitOK
<1>4. /\ pc' \in [Agents -> Nodes] /\ pc'[a] = <<"awaited", t>>
      /\ \A b \in Agents : b # a => pc'[b] = pc[b]
      /\ chan' \in [Chans -> [count : 0..Bound, closed : BOOLEAN, poisoned : BOOLEAN,
                              senders : Seq(Agents), receivers : Seq(Agents)]]
  <2>1. <<"awaited", t>> \in Nodes
    BY <1>3, NodesMade
  <2> QED BY <2>1, <1>1, Types
<1>5. /\ a \notin ioWait /\ \A u \in Tasks : a \notin Range(waiters[u])
      /\ \A c \in Chans : a \notin Range(chan[c].senders) /\ a \notin Range(chan[c].receivers)
  BY <1>2, OffLists
<1>6. pc[a][1] = "await" /\ pc'[a] = <<"awaited", pc[a][2]>>
  BY <1>1, <1>4
<1> HIDE DEF t
<1>7. /\ Append(waiters[t], a) \in Seq(Tasks) /\ IsInjective(Append(waiters[t], a))
      /\ Range(Append(waiters[t], a)) = Range(waiters[t]) \cup {a}
  <2>1. waiters[t] \in Seq(Tasks) /\ IsInjective(waiters[t]) /\ a \notin Range(waiters[t])
    BY <1>3, <1>5, ListTypes
  <2> QED BY <2>1, <1>2, RangeAppend
<1>8. /\ waiters'[t] = Append(waiters[t], a) /\ \A u \in Tasks : u # t => waiters'[u] = waiters[u]
      /\ waiters' \in [Tasks -> Seq(Tasks)]
  BY <1>1, <1>2, <1>3, <1>7, Types
<1>9. /\ \A u \in Tasks : IsInjective(waiters'[u])
      /\ \A u \in Tasks : \A x \in Tasks :
           x # a => (x \in Range(waiters'[u]) <=> x \in Range(waiters[u]))
      /\ \A u \in Tasks : a \in Range(waiters'[u]) => u = t
      /\ a \in Range(waiters'[t])
  BY <1>5, <1>7, <1>8, ListTypes
<1>10. /\ \A c \in Chans : IsInjective(chan'[c].senders) /\ IsInjective(chan'[c].receivers)
       /\ \A c \in Chans : \A x \in Agents :
            x # a => (x \in Range(chan'[c].senders) <=> x \in Range(chan[c].senders))
       /\ \A c \in Chans : \A x \in Agents :
            x # a => (x \in Range(chan'[c].receivers) <=> x \in Range(chan[c].receivers))
       /\ \A c \in Chans : a \notin Range(chan'[c].senders) /\ a \notin Range(chan'[c].receivers)
  BY <1>1, <1>5, ListTypes
<1>11. \A u \in Tasks : state[u] \in {"Dead", "freed"} => waiters'[u] = <<>>
  BY <1>3, <1>8 DEF IInv, AwaitOK
<1>12. UNCHANGED <<left, readable, outcome, parent, notified, halted>>
  BY <1>1
<1>13. /\ ioWait \in SUBSET Tasks /\ \E u \in Tasks : a \in Range(waiters'[u])
       /\ \A u \in Tasks : a \in Range(waiters'[u]) => pc'[a] = <<"awaited", u>>
  BY <1>3, <1>4, <1>9, ListTypes
<1> DEFINE io == ioWait
<1>14. /\ io \in SUBSET Tasks /\ a \notin io
       /\ \A x \in Tasks : x # a => (x \in io <=> x \in ioWait)
       /\ SwitchOut([state EXCEPT ![current] = "Blocked"], runQueue, io)
  BY <1>1, <1>5, <1>13
<1> HIDE DEF io
<1> QED BY <1>1, <1>2, <1>4, <1>6, <1>8, <1>9, <1>10, <1>11, <1>12, <1>13, <1>14, BlockStep

\* The caller is put at the end of one list of the channel it is at, and
\* parks: a task leaves the CPU, Main goes on to drive the queue.
LEMMA ParkFact ==
  ASSUME IInv, NEW a \in Agents, cpu = a, halted = "no", NEW c \in Chans,
         NEW p \in {"send", "recv", "timed"}, pc[a] = <<p, c>>,
         NEW parked \in {"sendParked", "recvParked", "timedParked"},
         parked = "sendParked" <=> p = "send", Park(a, parked),
         chan' \in [Chans -> [count : 0..Bound, closed : BOOLEAN, poisoned : BOOLEAN,
                              senders : Seq(Agents), receivers : Seq(Agents)]],
         \A e \in Chans : e # c => chan'[e] = chan[e],
         chan'[c].senders = IF p = "send" THEN Append(chan[c].senders, a) ELSE chan[c].senders,
         chan'[c].receivers = IF p = "send" THEN chan[c].receivers
                              ELSE Append(chan[c].receivers, a)
  PROVE  IInv'
<1>1. ASSUME NEW s \in Seq(Agents), IsInjective(s), a \notin Range(s)
      PROVE  /\ IsInjective(Append(s, a))
             /\ Range(Append(s, a)) = Range(s) \cup {a}
  BY <1>1, RangeAppend
<1>2. \A e \in Chans : a \notin Range(chan[e].senders) /\ a \notin Range(chan[e].receivers)
  <2>1. CASE a = Main
    BY <2>1, MainOffLists
  <2>2. CASE a # Main
    BY <2>2, CpuFact, OffLists
  <2> QED BY <2>1, <2>2
<1>3. /\ IsInjective(chan'[c].senders)
      /\ Range(chan'[c].senders) = IF p = "send" THEN Range(chan[c].senders) \cup {a}
                                   ELSE Range(chan[c].senders)
  <2>1. /\ chan[c].senders \in Seq(Agents) /\ IsInjective(chan[c].senders)
        /\ a \notin Range(chan[c].senders)
    BY <1>2, ListTypes
  <2> QED BY <2>1, <1>1
<1>4. /\ IsInjective(chan'[c].receivers)
      /\ Range(chan'[c].receivers) = IF p = "send" THEN Range(chan[c].receivers)
                                     ELSE Range(chan[c].receivers) \cup {a}
  <2>1. /\ chan[c].receivers \in Seq(Agents) /\ IsInjective(chan[c].receivers)
        /\ a \notin Range(chan[c].receivers)
    BY <1>2, ListTypes
  <2> QED BY <2>1, <1>1
<1>5. /\ \A e \in Chans : IsInjective(chan'[e].senders) /\ IsInjective(chan'[e].receivers)
      /\ \A e \in Chans : \A x \in Agents :
           x # a => (x \in Range(chan'[e].senders) <=> x \in Range(chan[e].senders))
      /\ \A e \in Chans : \A x \in Agents :
           x # a => (x \in Range(chan'[e].receivers) <=> x \in Range(chan[e].receivers))
      /\ \A e \in Chans : /\ a \in Range(chan'[e].senders) <=> (p = "send" /\ e = c)
                          /\ a \in Range(chan'[e].receivers) <=> (p # "send" /\ e = c)
  BY <1>2, <1>3, <1>4, ListTypes
<1>6. CASE a # Main
  <2>1. /\ SwitchOut([state EXCEPT ![current] = "Blocked"], runQueue, ioWait)
        /\ UNCHANGED <<pc, left, readable, outcome, waiters, parent, notified, halted>>
    <3>1. current # None
      BY <1>6, CpuFact, Names
    <3> QED BY <3>1 DEF Park
  <2>2. a \in Tasks /\ state[a] = "Running"
    BY <1>6, CpuFact
  <2>3. /\ pc' \in [Agents -> Nodes] /\ pc'[a] = pc[a]
        /\ \A b \in Agents : b # a => pc'[b] = pc[b]
        /\ waiters' \in [Tasks -> Seq(Tasks)]
    BY <2>1, Types
  <2>4. /\ a \notin ioWait /\ \A u \in Tasks : a \notin Range(waiters'[u])
    BY <2>1, <2>2, OffLists
  <2>5. /\ \A u \in Tasks : IsInjective(waiters'[u])
        /\ \A u \in Tasks : \A x \in Tasks :
             x # a => (x \in Range(waiters'[u]) <=> x \in Range(waiters[u]))
    BY <2>1, ListTypes
  <2>6. \A u \in Tasks : state[u] \in {"Dead", "freed"} => waiters'[u] = <<>>
    BY <2>1 DEF IInv, AwaitOK
  <2>7. UNCHANGED <<left, readable, outcome, parent, notified, halted>>
    BY <2>1
  <2>8. \A e \in Chans :
          /\ a \in Range(chan'[e].senders) => pc'[a] = <<"send", e>>
          /\ a \in Range(chan'[e].receivers) => pc'[a] \in {<<"recv", e>>, <<"timed", e>>}
    BY <2>3, <1>5
  <2>9. \E e \in Chans : a \in Range(chan'[e].senders) \cup Range(chan'[e].receivers)
    BY <1>5
  <2> DEFINE io == ioWait
  <2>10. /\ io \in SUBSET Tasks /\ a \notin io
         /\ \A x \in Tasks : x # a => (x \in io <=> x \in ioWait)
         /\ SwitchOut([state EXCEPT ![current] = "Blocked"], runQueue, io)
    BY <2>1, <2>4, ListTypes
  <2> HIDE DEF io
  <2> QED BY <1>5, <2>2, <2>3, <2>4, <2>5, <2>6, <2>7, <2>8, <2>9, <2>10, BlockStep
<1>7. CASE a = Main
  <2>1. /\ notified' = FALSE /\ pc' = [pc EXCEPT ![Main] = <<parked, c>>]
        /\ UNCHANGED <<cpu, left, sched, runQueue, ioWait, readable, state,
                       outcome, waiters, parent, halted>>
    <3>1. current = None /\ pc[a][2] = c
      BY <1>7, CpuFact
    <3> QED BY <3>1, <1>7 DEF Park, Goto
  <2>2. /\ pc'[Main] = <<parked, c>> /\ \A b \in Agents : b # Main => pc'[b] = pc[b]
        /\ pc' \in [Agents -> Nodes]
    BY <2>1, Types, Names, NodesMade
  <2>3. TypeOK'
    BY <2>1, <2>2 DEF IInv, TypeOK, sched
  <2>4. ChainOK' /\ QueueOK'
    BY <2>1, ChainKept, QueueKept DEF sched
  <2>5. ParkOK'
    <3> DEFINE P == {}
    <3>1. P \in SUBSET Tasks /\ ioWait' \subseteq Tasks
      BY <2>1, ListTypes
    <3>2. \A t \in Tasks : /\ state'[t] = "Blocked" <=> (state[t] = "Blocked" \/ t \in P) /\ t \notin P
                           /\ state[t] = "Blocked" => pc'[t] = pc[t]
      BY <2>1, <2>2, Names
    <3>3. /\ \A t \in Tasks \ P : t \in ioWait' <=> t \in ioWait /\ t \notin P
          /\ \A u \in Tasks : \A t \in Tasks \ P :
               t \in Range(waiters'[u]) <=> t \in Range(waiters[u]) /\ t \notin P
      BY <2>1
    <3>4. /\ \A e \in Chans : \A t \in Tasks \ P :
               t \in Range(chan'[e].senders) <=> t \in Range(chan[e].senders) /\ t \notin P
          /\ \A e \in Chans : \A t \in Tasks \ P :
               t \in Range(chan'[e].receivers) <=> t \in Range(chan[e].receivers) /\ t \notin P
      BY <1>5, <1>7, Names
    <3>5. /\ \A u \in Tasks : Range(waiters'[u]) \subseteq Tasks /\ IsInjective(waiters'[u])
          /\ \A e \in Chans : /\ Range(chan'[e].senders) \subseteq Agents
                              /\ Range(chan'[e].receivers) \subseteq Agents
                              /\ IsInjective(chan'[e].senders)
                              /\ IsInjective(chan'[e].receivers)
      BY SMTT(30), <2>1, <1>3, <1>4, <1>5, ListTypes
    <3>6. \A t \in P : FALSE
      OBVIOUS
    <3> HIDE DEF P
    <3> QED BY <3>1, <3>2, <3>3, <3>4, <3>5, <3>6, ParkStep
  <2>6. MainOK'
    <3>1. CASE p = "send"
      <4>1. \A e \in Chans : /\ Main \notin Range(chan'[e].receivers)
                             /\ Main \in Range(chan'[e].senders) => e = c
        BY <3>1, <1>5, <1>7
      <4>2. pc'[Main] = <<"sendParked", c>>
        BY <2>2, <3>1
      <4> QED BY <4>1, <4>2, <2>1 DEF MainOK
    <3>2. CASE p # "send"
      <4>1. \A e \in Chans : /\ Main \notin Range(chan'[e].senders)
                             /\ Main \in Range(chan'[e].receivers) => e = c
        BY <3>2, <1>5, <1>7
      <4>2. parked \in {"recvParked", "timedParked"}
        BY <3>2
      <4> QED BY <4>1, <4>2, <2>1, <2>2, MainOnOne
    <3> QED BY <3>1, <3>2
  <2>7. AwaitOK'
    <3>1. \A b \in Agents : pc'[b] = pc[b] \/ pc'[b][1] \notin {"await", "awaited"}
      BY <2>2
    <3> QED BY <3>1, <2>1, AwaitUnmoved
  <2>8. HaltOK'
    BY <2>1 DEF HaltOK
  <2> QED BY <2>3, <2>4, <2>5, <2>6, <2>7, <2>8 DEF IInv
<1> QED BY <1>6, <1>7

LEMMA ParksFact ==
  ASSUME IInv, NEW a \in Agents, SendPark(a) \/ RecvPark(a)
  PROVE  IInv'
<1> DEFINE c == pc[a][2]
           p == pc[a][1]
<1>1. cpu = a /\ halted = "no" /\ p \in {"send", "recv", "timed"}
  BY DEF SendPark, RecvPark, Locked, At
<1>2. c \in Chans /\ pc[a] = <<p, c>> /\ Caller = a
  BY <1>1, Types, NodeParts, CpuFact
<1>3. PICK parked \in {"sendParked", "recvParked", "timedParked"} :
        (parked = "sendParked" <=> p = "send") /\ Park(a, parked)
  BY <1>1 DEF SendPark, RecvPark, Locked, At
<1>4. chan' = IF p = "send" THEN [chan EXCEPT ![c].senders = Append(@, a)]
              ELSE [chan EXCEPT ![c].receivers = Append(@, a)]
  BY <1>2 DEF SendPark, RecvPark, Locked, At
<1> HIDE DEF c, p
<1>5. /\ Append(chan[c].senders, a) \in Seq(Agents)
      /\ Append(chan[c].receivers, a) \in Seq(Agents)
  BY <1>2, ListTypes
<1>6. CASE p = "send"
  <2>1. /\ chan' \in [Chans -> [count : 0..Bound, closed : BOOLEAN, poisoned : BOOLEAN,
                                senders : Seq(Agents), receivers : Seq(Agents)]]
        /\ \A e \in Chans : e # c => chan'[e] = chan[e]
        /\ chan'[c].senders = Append(chan[c].senders, a)
        /\ chan'[c].receivers = chan[c].receivers
    BY <1>2, <1>4, <1>5, <1>6, Types
  <2> QED BY <2>1, <1>1, <1>2, <1>3, <1>6, ParkFact
<1>7. CASE p # "send"
  <2>1. /\ chan' \in [Chans -> [count : 0..Bound, closed : BOOLEAN, poisoned : BOOLEAN,
                                senders : Seq(Agents), receivers : Seq(Agents)]]
        /\ \A e \in Chans : e # c => chan'[e] = chan[e]
        /\ chan'[c].senders = chan[c].senders
        /\ chan'[c].receivers = Append(chan[c].receivers, a)
    BY <1>2, <1>4, <1>5, <1>7, Types
  <2> QED BY <2>1, <1>1, <1>2, <1>3, <1>7, ParkFact
<1> QED BY <1>6, <1>7

\* A task dies: those that wait for it are ready before it is left.
LEMMA DieFact ==
  ASSUME IInv, NEW a \in Tasks, cpu = a, halted = "no", NEW how \in {"Completed", "Panicked"},
         Die(a, how)
  PROVE  IInv'
<1> DEFINE ws == waiters[a]
           st == [u \in Tasks |-> IF u = a THEN "Dead"
                                  ELSE IF u \in Range(ws) THEN "Ready" ELSE state[u]]
           q == runQueue \o ws
           W == Range(ws) \cup (ioWait \ ioWait')
           P == {}
<1>1. /\ outcome' = [outcome EXCEPT ![a] = how] /\ waiters' = [waiters EXCEPT ![a] = <<>>]
      /\ SwitchOut(st, q, ioWait)
      /\ UNCHANGED <<pc, left, readable, parent, chan, notified, halted>>
  BY DEF Die
<1>2. /\ a # Main /\ state[a] = "Running" /\ a \notin Range(runQueue)
      /\ state \in [Tasks -> {"unborn", "Ready", "Running", "Blocked", "Dead", "freed"}]
      /\ runQueue \in Seq(Tasks) /\ IsInjective(runQueue)
      /\ \A t \in Tasks : t \in Range(runQueue) <=> state[t] = "Ready"
  BY CpuTask
<1>3. /\ ws \in Seq(Tasks) /\ IsInjective(ws) /\ Range(ws) \subseteq Tasks
      /\ a \notin Range(ws) /\ a \notin ioWait
  BY <1>2, ListTypes, OffLists
<1>4. ASSUME NEW t \in Range(ws)
      PROVE  /\ t \in Tasks /\ state[t] = "Blocked" /\ pc[t] = <<"awaited", a>> /\ t # a
             /\ t \notin ioWait /\ t \notin Range(runQueue)
             /\ \A u \in Tasks : u # a => t \notin Range(waiters[u])
             /\ \A c \in Chans : t \notin Range(chan[c].senders) /\ t \notin Range(chan[c].receivers)
  <2>1. t \in Tasks /\ t # Main /\ pc[t] = <<"awaited", a>>
    BY <1>3, Names DEF IInv, ParkOK
  <2>2. state[t] = "Blocked"
    BY <2>1 DEF IInv, ParkOK, Waits
  <2>3. /\ t \notin ioWait
        /\ \A u \in Tasks : u # a => t \notin Range(waiters[u])
        /\ \A c \in Chans : t \notin Range(chan[c].senders) /\ t \notin Range(chan[c].receivers)
    BY <2>1 DEF IInv, ParkOK
  <2> QED BY <2>1, <2>2, <2>3, <1>2
<1>5. q \in Seq(Tasks) /\ IsInjective(q) /\ Range(q) = Range(runQueue) \cup Range(ws)
  <2>1. Range(runQueue) \cap Range(ws) = {}
    BY <1>4
  <2> QED BY <2>1, <1>2, <1>3, RangeConcat, InjectiveConcat
<1>6. /\ st \in [Tasks -> {"unborn", "Ready", "Running", "Blocked", "Dead", "freed"}]
      /\ st[a] = "Dead" /\ \A t \in Range(ws) : st[t] = "Ready"
      /\ \A t \in Tasks : t # a /\ t \notin Range(ws) => st[t] = state[t]
  BY <1>2, <1>3
<1>7. ASSUME NEW t \in ioWait
      PROVE  /\ t \in Tasks /\ t \notin Range(ws) /\ t # a /\ st[t] = "Blocked"
             /\ state[t] = "Blocked" /\ pc[t][1] # "awaited"
             /\ \A u \in Tasks : t \notin Range(waiters[u])
             /\ \A c \in Chans : t \notin Range(chan[c].senders) /\ t \notin Range(chan[c].receivers)
  <2>1. state[t] = "Blocked"
    BY ListTypes DEF IInv, ParkOK, Waits
  <2>2. /\ t \in Tasks /\ pc[t] = <<"read", None>>
        /\ \A u \in Tasks : t \notin Range(waiters[u])
        /\ \A c \in Chans : t \notin Range(chan[c].senders) /\ t \notin Range(chan[c].receivers)
    BY ReaderOnly
  <2>3. t \notin Range(ws) /\ t # a
    BY <1>3, <2>2
  <2> QED BY <2>1, <2>2, <2>3, <1>6
<1> HIDE DEF ws, st, q
<1>8. Leaves(st, q, ioWait)
  <2>1. ASSUME NEW t \in Tasks, t # a
        PROVE  /\ t \in Range(q) <=> st[t] = "Ready"
               /\ st[t] = "Running" <=> state[t] = "Running"
    BY <2>1, <1>2, <1>4, <1>5, <1>6
  <2> QED BY <2>1, <1>2, <1>3, <1>5, <1>6, <1>7, ListTypes DEF Leaves
<1>9. cpu # Main /\ Switched(st, ioWait)
  BY <1>1, <1>2, <1>8, SwitchStep
<1>10. /\ ioWait' \subseteq ioWait
       /\ \A t \in ioWait : state'[t] = IF t \in ioWait' THEN "Blocked" ELSE "Ready"
       /\ \A t \in Tasks \ ioWait : state'[t] = st[t]
  <2>1. \A t \in Tasks : ~(t = cpu /\ st[t] = "Running")
    BY <1>6
  <2> QED BY <2>1, <1>9 DEF Switched
<1>11. /\ waiters'[a] = <<>> /\ \A u \in Tasks : u # a => waiters'[u] = waiters[u]
       /\ waiters' \in [Tasks -> Seq(Tasks)]
       /\ outcome' \in [Tasks -> {"Running", "Completed", "Panicked"}]
  <2>1. <<>> \in Seq(Tasks)
    OBVIOUS
  <2> QED BY <2>1, <1>1, Types
<1>12. Range(<<>>) = {} /\ IsInjective(<<>>)
  BY DEF Range, IsInjective
<1>13. ParkOK'
  <2>1. P \in SUBSET Tasks /\ W \in SUBSET Tasks /\ ioWait' \subseteq Tasks
    BY <1>3, <1>10, ListTypes
  <2>2. ASSUME NEW t \in Tasks
        PROVE  state'[t] = "Blocked" <=> (state[t] = "Blocked" \/ t \in P) /\ t \notin W
    <3>1. CASE t \in ioWait
      BY <3>1, <1>7, <1>10
    <3>2. CASE t \notin ioWait
      BY <3>2, <1>2, <1>6, <1>10
    <3> QED BY <3>1, <3>2
  <2>3. \A t \in Tasks : state[t] = "Blocked" => pc'[t] = pc[t]
    BY <1>1
  <2>4. \A t \in Tasks \ P : t \in ioWait' <=> t \in ioWait /\ t \notin W
    BY <1>7, <1>10
  <2>5. \A u \in Tasks : \A t \in Tasks \ P :
          t \in Range(waiters'[u]) <=> t \in Range(waiters[u]) /\ t \notin W
    BY <1>4, <1>7, <1>11, <1>12 DEF ws
  <2>6. /\ \A c \in Chans : \A t \in Tasks \ P :
             t \in Range(chan'[c].senders) <=> t \in Range(chan[c].senders) /\ t \notin W
        /\ \A c \in Chans : \A t \in Tasks \ P :
             t \in Range(chan'[c].receivers) <=> t \in Range(chan[c].receivers) /\ t \notin W
    BY <1>1, <1>4, <1>7
  <2>7. /\ \A u \in Tasks : Range(waiters'[u]) \subseteq Tasks /\ IsInjective(waiters'[u])
        /\ \A c \in Chans : /\ Range(chan'[c].senders) \subseteq Agents
                            /\ Range(chan'[c].receivers) \subseteq Agents
                            /\ IsInjective(chan'[c].senders)
                            /\ IsInjective(chan'[c].receivers)
    BY <1>1, <1>11, <1>12, ListTypes
  <2>8. \A t \in P : FALSE
    OBVIOUS
  <2> HIDE DEF W, P
  <2> QED BY <2>1, <2>2, <2>3, <2>4, <2>5, <2>6, <2>7, <2>8, ParkStep
<1>14. AwaitOK'
  <2>1. ASSUME NEW t \in Tasks
        PROVE  /\ state'[t] \in {"unborn", "freed"} => state[t] \in {"unborn", "freed"}
               /\ state[t] = "Dead" => state'[t] = "Dead"
               /\ state'[t] \in {"Dead", "freed"} => waiters'[t] = <<>>
    <3>1. state[t] \in {"Dead", "freed"} => waiters[t] = <<>>
      BY DEF IInv, AwaitOK
    <3>2. CASE t \in ioWait
      BY <3>2, <1>7, <1>10
    <3>3. CASE t \notin ioWait /\ t \in Range(ws)
      BY <3>3, <1>4, <1>6, <1>10
    <3>4. CASE t \notin ioWait /\ t \notin Range(ws)
      BY <3>1, <3>4, <1>2, <1>6, <1>10, <1>11
    <3> QED BY <3>2, <3>3, <3>4
  <2>2. \A b \in Agents : pc'[b] = pc[b]
    BY <1>1
  <2>3. ASSUME NEW b \in Tasks, pc[b][1] = "awaited", state[b] = "Blocked", state'[b] # "Blocked"
        PROVE  state'[pc[b][2]] = "Dead"
    <3>1. b \notin ioWait /\ b # a
      BY <2>3, <1>2, <1>7
    <3>2. b \in Range(ws)
      BY <2>3, <3>1, <1>6, <1>10
    <3>3. pc[b][2] = a
      BY <3>2, <1>4
    <3> QED BY <3>3, <1>3, <1>6, <1>10
  <2>4. \A b \in Tasks :
           pc'[b] = pc[b] /\ pc[b][1] = "awaited" /\ state[b] = "Blocked"
             /\ state'[b] # "Blocked" => state'[pc[b][2]] = "Dead"
    BY <2>3
  <2> QED BY <2>1, <2>2, <2>4, AwaitKept
<1>15. /\ pc' \in [Agents -> Nodes] /\ pc'[Main] = pc[Main]
       /\ chan' \in [Chans -> [count : 0..Bound, closed : BOOLEAN, poisoned : BOOLEAN,
                               senders : Seq(Agents), receivers : Seq(Agents)]]
       /\ chan' = chan /\ UNCHANGED <<left, readable, parent, notified, halted>>
  BY <1>1, Types
<1>16. \A c \in Chans :
         /\ Main \in Range(chan'[c].senders) => Main \in Range(chan[c].senders)
         /\ Main \in Range(chan'[c].receivers) => Main \in Range(chan[c].receivers)
  BY <1>15
<1> QED BY <1>1, <1>8, <1>9, <1>11, <1>13, <1>14, <1>15, <1>16, SwitchKeeps

LEMMA DeathsFact ==
  ASSUME IInv, NEW a \in Agents, Return(a) \/ CheckFail(a) \/ Panics(a)
  PROVE  IInv'
<1>1. cpu = a /\ halted = "no"
  BY DEF Return, CheckFail, Panics, At
<1>2. PICK how \in {"exited", "failed", "aborted"}, end \in {"Completed", "Panicked"} :
        Halt(how) \/ (a # Main /\ Die(a, end))
  BY DEF Return, CheckFail, Panics
<1>3. CASE Halt(how)
  BY <1>3, HaltFact
<1>4. CASE a # Main /\ Die(a, end)
  BY <1>1, <1>4, Names, DieFact
<1> QED BY <1>2, <1>3, <1>4

----------------------------------------------------------------------------
(* The invariant.                                                          *)

LEMMA InitInv == Init => IInv
<1> SUFFICES ASSUME Init PROVE IInv
  OBVIOUS
<1>1. Range(<<>>) = {} /\ IsInjective(<<>>) /\ \A S : <<>> \in Seq(S)
  BY DEF Range, IsInjective
<1>2. /\ Code \in Nodes /\ Code[1] = "code" /\ Code # <<"drain", TRUE>>
  BY NodesMade DEF Code
<1>3. Bound \in Nat /\ 0 \in 0..Bound /\ 0 \in 0..PollInterval - 1
  BY NumbersAssumption DEF Bound
<1>4. Driving = {} /\ \A a \in Agents : frame[a] = NoFrame /\ pc[a] = Code
  BY DEF Init, Driving
<1>5. NoFrame \in [task : Tasks \cup {None}, current : Tasks \cup {None},
                   ctx : Agents \cup {None}]
  BY DEF NoFrame
<1>6. \A c \in Chans : chan[c].senders = <<>> /\ chan[c].receivers = <<>>
  BY DEF Init
<1>7. TypeOK
  <2>1. /\ cpu \in Agents /\ pc \in [Agents -> Nodes] /\ left \in [Agents -> Nat]
        /\ frame \in [Agents -> [task : Tasks \cup {None}, current : Tasks \cup {None},
                                 ctx : Agents \cup {None}]]
        /\ current \in Tasks \cup {None} /\ schCtx \in Agents \cup {None}
    BY <1>2, <1>5, Names, NumbersAssumption DEF Init
  <2>2. /\ runQueue \in Seq(Tasks) /\ tick \in 0..PollInterval - 1
        /\ ioWait \subseteq Tasks /\ readable \subseteq Agents
        /\ state \in [Tasks -> {"unborn", "Ready", "Running", "Blocked", "Dead", "freed"}]
        /\ outcome \in [Tasks -> {"Running", "Completed", "Panicked"}]
        /\ waiters \in [Tasks -> Seq(Tasks)] /\ parent \in [Tasks -> Agents \cup {None}]
    BY <1>1, <1>3 DEF Init
  <2>3. /\ chan \in [Chans -> [count : 0..Bound, closed : BOOLEAN, poisoned : BOOLEAN,
                               senders : Seq(Agents), receivers : Seq(Agents)]]
        /\ notified \in BOOLEAN
        /\ halted \in {"no", "exited", "failed", "aborted", "deadlock"}
    BY <1>1, <1>3 DEF Init
  <2> QED BY <2>1, <2>2, <2>3 DEF TypeOK
<1>8. ChainOK
  BY <1>4 DEF Init, ChainOK, ChainSound
<1>9. QueueOK
  BY <1>1, <1>4 DEF Init, QueueOK
<1>10. ParkOK
  BY <1>1, <1>6 DEF Init, ParkOK, Waits
<1>11. MainOK
  <2>1. pc[Main] = Code
    BY <1>4, Names
  <2> QED BY <2>1, <1>1, <1>2, <1>6 DEF MainOK
<1>12. AwaitOK
  <2>1. \A a \in Agents : pc[a][1] \notin {"await", "awaited"}
    BY <1>2, <1>4
  <2>2. \A u \in Tasks : waiters[u] = <<>>
    BY DEF Init
  <2> QED BY <2>1, <2>2, Names DEF AwaitOK
<1>13. HaltOK
  BY DEF Init, HaltOK
<1> QED BY <1>7, <1>8, <1>9, <1>10, <1>11, <1>12, <1>13 DEF IInv

LEMMA StutterInv == IInv /\ UNCHANGED vars => IInv'
<1> SUFFICES ASSUME IInv, UNCHANGED vars PROVE IInv'
  OBVIOUS
<1>1. UNCHANGED <<cpu, pc, left, sched, runQueue, ioWait, readable, state, outcome, waiters,
                  parent, chan, notified, halted>>
  BY DEF vars, sched
<1>2. TypeOK'
  BY <1>1 DEF IInv, TypeOK, sched
<1>3. ChainOK' /\ QueueOK'
  BY <1>1, ChainKept, QueueKept DEF sched
<1>4. ParkOK' /\ MainOK' /\ AwaitOK'
  BY <1>1, ParkKept, MainKept, AwaitUnmoved
<1>5. HaltOK'
  BY <1>1 DEF IInv, HaltOK, sched
<1> QED BY <1>2, <1>3, <1>4, <1>5 DEF IInv

LEMMA NextInv == IInv /\ [Next]_vars => IInv'
<1> SUFFICES ASSUME IInv, Next PROVE IInv'
  BY StutterInv
<1>1. CASE \E a \in Agents : CallStep(a)
  <2>1. PICK a \in Agents : CallStep(a)
    BY <1>1
  <2>2. CASE \/ CallSend(a) \/ CallRecv(a) \/ CallTimed(a) \/ CallSelect(a) \/ CallRead(a)
             \/ CallDrain(a)
    BY <2>2, CallsFact
  <2>3. CASE CallAwait(a)
    BY <2>3, CallAwaitFact
  <2>4. CASE Spawn(a)
    BY <2>4, SpawnFact
  <2>5. CASE Close(a)
    BY <2>5, CloseFact
  <2> QED BY <2>1, <2>2, <2>3, <2>4, <2>5 DEF CallStep
<1>2. CASE \E a \in Agents : RunStep(a)
  <2>1. PICK a \in Agents : RunStep(a)
    BY <1>2
  <2>2. CASE Return(a) \/ CheckFail(a) \/ Panics(a)
    BY <2>2, DeathsFact
  <2>3. CASE AwaitDead(a) \/ AwaitResumed(a)
    BY <2>3, ConsumeFact
  <2>4. CASE AwaitPark(a)
    BY <2>4, AwaitParkFact
  <2>5. CASE DrainDispatch(a)
    BY <2>5, DispatchesFact
  <2>6. CASE DrainIdle(a)
    BY <2>6, IdlesFact
  <2>7. CASE PoisonedLock(a)
    BY <2>7, PoisonedLockFact
  <2>8. CASE SendClosed(a) \/ RecvNothing(a) \/ Read(a)
    BY <2>8, PlainMovesFact
  <2>9. CASE Send(a)
    BY <2>9, SendFact
  <2>10. CASE Recv(a)
    BY <2>10, RecvFact
  <2>11. CASE SendPark(a) \/ RecvPark(a)
    BY <2>11, ParksFact
  <2>12. CASE SelectFires(a)
    BY <2>12, SelectFiresFact
  <2>13. CASE SelectYield(a)
    BY <2>13, SelectYieldFact
  <2>14. CASE ReadPark(a)
    BY <2>14, ReadParkFact
  <2> QED BY <2>1, <2>2, <2>3, <2>4, <2>5, <2>6, <2>7, <2>8, <2>9, <2>10, <2>11, <2>12,
             <2>13, <2>14 DEF RunStep
<1>3. CASE MainStep
  <2>1. CASE AwaitDispatch \/ ParkDispatch \/ TimedDispatch \/ SelectDispatch
    BY <2>1, DispatchesFact
  <2>2. CASE AwaitIdle \/ ParkIdle \/ SelectIdle
    BY <2>2, IdlesFact
  <2>3. CASE Notified \/ TimedAgain \/ TimedOut
    BY <2>3, MainMovesFact
  <2>4. CASE TimedExpired
    BY <2>4, TimedExpiredFact
  <2> QED BY <1>3, <2>1, <2>2, <2>3, <2>4 DEF MainStep
<1>4. CASE \E a \in Agents : Arrive(a)
  BY <1>4, ArriveFact
<1> QED BY <1>1, <1>2, <1>3, <1>4 DEF Next, ThreadStep

\* IInv is inductive: Init establishes it and every step preserves it.
THEOREM Invariance == Spec => []IInv
BY InitInv, NextInv, PTL DEF Spec

----------------------------------------------------------------------------
(* What follows.                                                           *)

\* Every variable keeps its type (SchedulerState, ZoTask, ChannelInner).
THEOREM TypeCorrect == Spec => []TypeOK
<1>1. IInv => TypeOK
  BY DEF IInv
<1> QED BY <1>1, Invariance, PTL

\* However deep run_one is nested, the current task and the context a yield
\* goes to are those of the agent on the CPU (run_one).
THEOREM DispatchIsNested == Spec => []ChainSound
<1>1. IInv => ChainSound
  BY DEF IInv, ChainOK
<1> QED BY <1>1, Invariance, PTL

\* A task awaited is neither gone when its awaiter looks for it nor alive when
\* the awaiter frees it (await_task).
THEOREM AwaitConsumesTheDead == Spec => []AwaitedIsDead
<1>1. IInv => AwaitedIsDead
  BY DEF IInv, AwaitOK, AwaitedIsDead
<1> QED BY <1>1, Invariance, PTL

\* The runtime reports a deadlock only if nothing can run and no fd is waited
\* for (drain_until_dead).
THEOREM DeadlocksAreReal == Spec => []DeadlockIsGenuine
<1>1. ASSUME IInv, halted = "deadlock"
      PROVE  ioWait = {} /\ \A t \in Tasks : state[t] \notin {"Ready", "Running"}
  <2>1. cpu = Main /\ runQueue = <<>> /\ ioWait = {}
    BY <1>1 DEF IInv, HaltOK
  <2>2. Driving = {} /\ Range(<<>>) = {}
    BY <1>1, <2>1, CpuFact DEF Range
  <2> QED BY <1>1, <2>1, <2>2 DEF IInv, QueueOK
<1>2. IInv => DeadlockIsGenuine
  BY <1>1 DEF DeadlockIsGenuine
<1> QED BY <1>2, Invariance, PTL

\* The places on a list: one for a task that is on it, none for another.
LEMMA SpotsFact ==
  ASSUME NEW list, IsInjective(list), NEW t, NEW tag
  PROVE  /\ \A x, y \in Spots(list, t, tag) : x = y
         /\ Spots(list, t, tag) = {} <=> t \notin Range(list)
<1>1. \A x : x \in Spots(list, t, tag) <=> \E i \in DOMAIN list : list[i] = t /\ x = <<tag, i>>
  BY DEF Spots
<1>2. \A i, j \in DOMAIN list : list[i] = t /\ list[j] = t => i = j
  BY DEF IsInjective
<1>3. Spots(list, t, tag) = {} <=> t \notin Range(list)
  BY <1>1 DEF Range
<1> QED BY <1>1, <1>2, <1>3

\* A parked task is on one list, at one place.
LEMMA ParkedOnce ==
  ASSUME IInv, NEW t \in Tasks
  PROVE  /\ \A x, y \in ParkedAt(t) : x = y
         /\ ParkedAt(t) = {} <=> state[t] # "Blocked"
<1> DEFINE s(c) == Spots(chan[c].senders, t, <<"send", c>>)
           r(c) == Spots(chan[c].receivers, t, <<"recv", c>>)
           w(u) == Spots(waiters[u], t, <<"await", u>>)
           io == <<<<"read", t>>, 1>>
<1>1. \A x : x \in ParkedAt(t) <=> \/ \E c \in Chans : x \in s(c)
                                   \/ \E c \in Chans : x \in r(c)
                                   \/ \E u \in Tasks : x \in w(u)
                                   \/ t \in ioWait /\ x = io
  <2>1. PICK S, R, W, O : /\ S = UNION {s(c) : c \in Chans}
                          /\ R = UNION {r(c) : c \in Chans}
                          /\ W = UNION {w(u) : u \in Tasks}
                          /\ O = IF t \in ioWait THEN {io} ELSE {}
    BY Zenon
  <2>2. ParkedAt(t) = S \cup R \cup W \cup O
    BY <2>1, Zenon DEF ParkedAt
  <2> HIDE DEF s, r, w, io
  <2>3. /\ \A x : x \in S <=> \E c \in Chans : x \in s(c)
        /\ \A x : x \in R <=> \E c \in Chans : x \in r(c)
        /\ \A x : x \in W <=> \E u \in Tasks : x \in w(u)
        /\ \A x : x \in O <=> t \in ioWait /\ x = io
    BY <2>1
  <2> QED BY <2>2, <2>3
<1>2. /\ \A c \in Chans : (\A x, y \in s(c) : x = y) /\ (s(c) = {} <=> t \notin Range(chan[c].senders))
      /\ \A c \in Chans : (\A x, y \in r(c) : x = y) /\ (r(c) = {} <=> t \notin Range(chan[c].receivers))
      /\ \A u \in Tasks : (\A x, y \in w(u) : x = y) /\ (w(u) = {} <=> t \notin Range(waiters[u]))
  <2>1. ASSUME NEW c \in Chans
        PROVE  /\ (\A x, y \in s(c) : x = y) /\ (s(c) = {} <=> t \notin Range(chan[c].senders))
               /\ (\A x, y \in r(c) : x = y) /\ (r(c) = {} <=> t \notin Range(chan[c].receivers))
    BY ListTypes, SpotsFact
  <2>2. ASSUME NEW u \in Tasks
        PROVE  (\A x, y \in w(u) : x = y) /\ (w(u) = {} <=> t \notin Range(waiters[u]))
    BY ListTypes, SpotsFact
  <2> QED BY <2>1, <2>2
<1> HIDE DEF s, r, w, io
<1>3. /\ \A c \in Chans : s(c) # {} => pc[t] = <<"send", c>>
      /\ \A c \in Chans : r(c) # {} => pc[t] \in {<<"recv", c>>, <<"timed", c>>}
      /\ \A u \in Tasks : w(u) # {} => pc[t] = <<"awaited", u>>
      /\ t \in ioWait => pc[t] = <<"read", None>>
  BY <1>2, Names DEF IInv, ParkOK
<1>4. /\ \A c, d \in Chans : s(c) # {} /\ s(d) # {} => c = d
      /\ \A c, d \in Chans : r(c) # {} /\ r(d) # {} => c = d
      /\ \A u, v \in Tasks : w(u) # {} /\ w(v) # {} => u = v
      /\ \A c, d \in Chans : ~(s(c) # {} /\ r(d) # {})
      /\ \A c \in Chans, u \in Tasks : ~(s(c) # {} /\ w(u) # {}) /\ ~(r(c) # {} /\ w(u) # {})
      /\ t \in ioWait => /\ \A c \in Chans : s(c) = {} /\ r(c) = {}
                         /\ \A u \in Tasks : w(u) = {}
  BY <1>3
<1>5. ASSUME NEW x \in ParkedAt(t), NEW y \in ParkedAt(t) PROVE x = y
  <2>1. CASE \E c \in Chans : x \in s(c)
    BY <2>1, <1>1, <1>2, <1>4
  <2>2. CASE \E c \in Chans : x \in r(c)
    BY <2>2, <1>1, <1>2, <1>4
  <2>3. CASE \E u \in Tasks : x \in w(u)
    BY <2>3, <1>1, <1>2, <1>4
  <2>4. CASE t \in ioWait /\ x = io
    BY <2>4, <1>1, <1>4
  <2> QED BY <2>1, <2>2, <2>3, <2>4, <1>1
<1>6. ParkedAt(t) = {} <=> ~Waits(t)
  BY <1>1, <1>2 DEF Waits
<1> QED BY <1>5, <1>6 DEF IInv, ParkOK

\* No task is lost and none is in two places (run_one, exit_current, the wait
\* lists of channels, tasks and the selector).
THEOREM NoTaskLostOrShared == Spec => []OnePlace
<1>1. ASSUME IInv, NEW t \in Tasks
      PROVE  /\ Cardinality(Spots(runQueue, t, "ready")) =
                  IF state[t] = "Ready" THEN 1 ELSE 0
             /\ Cardinality({d \in Driving : frame[d].task = t}) =
                  IF state[t] = "Running" THEN 1 ELSE 0
             /\ Cardinality(ParkedAt(t)) = IF state[t] = "Blocked" THEN 1 ELSE 0
  <2> DEFINE Q == Spots(runQueue, t, "ready")
             D == {d \in Driving : frame[d].task = t}
  <2>1. (\A x, y \in Q : x = y) /\ (Q = {} <=> state[t] # "Ready")
    BY <1>1, SpotsFact DEF IInv, QueueOK
  <2>2. (\A x, y \in D : x = y) /\ (D = {} <=> state[t] # "Running")
    BY <1>1 DEF IInv, ChainOK, QueueOK
  <2>3. (\A x, y \in ParkedAt(t) : x = y) /\ (ParkedAt(t) = {} <=> state[t] # "Blocked")
    BY <1>1, ParkedOnce
  <2> HIDE DEF Q, D
  <2>4. /\ Cardinality(Q) = IF Q = {} THEN 0 ELSE 1
        /\ Cardinality(D) = IF D = {} THEN 0 ELSE 1
        /\ Cardinality(ParkedAt(t)) = IF ParkedAt(t) = {} THEN 0 ELSE 1
    BY <2>1, <2>2, <2>3, CountOfOne
  <2>5. /\ Cardinality(Q) = IF state[t] = "Ready" THEN 1 ELSE 0
        /\ Cardinality(D) = IF state[t] = "Running" THEN 1 ELSE 0
        /\ Cardinality(ParkedAt(t)) = IF state[t] = "Blocked" THEN 1 ELSE 0
    BY <2>1, <2>2, <2>3, <2>4
  <2> QED BY <2>5 DEF Q, D
<1>2. IInv => OnePlace
  BY <1>1 DEF OnePlace
<1> QED BY <1>2, Invariance, PTL

----------------------------------------------------------------------------
(* Main's nursery.                                                         *)

\* Nobody is put back into code from a nursery by another step than DrainIdle.
LEMMA LeavesDrain ==
  ASSUME IInv, Next, pc[Main][1] = "drain", pc'[Main] # pc[Main]
  PROVE  DrainIdle(Main)
<1>1. /\ pc \in [Agents -> Nodes] /\ Main \in Agents
      /\ \A a \in Agents : \A n : pc' = [pc EXCEPT ![a] = n] => a = Main
  BY Types DEF Agents
<1>2. \A a, p : At(a, p) => cpu = a /\ pc[a][1] = p
  BY DEF At
<1>3. ~UNCHANGED pc
  OBVIOUS
<1>4. \A a \in Agents : ~CallStep(a)
  <2>1. SUFFICES ASSUME NEW a \in Agents, CallStep(a) PROVE FALSE
    OBVIOUS
  <2>2. pc[a][1] = "code"
    BY <2>1, <1>2 DEF CallStep, CallSend, CallRecv, CallTimed, CallSelect, CallRead, CallDrain,
                      CallAwait, Spawn, Close, Call, Enters
  <2>3. CASE Spawn(a) \/ Close(a)
    <3>1. \E n : pc' = [pc EXCEPT ![a] = n]
      BY <2>3, <1>3 DEF Spawn, Close, Goto
    <3> QED BY <3>1, <2>2, <1>1
  <2>4. CASE \/ CallSend(a) \/ CallRecv(a) \/ CallTimed(a) \/ CallSelect(a) \/ CallRead(a)
             \/ CallDrain(a) \/ CallAwait(a)
    <3>1. \E n : pc' = [pc EXCEPT ![a] = n]
      BY <2>4 DEF CallSend, CallRecv, CallTimed, CallSelect, CallRead, CallDrain, CallAwait, Call,
                  Goto
    <3> QED BY <3>1, <2>2, <1>1
  <2> QED BY <2>1, <2>3, <2>4 DEF CallStep
<1>5. \A a \in Agents : RunStep(a) => DrainIdle(Main)
  <2>1. SUFFICES ASSUME NEW a \in Agents, RunStep(a) PROVE DrainIdle(Main)
    OBVIOUS
  <2>2. CASE Return(a) \/ CheckFail(a) \/ Panics(a) \/ DrainDispatch(a) \/ SelectYield(a)
             \/ ReadPark(a)
    BY <2>2, <1>3 DEF Return, CheckFail, Panics, DrainDispatch, SelectYield, ReadPark, Die, Halt
  <2>3. CASE AwaitDead(a) \/ AwaitPark(a) \/ AwaitResumed(a)
    <3>1. pc[a][1] \in {"await", "awaited"}
      BY <2>3, <1>2 DEF AwaitDead, AwaitPark, AwaitResumed
    <3>2. (\E n : pc' = [pc EXCEPT ![a] = n])
      BY <2>3 DEF AwaitDead, AwaitPark, AwaitResumed, Consume, Goto
    <3> QED BY <3>1, <3>2, <1>1
  <2>4. CASE DrainIdle(a)
    <3>1. UNCHANGED pc \/ \E n : pc' = [pc EXCEPT ![a] = n]
      BY <2>4 DEF DrainIdle
    <3> QED BY <3>1, <2>4, <1>1, <1>3
  <2>5. CASE \/ PoisonedLock(a) \/ Send(a) \/ SendClosed(a) \/ SendPark(a) \/ Recv(a)
             \/ RecvNothing(a) \/ RecvPark(a) \/ SelectFires(a) \/ Read(a)
    <3>1. pc[a][1] \in {"send", "recv", "timed", "expired", "select", "read"}
      BY <2>5, <1>2 DEF PoisonedLock, Send, SendClosed, SendPark, Recv, RecvNothing, RecvPark,
                        SelectFires, Read, Locked
    <3>2. UNCHANGED pc \/ \E n : pc' = [pc EXCEPT ![a] = n]
      BY <2>5 DEF PoisonedLock, Send, SendClosed, SendPark, Recv, RecvNothing, RecvPark,
                  SelectFires, Read, Park, Pop, Goto
    <3> QED BY <3>1, <3>2, <1>1, <1>3
  <2> QED BY <2>1, <2>2, <2>3, <2>4, <2>5 DEF RunStep
<1>6. ~MainStep
  <2>1. SUFFICES ASSUME MainStep PROVE FALSE
    OBVIOUS
  <2>2. CASE AwaitDispatch \/ AwaitIdle \/ ParkDispatch \/ ParkIdle \/ SelectDispatch
             \/ SelectIdle
    BY <2>2, <1>3 DEF AwaitDispatch, AwaitIdle, ParkDispatch, ParkIdle, SelectDispatch,
                      SelectIdle, Halt
  <2>3. CASE Notified \/ TimedDispatch \/ TimedAgain \/ TimedOut \/ TimedExpired
    BY <2>3, <1>2 DEF Notified, Parked, TimedDispatch, TimedAgain, TimedOut, TimedExpired, Locked
  <2> QED BY <2>1, <2>2, <2>3 DEF MainStep
<1>7. \A a \in Agents : ~Arrive(a)
  BY <1>3 DEF Arrive
<1> QED BY <1>4, <1>5, <1>6, <1>7 DEF Next, ThreadStep

\* Main's nursery is left with every task done or waiting for a task or a
\* channel, none ready and none waiting for its fd (drain_all).
THEOREM NurseryIsDrained == Spec => NurseryRunsAllItCan
<1>1. ASSUME IInv, [Next]_vars, DrainReturns(Main), NEW t \in Tasks
      PROVE  Done(t) \/ (state[t] = "Blocked" /\ t \notin ioWait)
  <2>1. /\ pc[Main][1] = "drain" /\ pc'[Main] = Code /\ Code[1] = "code"
        /\ pc[Main] \in Nodes /\ pc[Main] # <<"drain", TRUE>>
    BY <1>1, Types DEF DrainReturns, Agents, IInv, MainOK, Code
  <2>2. pc[Main][2] = FALSE
    BY <2>1, NodeParts
  <2>3. DrainIdle(Main)
    BY <1>1, <2>1, LeavesDrain DEF vars
  <2>4. runQueue = <<>> /\ cpu = Main /\ PollWakesNone(TRUE)
    BY <2>1, <2>2, <2>3 DEF DrainIdle, At
  <2>5. ioWait = {} /\ Driving = {} /\ Range(runQueue) = {}
    BY <2>4, <1>1, CpuFact DEF PollWakesNone, Range
  <2>6. state[t] \notin {"Ready", "Running"}
    BY <1>1, <2>5 DEF IInv, QueueOK
  <2> QED BY <1>1, <2>5, <2>6, Types DEF Done
<1>2. IInv /\ [Next]_vars
        => (DrainReturns(Main) =>
              \A t \in Tasks : Done(t) \/ (state[t] = "Blocked" /\ t \notin ioWait))
  BY <1>1
<1> QED BY <1>2, Invariance, PTL DEF Spec, NurseryRunsAllItCan

----------------------------------------------------------------------------
(* Nobody oversleeps on a channel.                                         *)

Receiving(c) == Coming(c, {"recv", "recvParked"}, chan[c].receivers)
Sending(c) == Coming(c, {"send", "sendParked"}, chan[c].senders)

\* NobodyOversleeps for one channel, that only a closed one is poisoned, and
\* that Main is off the list of one before its lock makes it panic.
Timely(c) ==
  /\ chan[c].receivers # <<>> /\ c \notin TimedChans =>
       chan[c].count <= Cardinality(Receiving(c))
  /\ chan[c].senders # <<>> => Bound - chan[c].count <= Cardinality(Sending(c))
  /\ chan[c].closed => chan[c].senders = <<>> /\ chan[c].receivers = <<>>
  /\ chan[c].poisoned => chan[c].closed
  /\ Main \in Range(chan[c].receivers) => pc[Main][1] # "panics"

\* Only a channel with deadlines is received from with one.
TimedPlaces == {"timed", "timedParked", "timedRan", "expired"}
DeadlinesKnown == \A a \in Agents : pc[a][1] \in TimedPlaces => pc[a][2] \in TimedChans

SleepInv == DeadlinesKnown /\ \A c \in Chans : Timely(c)

LEMMA WhoIsComing ==
  ASSUME NEW c
  PROVE  /\ \A a : a \in Receiving(c) <=>
              /\ a \in Agents /\ a \notin Range(chan[c].receivers)
              /\ pc[a] = <<"recv", c>> \/ pc[a] = <<"recvParked", c>>
         /\ \A a : a \in Sending(c) <=>
              /\ a \in Agents /\ a \notin Range(chan[c].senders)
              /\ pc[a] = <<"send", c>> \/ pc[a] = <<"sendParked", c>>
         /\ \A a : a \in Receiving(c)' <=>
              /\ a \in Agents /\ a \notin Range(chan'[c].receivers)
              /\ pc'[a] = <<"recv", c>> \/ pc'[a] = <<"recvParked", c>>
         /\ \A a : a \in Sending(c)' <=>
              /\ a \in Agents /\ a \notin Range(chan'[c].senders)
              /\ pc'[a] = <<"send", c>> \/ pc'[a] = <<"sendParked", c>>
BY DEF Receiving, Sending, Coming

LEMMA FewComing ==
  ASSUME NEW c
  PROVE  /\ IsFiniteSet(Receiving(c)) /\ IsFiniteSet(Receiving(c)')
         /\ IsFiniteSet(Sending(c)) /\ IsFiniteSet(Sending(c)')
<1>1. IsFiniteSet(Agents)
  BY TasksAssumption, FS_AddElement DEF Agents
<1>2. \A S \in SUBSET Agents : IsFiniteSet(S)
  BY <1>1, FS_Subset
<1>3. /\ Receiving(c) \in SUBSET Agents /\ Receiving(c)' \in SUBSET Agents
      /\ Sending(c) \in SUBSET Agents /\ Sending(c)' \in SUBSET Agents
  BY WhoIsComing
<1> QED BY <1>2, <1>3

LEMMA ChanTypes ==
  ASSUME IInv, NEW c \in Chans
  PROVE  /\ chan[c].count \in 0..Bound /\ chan[c].count \in Nat /\ Bound \in Nat
         /\ chan[c].senders \in Seq(Agents) /\ chan[c].receivers \in Seq(Agents)
         /\ chan[c].closed \in BOOLEAN /\ chan[c].poisoned \in BOOLEAN
<1>1. chan[c] \in [count : 0..Bound, closed : BOOLEAN, poisoned : BOOLEAN,
                   senders : Seq(Agents), receivers : Seq(Agents)]
  BY Types
<1>2. Bound \in Nat
  BY NumbersAssumption DEF Bound
<1> QED BY <1>1, <1>2

\* The lists and the buffer are as they were, and either nobody leaves or
\* nobody is parked, or nothing is there for those that are.
LEMMA StillTimely ==
  ASSUME IInv, NEW c \in Chans, Timely(c), chan'[c] = chan[c],
         \/ Receiving(c) \subseteq Receiving(c)'
         \/ chan[c].receivers = <<>> \/ chan[c].count = 0,
         \/ Sending(c) \subseteq Sending(c)'
         \/ chan[c].senders = <<>> \/ chan[c].count = Bound,
         pc'[Main][1] = "panics" =>
           pc[Main][1] = "panics" \/ Main \notin Range(chan[c].receivers)
  PROVE  Timely(c)'
<1>1. /\ chan[c].count \in Nat /\ Bound \in Nat
  BY ChanTypes
<1>2. /\ Cardinality(Receiving(c)) \in Nat /\ Cardinality(Receiving(c)') \in Nat
      /\ Cardinality(Sending(c)) \in Nat /\ Cardinality(Sending(c)') \in Nat
      /\ Receiving(c) \subseteq Receiving(c)' =>
           Cardinality(Receiving(c)) <= Cardinality(Receiving(c)')
      /\ Sending(c) \subseteq Sending(c)' =>
           Cardinality(Sending(c)) <= Cardinality(Sending(c)')
  BY FewComing, CardinalitySteps
<1>3. chan[c].receivers # <<>> /\ c \notin TimedChans =>
        chan[c].count <= Cardinality(Receiving(c)')
  BY <1>1, <1>2 DEF Timely
<1>4. chan[c].senders # <<>> => Bound - chan[c].count <= Cardinality(Sending(c)')
  BY <1>1, <1>2 DEF Timely
<1> QED BY <1>3, <1>4 DEF Timely

\* An agent is coming for a channel as before, wherever it goes from elsewhere.
Places == {"recv", "recvParked", "send", "sendParked"}
LEMMA StillComing ==
  ASSUME NEW c \in Chans, chan'[c] = chan[c],
         \A a \in Agents : \/ pc'[a] = pc[a]
                           \/ pc[a][1] \notin Places
                           \/ pc[a][2] # c
  PROVE  Receiving(c) \subseteq Receiving(c)' /\ Sending(c) \subseteq Sending(c)'
<1>1. ASSUME NEW a \in Agents, NEW p \in Places, pc[a] = <<p, c>>
      PROVE  pc'[a] = pc[a]
  BY <1>1
<1> QED BY <1>1, WhoIsComing DEF Places

\* The steps at which no agent calls on a channel, or stops to.
LEMMA ElsewhereTimely ==
  ASSUME IInv, SleepInv, chan' = chan,
         \A a \in Agents : \/ pc'[a] = pc[a]
                           \/ /\ pc[a][1] \notin Places
                              /\ pc'[a][1] \in TimedPlaces => pc'[a][2] \in TimedChans
                              /\ pc[a][1] \in TimedPlaces => pc'[a][1] # "panics"
  PROVE  SleepInv'
<1>1. \A c \in Chans : Timely(c)'
  <2> TAKE c \in Chans
  <2>1. Receiving(c) \subseteq Receiving(c)' /\ Sending(c) \subseteq Sending(c)'
    BY StillComing
  <2>2. pc'[Main][1] = "panics" =>
          pc[Main][1] = "panics" \/ Main \notin Range(chan[c].receivers)
    BY Names DEF IInv, MainOK, Places, TimedPlaces
  <2> QED BY <2>1, <2>2, StillTimely DEF SleepInv
<1>2. DeadlinesKnown'
  BY DEF SleepInv, DeadlinesKnown
<1> QED BY <1>1, <1>2 DEF SleepInv

\* One agent goes somewhere from a place where it neither calls on a channel
\* nor is parked on one.
LEMMA OneGoes ==
  ASSUME IInv, SleepInv, chan' = chan, NEW a \in Agents, pc[a][1] \notin Places,
         NEW n, pc' = [pc EXCEPT ![a] = n], n[1] \in TimedPlaces => n[2] \in TimedChans,
         pc[a][1] \in TimedPlaces => n[1] # "panics"
  PROVE  SleepInv'
<1>1. pc'[a] = n /\ \A b \in Agents : b # a => pc'[b] = pc[b]
  BY Types
<1> QED BY <1>1, ElsewhereTimely

LEMMA NobodyGoes ==
  ASSUME IInv, SleepInv, UNCHANGED <<chan, pc>>
  PROVE  SleepInv'
BY ElsewhereTimely

LEMMA CallsTimely ==
  ASSUME IInv, SleepInv, NEW a \in Agents, CallStep(a), ~Close(a)
  PROVE  SleepInv'
<1>1. ASSUME NEW call, NEW arg, Call(a, call, arg),
             call \in TimedPlaces => arg \in TimedChans
      PROVE  SleepInv'
  <2>1. pc[a][1] = "code" /\ pc' = [pc EXCEPT ![a] = <<call, arg>>] /\ chan' = chan
    BY <1>1 DEF Call, Enters, At, Goto
  <2> QED BY <1>1, <2>1, OneGoes DEF Places, TimedPlaces
<1>2. CASE Spawn(a)
  BY <1>2, NobodyGoes DEF Spawn
<1>3. CASE CallTimed(a)
  BY <1>1, <1>3 DEF CallTimed
<1>4. CASE CallSend(a) \/ CallRecv(a) \/ CallSelect(a) \/ CallRead(a) \/ CallDrain(a)
           \/ CallAwait(a)
  BY <1>1, <1>4 DEF CallSend, CallRecv, CallSelect, CallRead, CallDrain, CallAwait,
                    TimedPlaces
<1> QED BY <1>2, <1>3, <1>4 DEF CallStep

LEMMA QuietTimely ==
  ASSUME IInv, SleepInv, NEW a \in Agents,
         \/ Return(a) \/ CheckFail(a) \/ Panics(a)
         \/ AwaitDead(a) \/ AwaitPark(a) \/ AwaitResumed(a)
         \/ DrainDispatch(a) \/ DrainIdle(a)
         \/ SelectYield(a) \/ Read(a) \/ ReadPark(a)
  PROVE  SleepInv'
<1> USE DEF sched
<1>1. CASE Return(a) \/ CheckFail(a) \/ Panics(a)
  BY <1>1, NobodyGoes DEF Return, CheckFail, Panics, Die, Halt
<1>2. CASE DrainDispatch(a) \/ SelectYield(a) \/ ReadPark(a)
  BY <1>2, NobodyGoes DEF DrainDispatch, Dispatch, SelectYield, ReadPark
<1>3. CASE AwaitDead(a) \/ AwaitResumed(a)
  <2>1. pc[a][1] \in {"await", "awaited"} /\ chan' = chan
    BY <1>3 DEF AwaitDead, AwaitResumed, At, Consume
  <2>2. \E n \in {Code, <<"panics", None>>} : pc' = [pc EXCEPT ![a] = n]
    BY <1>3 DEF AwaitDead, AwaitResumed, Consume, Goto
  <2> QED BY <2>1, <2>2, OneGoes DEF Places, Code, TimedPlaces
<1>4. CASE AwaitPark(a)
  <2>1. pc[a][1] = "await" /\ chan' = chan /\ pc' = [pc EXCEPT ![a] = <<"awaited", pc[a][2]>>]
    BY <1>4 DEF AwaitPark, At, Goto
  <2> QED BY <2>1, OneGoes DEF Places, TimedPlaces
<1>5. CASE DrainIdle(a)
  <2>1. pc[a][1] = "drain" /\ chan' = chan /\ (pc' = pc \/ pc' = [pc EXCEPT ![a] = Code])
    BY <1>5 DEF DrainIdle, At
  <2> QED BY <2>1, OneGoes, NobodyGoes DEF Places, Code, TimedPlaces
<1>6. CASE Read(a)
  <2>1. pc[a][1] = "read" /\ chan' = chan /\ pc' = [pc EXCEPT ![a] = Code]
    BY <1>6 DEF Read, At
  <2> QED BY <2>1, OneGoes DEF Places, Code, TimedPlaces
<1> QED BY <1>1, <1>2, <1>3, <1>4, <1>5, <1>6

LEMMA ArriveTimely ==
  ASSUME IInv, SleepInv, NEW a \in Agents, Arrive(a)
  PROVE  SleepInv'
BY NobodyGoes DEF Arrive

\* Main, which tries again where it was parked, is still coming.
LEMMA MainTimely ==
  ASSUME IInv, SleepInv, MainStep, ~TimedExpired
  PROVE  SleepInv'
<1> USE DEF sched
<1>1. Main \in Agents /\ \A t \in Tasks : t \in Agents /\ t # Main
  BY Names
<1>2. CASE AwaitDispatch \/ ParkDispatch \/ SelectDispatch
  BY <1>2, NobodyGoes DEF AwaitDispatch, ParkDispatch, SelectDispatch, Dispatch
<1>3. CASE AwaitIdle \/ ParkIdle \/ SelectIdle
  BY <1>3, NobodyGoes DEF AwaitIdle, ParkIdle, SelectIdle, Halt
<1>4. CASE TimedDispatch \/ TimedAgain \/ TimedOut
  <2>1. pc[Main][1] \in {"timedParked", "timedRan"} /\ chan' = chan
    BY <1>4 DEF TimedDispatch, TimedAgain, TimedOut, At, Dispatch
  <2>2. \E p \in TimedPlaces : pc' = [pc EXCEPT ![Main] = <<p, pc[Main][2]>>]
    BY <1>4 DEF TimedDispatch, TimedAgain, TimedOut, Goto, TimedPlaces
  <2>3. pc[Main][2] \in TimedChans
    BY <1>1, <2>1 DEF SleepInv, DeadlinesKnown, TimedPlaces
  <2> QED BY <1>1, <2>1, <2>2, <2>3, OneGoes DEF Places, TimedPlaces
<1>5. CASE Notified /\ pc[Main][1] = "timedParked"
  <2>1. chan' = chan /\ pc' = [pc EXCEPT ![Main] = <<"timed", pc[Main][2]>>]
    BY <1>5 DEF Notified, Retry, Goto
  <2>2. pc[Main][2] \in TimedChans
    BY <1>1, <1>5 DEF SleepInv, DeadlinesKnown, TimedPlaces
  <2> QED BY <1>1, <1>5, <2>1, <2>2, OneGoes DEF Places
<1>6. CASE Notified /\ pc[Main][1] # "timedParked"
  <2>1. /\ chan' = chan
        /\ \/ pc[Main][1] = "sendParked" /\ pc' = [pc EXCEPT ![Main] = <<"send", pc[Main][2]>>]
           \/ pc[Main][1] = "recvParked" /\ pc' = [pc EXCEPT ![Main] = <<"recv", pc[Main][2]>>]
    BY <1>6 DEF Notified, Parked, At, Retry, Goto
  <2>2. pc[Main] = <<pc[Main][1], pc[Main][2]>>
    BY <1>1, Types, NodeParts
  <2>3. /\ pc'[Main] = <<"send", pc[Main][2]>> \/ pc'[Main] = <<"recv", pc[Main][2]>>
        /\ \A b \in Agents : b # Main => pc'[b] = pc[b]
    BY <1>1, <2>1, Types
  <2>4. \A c \in Chans : Timely(c)'
    <3> TAKE c \in Chans
    <3>1. \A a \in Agents :
            /\ pc[a] = <<"recv", c>> \/ pc[a] = <<"recvParked", c>> =>
                 pc'[a] = <<"recv", c>> \/ pc'[a] = <<"recvParked", c>>
            /\ pc[a] = <<"send", c>> \/ pc[a] = <<"sendParked", c>> =>
                 pc'[a] = <<"send", c>> \/ pc'[a] = <<"sendParked", c>>
      <4>1. CASE pc[Main][1] = "sendParked" /\ pc'[Main] = <<"send", pc[Main][2]>>
        BY <1>1, <2>2, <2>3, <4>1
      <4>2. CASE pc[Main][1] = "recvParked" /\ pc'[Main] = <<"recv", pc[Main][2]>>
        BY <1>1, <2>2, <2>3, <4>2
      <4> QED BY <1>1, <2>1, <4>1, <4>2, Types
    <3>2. Receiving(c) \subseteq Receiving(c)' /\ Sending(c) \subseteq Sending(c)'
      BY <2>1, <3>1, WhoIsComing
    <3>3. pc'[Main][1] # "panics"
      BY <2>3
    <3> QED BY <2>1, <3>2, <3>3, StillTimely DEF SleepInv
  <2>5. DeadlinesKnown'
    BY <1>1, <2>3 DEF SleepInv, DeadlinesKnown, TimedPlaces
  <2> QED BY <2>4, <2>5 DEF SleepInv
<1> QED BY <1>2, <1>3, <1>4, <1>5, <1>6 DEF MainStep

\* Whoever is parked on a channel comes for it once it is popped.
LEMMA ParkedOn ==
  ASSUME IInv, SleepInv, NEW c \in Chans
  PROVE  /\ \A h \in Range(chan[c].senders) :
              h \in Agents /\ (pc[h] = <<"send", c>> \/ pc[h] = <<"sendParked", c>>)
         /\ c \notin TimedChans => \A h \in Range(chan[c].receivers) :
              h \in Agents /\ (pc[h] = <<"recv", c>> \/ pc[h] = <<"recvParked", c>>)
<1>1. Range(chan[c].senders) \subseteq Agents /\ Range(chan[c].receivers) \subseteq Agents
  BY ChanTypes, RangeOfSeq
<1>2. ASSUME NEW h \in Range(chan[c].senders)
      PROVE  h \in Agents /\ (pc[h] = <<"send", c>> \/ pc[h] = <<"sendParked", c>>)
  BY <1>1, Names DEF IInv, ParkOK, MainOK
<1>3. ASSUME c \notin TimedChans, NEW h \in Range(chan[c].receivers)
      PROVE  h \in Agents /\ (pc[h] = <<"recv", c>> \/ pc[h] = <<"recvParked", c>>)
  <2>1. h \in Agents /\ (pc[h][1] \in TimedPlaces => pc[h][2] # c)
    BY <1>1, <1>3 DEF SleepInv, DeadlinesKnown
  <2>2. CASE h = Main
    BY <1>3, <2>1, <2>2 DEF SleepInv, Timely, IInv, MainOK, TimedPlaces
  <2>3. CASE h # Main
    BY <1>3, <2>1, <2>3 DEF IInv, ParkOK, TimedPlaces
  <2> QED BY <2>1, <2>2, <2>3
<1> QED BY <1>2, <1>3

\* A step on one channel, by an agent that is there or nowhere.
LEMMA OthersTimely ==
  ASSUME IInv, SleepInv, NEW c \in Chans, NEW a \in Agents,
         \A d \in Chans \ {c} : chan'[d] = chan[d],
         \A b \in Agents \ {a} : pc'[b] = pc[b],
         \/ pc[a][2] = c /\ pc[a][1] \in Places \cup TimedPlaces
         \/ pc[a][1] \in {"select", "code"} \/ pc'[a] = pc[a],
         pc'[a][1] \in TimedPlaces => pc'[a][2] \in TimedChans,
         Timely(c)'
  PROVE  SleepInv'
<1>1. ASSUME NEW d \in Chans \ {c}
      PROVE  Timely(d)'
  <2>1. Receiving(d) \subseteq Receiving(d)' /\ Sending(d) \subseteq Sending(d)'
    BY <1>1, StillComing DEF Places
  <2>2. pc'[Main][1] = "panics" =>
          pc[Main][1] = "panics" \/ Main \notin Range(chan[d].receivers)
    BY <1>1, Names DEF IInv, MainOK
  <2> QED BY <1>1, <2>1, <2>2, StillTimely DEF SleepInv
<1>2. DeadlinesKnown'
  BY DEF SleepInv, DeadlinesKnown
<1> QED BY <1>1, <1>2 DEF SleepInv

LEMMA PopTimely ==
  ASSUME IInv, SleepInv, NEW c \in Chans, NEW a \in Agents, Pop(a, c),
         (pc[a][2] = c /\ pc[a][1] \in {"recv", "timed"}) \/ pc[a][1] = "select"
  PROVE  SleepInv'
<1> USE DEF sched
<1>1. chan' = [chan EXCEPT ![c].count = @ - 1, ![c].senders = RestOf(@)]
      /\ pc' = [pc EXCEPT ![a] = Code]
  BY DEF Pop
<1>2. /\ chan'[c].count = chan[c].count - 1 /\ chan'[c].senders = RestOf(chan[c].senders)
      /\ chan'[c].receivers = chan[c].receivers /\ chan'[c].closed = chan[c].closed
      /\ chan'[c].poisoned = chan[c].poisoned
      /\ \A d \in Chans \ {c} : chan'[d] = chan[d]
      /\ pc'[a] = Code /\ \A b \in Agents \ {a} : pc'[b] = pc[b]
  BY <1>1, Types
<1>3. /\ Cardinality(Receiving(c)) \in Nat /\ Cardinality(Receiving(c)') \in Nat
      /\ Cardinality(Sending(c)) \in Nat /\ Cardinality(Sending(c)') \in Nat
      /\ chan[c].count \in Nat /\ Bound \in Nat
  BY FewComing, CardinalitySteps, ChanTypes
<1>4. chan'[c].receivers # <<>> /\ c \notin TimedChans =>
        chan'[c].count <= Cardinality(Receiving(c)')
  <2>1. Receiving(c) \ {a} \subseteq Receiving(c)'
    BY <1>2, WhoIsComing
  <2>2. Cardinality(Receiving(c)) - 1 <= Cardinality(Receiving(c)')
    BY <2>1, FewComing, CardinalitySteps
  <2> QED BY <1>2, <1>3, <2>2 DEF SleepInv, Timely
<1>5. ASSUME chan'[c].senders # <<>>
      PROVE  Bound - chan'[c].count <= Cardinality(Sending(c)')
  <2>1. chan[c].senders # <<>> /\ chan'[c].senders = Tail(chan[c].senders)
    BY <1>2, <1>5 DEF RestOf
  <2>2. chan[c].senders \in Seq(Agents) /\ IsInjective(chan[c].senders)
    BY ChanTypes DEF IInv, ParkOK
  <2>3. PICK h : h = Head(chan[c].senders)
    OBVIOUS
  <2>4. /\ h \in Range(chan[c].senders) /\ h \notin Range(chan'[c].senders)
        /\ Range(chan'[c].senders) \subseteq Range(chan[c].senders)
    BY <2>1, <2>2, <2>3, RangeTail
  <2>5. h \in Agents /\ h # a /\ (pc[h] = <<"send", c>> \/ pc[h] = <<"sendParked", c>>)
    BY <2>4, ParkedOn
  <2>6. h \notin Sending(c) /\ Sending(c) \cup {h} \subseteq Sending(c)'
    BY <1>2, <2>4, <2>5, WhoIsComing
  <2>7. Cardinality(Sending(c)) + 1 <= Cardinality(Sending(c)')
    BY <2>6, FewComing, CardinalitySteps
  <2> QED BY <1>2, <1>3, <2>1, <2>7 DEF SleepInv, Timely
<1>6. chan'[c].closed => chan'[c].senders = <<>> /\ chan'[c].receivers = <<>>
  BY <1>2 DEF SleepInv, Timely, RestOf
<1>7. Main \in Range(chan'[c].receivers) => pc'[Main][1] # "panics"
  BY <1>2, Names DEF SleepInv, Timely, Code
<1>8. Timely(c)'
  BY <1>2, <1>4, <1>5, <1>6, <1>7 DEF SleepInv, Timely
<1> QED BY <1>2, <1>8, OthersTimely DEF Places, TimedPlaces, Code

LEMMA SendTimely ==
  ASSUME IInv, SleepInv, NEW a \in Agents, Send(a)
  PROVE  SleepInv'
<1>1. PICK c : c = pc[a][2]
  OBVIOUS
<1>2. /\ pc[a][1] = "send" /\ ~chan[c].closed /\ ~chan[c].poisoned
      /\ chan' = [chan EXCEPT ![c].count = @ + 1, ![c].receivers = RestOf(@)]
      /\ pc' = [pc EXCEPT ![a] = Code]
  BY <1>1 DEF Send, Locked, At
<1>3. c \in Chans /\ pc[a] = <<"send", c>>
  BY <1>1, <1>2, Types, NodeParts
<1>4. /\ chan'[c].count = chan[c].count + 1 /\ chan'[c].senders = chan[c].senders
      /\ chan'[c].receivers = RestOf(chan[c].receivers)
      /\ chan'[c].closed = chan[c].closed /\ chan'[c].poisoned = chan[c].poisoned
      /\ \A d \in Chans \ {c} : chan'[d] = chan[d]
      /\ pc'[a] = Code /\ \A b \in Agents \ {a} : pc'[b] = pc[b]
  BY <1>2, <1>3, Types
<1>5. /\ Cardinality(Receiving(c)) \in Nat /\ Cardinality(Receiving(c)') \in Nat
      /\ Cardinality(Sending(c)) \in Nat /\ Cardinality(Sending(c)') \in Nat
      /\ chan[c].count \in Nat /\ Bound \in Nat
  BY <1>3, FewComing, CardinalitySteps, ChanTypes
<1>6. chan'[c].senders # <<>> => Bound - chan'[c].count <= Cardinality(Sending(c)')
  <2>1. Sending(c) \ {a} \subseteq Sending(c)'
    BY <1>4, WhoIsComing
  <2>2. Cardinality(Sending(c)) - 1 <= Cardinality(Sending(c)')
    BY <2>1, FewComing, CardinalitySteps
  <2> QED BY <1>3, <1>4, <1>5, <2>2 DEF SleepInv, Timely
<1>7. ASSUME chan'[c].receivers # <<>>, c \notin TimedChans
      PROVE  chan'[c].count <= Cardinality(Receiving(c)')
  <2>1. chan[c].receivers # <<>> /\ chan'[c].receivers = Tail(chan[c].receivers)
    BY <1>4, <1>7 DEF RestOf
  <2>2. chan[c].receivers \in Seq(Agents) /\ IsInjective(chan[c].receivers)
    BY <1>3, ChanTypes DEF IInv, ParkOK
  <2>3. PICK h : h = Head(chan[c].receivers)
    OBVIOUS
  <2>4. /\ h \in Range(chan[c].receivers) /\ h \notin Range(chan'[c].receivers)
        /\ Range(chan'[c].receivers) \subseteq Range(chan[c].receivers)
    BY <2>1, <2>2, <2>3, RangeTail
  <2>5. h \in Agents /\ h # a /\ (pc[h] = <<"recv", c>> \/ pc[h] = <<"recvParked", c>>)
    BY <1>3, <1>7, <2>4, ParkedOn
  <2>6. h \notin Receiving(c) /\ Receiving(c) \cup {h} \subseteq Receiving(c)'
    BY <1>3, <1>4, <2>4, <2>5, WhoIsComing
  <2>7. Cardinality(Receiving(c)) + 1 <= Cardinality(Receiving(c)')
    BY <2>6, FewComing, CardinalitySteps
  <2> QED BY <1>3, <1>4, <1>5, <1>7, <2>1, <2>7 DEF SleepInv, Timely
<1>8. Main \in Range(chan'[c].receivers) => pc'[Main][1] # "panics"
  <2>1. CASE a = Main
    BY <1>4, <2>1 DEF Code
  <2>2. CASE a # Main
    <3>1. Range(chan'[c].receivers) \subseteq Range(chan[c].receivers)
      BY <1>3, <1>4, ChanTypes, FirstAndRest
    <3> QED BY <1>3, <1>4, <2>2, <3>1, Names DEF SleepInv, Timely
  <2> QED BY <2>1, <2>2
<1>9. Timely(c)'
  BY <1>2, <1>4, <1>6, <1>7, <1>8 DEF Timely
<1>10. pc[a][2] = c /\ pc[a][1] \in Places \cup TimedPlaces
  BY <1>1, <1>2 DEF Places
<1>11. pc'[a][1] \notin TimedPlaces
  BY <1>4 DEF TimedPlaces, Code
<1> QED BY <1>3, <1>4, <1>9, <1>10, <1>11, OthersTimely

\* Parking on a channel: the buffer is full, or empty, and stays so.
LEMMA ParkMoves ==
  ASSUME IInv, NEW a \in Agents, cpu = a, NEW parked, Park(a, parked)
  PROVE  /\ pc'[a] = pc[a] \/ (a = Main /\ pc'[a] = <<parked, pc[a][2]>>)
         /\ \A b \in Agents \ {a} : pc'[b] = pc[b]
         /\ Caller = a
<1>1. Caller = a /\ (current = None => a = Main)
  BY CpuFact, Names
<1> QED BY <1>1, Types DEF Park, Goto

LEMMA SendParkTimely ==
  ASSUME IInv, SleepInv, NEW a \in Agents, SendPark(a)
  PROVE  SleepInv'
<1>1. PICK c : c = pc[a][2]
  OBVIOUS
<1>2. /\ pc[a][1] = "send" /\ cpu = a /\ ~chan[c].closed /\ ~chan[c].poisoned
      /\ chan[c].count >= Bound
      /\ chan' = [chan EXCEPT ![c].senders = Append(@, Caller)]
      /\ Park(a, "sendParked")
  BY <1>1 DEF SendPark, Locked, At
<1>3. c \in Chans /\ pc[a] = <<"send", c>>
  BY <1>1, <1>2, Types, NodeParts
<1>4. /\ chan'[c].count = chan[c].count /\ chan'[c].receivers = chan[c].receivers
      /\ chan'[c].closed = chan[c].closed /\ chan'[c].poisoned = chan[c].poisoned
      /\ \A d \in Chans \ {c} : chan'[d] = chan[d]
  BY <1>2, <1>3, Types
<1>5. /\ pc'[a] = <<"send", c>> \/ (a = Main /\ pc'[a] = <<"sendParked", c>>)
      /\ \A b \in Agents \ {a} : pc'[b] = pc[b]
  BY <1>1, <1>2, <1>3, ParkMoves
<1>6. /\ Cardinality(Receiving(c)) \in Nat /\ Cardinality(Receiving(c)') \in Nat
      /\ Cardinality(Sending(c)') \in Nat /\ chan[c].count \in Nat /\ Bound \in Nat
  BY <1>3, FewComing, CardinalitySteps, ChanTypes
<1>7. chan'[c].receivers # <<>> /\ c \notin TimedChans =>
        chan'[c].count <= Cardinality(Receiving(c)')
  <2>1. Receiving(c) \subseteq Receiving(c)'
    BY <1>3, <1>4, <1>5, WhoIsComing
  <2>2. Cardinality(Receiving(c)) <= Cardinality(Receiving(c)')
    BY <2>1, FewComing, CardinalitySteps
  <2> QED BY <1>3, <1>4, <1>6, <2>2 DEF SleepInv, Timely
<1>8. Bound - chan'[c].count <= Cardinality(Sending(c)')
  BY <1>2, <1>4, <1>6
<1>9. Main \in Range(chan'[c].receivers) => pc'[Main][1] # "panics"
  BY <1>3, <1>4, <1>5, Names DEF SleepInv, Timely
<1>10. Timely(c)'
  BY <1>2, <1>4, <1>7, <1>8, <1>9 DEF Timely
<1>11. pc[a][2] = c /\ pc[a][1] \in Places \cup TimedPlaces
  BY <1>1, <1>2 DEF Places
<1>12. pc'[a][1] \notin TimedPlaces
  BY <1>5 DEF TimedPlaces
<1> QED BY <1>3, <1>4, <1>5, <1>10, <1>11, <1>12, OthersTimely

LEMMA RecvParkTimely ==
  ASSUME IInv, SleepInv, NEW a \in Agents, RecvPark(a)
  PROVE  SleepInv'
<1>1. PICK c : c = pc[a][2]
  OBVIOUS
<1>2. PICK parked \in {"recvParked", "timedParked"} :
        /\ parked = (IF pc[a][1] = "recv" THEN "recvParked" ELSE "timedParked")
        /\ pc[a][1] \in {"recv", "timed"} /\ cpu = a
        /\ ~chan[c].closed /\ ~chan[c].poisoned /\ chan[c].count = 0
        /\ chan' = [chan EXCEPT ![c].receivers = Append(@, Caller)]
        /\ Park(a, parked)
  BY <1>1 DEF RecvPark, Locked, At
<1>3. c \in Chans /\ (pc[a] = <<"recv", c>> \/ pc[a] = <<"timed", c>>)
  BY <1>1, <1>2, Types, NodeParts
<1>4. /\ chan'[c].count = chan[c].count /\ chan'[c].senders = chan[c].senders
      /\ chan'[c].closed = chan[c].closed /\ chan'[c].poisoned = chan[c].poisoned
      /\ chan'[c].receivers = Append(chan[c].receivers, a)
      /\ \A d \in Chans \ {c} : chan'[d] = chan[d]
  BY <1>2, <1>3, Types, ParkMoves
<1>5. /\ pc'[a] = pc[a] \/ (a = Main /\ pc'[a] = <<parked, c>>)
      /\ \A b \in Agents \ {a} : pc'[b] = pc[b]
  BY <1>1, <1>2, ParkMoves
<1>6. /\ Cardinality(Sending(c)) \in Nat /\ Cardinality(Sending(c)') \in Nat
      /\ Cardinality(Receiving(c)') \in Nat /\ chan[c].count \in Nat /\ Bound \in Nat
  BY <1>3, FewComing, CardinalitySteps, ChanTypes
<1>7. chan'[c].senders # <<>> => Bound - chan'[c].count <= Cardinality(Sending(c)')
  <2>1. Sending(c) \subseteq Sending(c)'
    BY <1>3, <1>4, <1>5, WhoIsComing
  <2>2. Cardinality(Sending(c)) <= Cardinality(Sending(c)')
    BY <2>1, FewComing, CardinalitySteps
  <2> QED BY <1>3, <1>4, <1>6, <2>2 DEF SleepInv, Timely
<1>8. chan'[c].count <= Cardinality(Receiving(c)')
  BY <1>2, <1>4, <1>6
<1>9. Main \in Range(chan'[c].receivers) => pc'[Main][1] # "panics"
  <2>1. CASE a = Main
    BY <1>2, <1>5, <2>1
  <2>2. CASE a # Main
    <3>1. chan[c].receivers \in Seq(Agents)
      BY <1>3, ChanTypes
    <3>2. Range(Append(chan[c].receivers, a)) = Range(chan[c].receivers) \cup {a}
      BY <3>1, RangeAppend
    <3> QED BY <1>3, <1>4, <1>5, <2>2, <3>2, Names DEF SleepInv, Timely
  <2> QED BY <2>1, <2>2
<1>10. Timely(c)'
  BY <1>2, <1>4, <1>7, <1>8, <1>9 DEF Timely
<1>11. pc[a][2] = c /\ pc[a][1] \in Places \cup TimedPlaces
  BY <1>1, <1>2 DEF Places, TimedPlaces
<1>12. pc'[a][1] \in TimedPlaces => pc'[a][2] \in TimedChans
  <2>1. CASE pc[a][1] = "recv"
    BY <1>2, <1>5, <2>1 DEF TimedPlaces
  <2>2. CASE pc[a][1] = "timed"
    BY <1>1, <1>5, <2>2 DEF SleepInv, DeadlinesKnown, TimedPlaces
  <2> QED BY <1>2, <2>1, <2>2
<1> QED BY <1>3, <1>4, <1>5, <1>10, <1>11, <1>12, OthersTimely

\* The call leaves a channel on which nobody is parked, or with nothing in it.
LEMMA LeavesTimely ==
  ASSUME IInv, SleepInv, NEW a \in Agents, PoisonedLock(a) \/ RecvNothing(a)
  PROVE  SleepInv'
<1> USE DEF sched
<1>1. PICK c : c = pc[a][2]
  OBVIOUS
<1>2. /\ pc[a][1] \in {"send", "recv", "timed", "expired"} /\ chan' = chan
      /\ pc' = [pc EXCEPT ![a] = Code] \/ pc' = [pc EXCEPT ![a] = <<"panics", None>>]
  BY DEF PoisonedLock, RecvNothing, Locked, At, Goto
<1>3. c \in Chans
  BY <1>1, <1>2, Types, NodeParts
<1>4. /\ pc'[a] \in {Code, <<"panics", None>>} /\ \A b \in Agents \ {a} : pc'[b] = pc[b]
  BY <1>2, Types
<1>5. CASE PoisonedLock(a)
  <2>1. chan[c].senders = <<>> /\ chan[c].receivers = <<>>
    BY <1>1, <1>3, <1>5 DEF PoisonedLock, SleepInv, Timely
  <2>2. Main \notin Range(chan[c].receivers)
    BY <2>1 DEF Range
  <2>3. Timely(c)'
    BY <1>2, <1>3, <2>1, <2>2, StillTimely DEF SleepInv
  <2>4. pc[a][2] = c /\ pc[a][1] \in Places \cup TimedPlaces
    BY <1>1, <1>2 DEF Places, TimedPlaces
  <2>5. pc'[a][1] \notin TimedPlaces
    BY <1>4 DEF TimedPlaces, Code
  <2> QED BY <1>2, <1>3, <1>4, <2>3, <2>4, <2>5, OthersTimely
<1>6. CASE RecvNothing(a)
  <2>1. pc'[a] = Code /\ pc[a][1] \in {"recv", "timed"} /\ chan[c].count = 0
    BY <1>1, <1>6, Types DEF RecvNothing, Locked, At
  <2>2. Sending(c) \subseteq Sending(c)'
    BY <1>2, <1>4, <2>1, WhoIsComing
  <2>3. pc'[Main][1] = "panics" => pc[Main][1] = "panics"
    BY <1>4, <2>1, Names DEF Code
  <2>4. Timely(c)'
    BY <1>2, <1>3, <2>1, <2>2, <2>3, StillTimely DEF SleepInv
  <2>5. pc[a][2] = c /\ pc[a][1] \in Places \cup TimedPlaces
    BY <1>1, <1>2 DEF Places, TimedPlaces
  <2>6. pc'[a][1] \notin TimedPlaces
    BY <1>4 DEF TimedPlaces, Code
  <2> QED BY <1>2, <1>3, <1>4, <2>4, <2>5, <2>6, OthersTimely
<1> QED BY <1>5, <1>6

\* A channel that is closed, with nobody parked on it.
LEMMA ClosedTimely ==
  ASSUME NEW c, chan'[c].closed, chan'[c].senders = <<>>, chan'[c].receivers = <<>>
  PROVE  Timely(c)'
<1>1. Main \notin Range(chan'[c].receivers)
  BY DEF Range
<1> QED BY <1>1 DEF Timely

LEMMA SendClosedTimely ==
  ASSUME IInv, SleepInv, NEW a \in Agents, SendClosed(a)
  PROVE  SleepInv'
<1>1. PICK c : c = pc[a][2]
  OBVIOUS
<1>2. /\ pc[a][1] = "send" /\ chan[c].closed
      /\ chan' = [chan EXCEPT ![c].poisoned = PanicUnwinds]
      /\ pc' = [pc EXCEPT ![a] = <<"panics", None>>]
  BY <1>1 DEF SendClosed, Locked, At, Goto
<1>3. c \in Chans
  BY <1>1, <1>2, Types, NodeParts
<1>4. /\ chan'[c].senders = chan[c].senders /\ chan'[c].receivers = chan[c].receivers
      /\ chan'[c].closed = chan[c].closed
      /\ \A d \in Chans \ {c} : chan'[d] = chan[d]
      /\ pc'[a] = <<"panics", None>> /\ \A b \in Agents \ {a} : pc'[b] = pc[b]
  BY <1>2, <1>3, Types
<1>5. chan[c].senders = <<>> /\ chan[c].receivers = <<>>
  BY <1>2, <1>3 DEF SleepInv, Timely
<1>6. Timely(c)'
  BY <1>2, <1>4, <1>5, ClosedTimely
<1>7. pc[a][2] = c /\ pc[a][1] \in Places \cup TimedPlaces
  BY <1>1, <1>2 DEF Places
<1>8. pc'[a][1] \notin TimedPlaces
  BY <1>4 DEF TimedPlaces
<1> QED BY <1>3, <1>4, <1>6, <1>7, <1>8, OthersTimely

LEMMA CloseTimely ==
  ASSUME IInv, SleepInv, NEW a \in Agents, Close(a)
  PROVE  SleepInv'
<1>1. PICK c \in Chans :
        /\ pc[a][1] = "code"
        /\ IF chan[c].poisoned THEN pc' = [pc EXCEPT ![a] = <<"panics", None>>]
                               ELSE pc' = pc
        /\ IF chan[c].poisoned \/ chan[c].closed
           THEN chan' = chan
           ELSE chan' = [chan EXCEPT ![c].closed = TRUE, ![c].senders = <<>>,
                                     ![c].receivers = <<>>]
  BY DEF Close, Enters, At, Goto
<1>2. CASE chan[c].poisoned
  BY <1>1, <1>2, OneGoes DEF Places, TimedPlaces
<1>3. CASE ~chan[c].poisoned /\ chan[c].closed
  BY <1>1, <1>3, NobodyGoes
<1>4. CASE ~chan[c].poisoned /\ ~chan[c].closed
  <2>1. /\ chan'[c].closed /\ chan'[c].senders = <<>> /\ chan'[c].receivers = <<>>
        /\ \A d \in Chans \ {c} : chan'[d] = chan[d]
        /\ pc' = pc
    BY <1>1, <1>4, Types
  <2>2. Timely(c)'
    BY <2>1, ClosedTimely
  <2>3. pc'[a][1] \notin TimedPlaces
    BY <1>1, <2>1 DEF TimedPlaces
  <2> QED BY <1>1, <2>1, <2>2, <2>3, OthersTimely
<1> QED BY <1>2, <1>3, <1>4

LEMMA ExpiredTimely ==
  ASSUME IInv, SleepInv, TimedExpired
  PROVE  SleepInv'
<1>1. PICK c : c = pc[Main][2]
  OBVIOUS
<1>2. /\ pc[Main][1] = "expired" /\ Main \in Agents
      /\ chan' = [chan EXCEPT ![c].receivers = WithoutMain(@)]
      /\ pc' = [pc EXCEPT ![Main] = Code]
  BY <1>1, Names DEF TimedExpired, Locked, At
<1>3. c \in TimedChans /\ c \in Chans
  BY <1>1, <1>2, ArmsAssumption DEF SleepInv, DeadlinesKnown, TimedPlaces
<1>4. /\ chan'[c].senders = chan[c].senders /\ chan'[c].count = chan[c].count
      /\ chan'[c].receivers = WithoutMain(chan[c].receivers)
      /\ chan'[c].closed = chan[c].closed /\ chan'[c].poisoned = chan[c].poisoned
      /\ \A d \in Chans \ {c} : chan'[d] = chan[d]
      /\ pc'[Main] = Code /\ \A b \in Agents \ {Main} : pc'[b] = pc[b]
  BY <1>2, <1>3, Types
<1>5. chan[c].receivers = <<>> => chan'[c].receivers = <<>>
  <2>1. Range(<<>>) = {}
    BY DEF Range
  <2> QED BY <1>4, <2>1 DEF WithoutMain
<1>6. chan'[c].senders # <<>> => Bound - chan'[c].count <= Cardinality(Sending(c)')
  <2>1. Sending(c) \subseteq Sending(c)'
    BY <1>2, <1>4, WhoIsComing
  <2>2. /\ Cardinality(Sending(c)) <= Cardinality(Sending(c)')
        /\ Cardinality(Sending(c)) \in Nat /\ Cardinality(Sending(c)') \in Nat
    BY <2>1, FewComing, CardinalitySteps
  <2>3. chan[c].count \in Nat /\ Bound \in Nat
    BY <1>3, ChanTypes
  <2> QED BY <1>3, <1>4, <2>2, <2>3 DEF SleepInv, Timely
<1>7. pc'[Main][1] # "panics"
  BY <1>4 DEF Code
<1>8. Timely(c)'
  BY <1>3, <1>4, <1>5, <1>6, <1>7 DEF SleepInv, Timely
<1>9. pc[Main][2] = c /\ pc[Main][1] \in Places \cup TimedPlaces
  BY <1>1, <1>2 DEF TimedPlaces
<1>10. pc'[Main][1] \notin TimedPlaces
  BY <1>4 DEF TimedPlaces, Code
<1> QED BY <1>2, <1>3, <1>4, <1>8, <1>9, <1>10, OthersTimely

LEMMA PopsTimely ==
  ASSUME IInv, SleepInv, NEW a \in Agents, Recv(a) \/ SelectFires(a)
  PROVE  SleepInv'
<1>1. CASE Recv(a)
  <2>1. pc[a][1] \in {"recv", "timed"} /\ Pop(a, pc[a][2])
    BY <1>1 DEF Recv, Locked, At
  <2>2. pc[a][2] \in Chans
    BY <2>1, Types, NodeParts
  <2> QED BY <2>1, <2>2, PopTimely
<1>2. CASE SelectFires(a)
  <2>1. pc[a][1] = "select"
    BY <1>2 DEF SelectFires, At
  <2>2. PICK i \in DOMAIN Arms :
          \/ pc' = [pc EXCEPT ![a] = <<"panics", None>>] /\ chan' = chan
          \/ Pop(a, Arms[i])
    BY <1>2 DEF SelectFires, Selects, Goto
  <2>3. Arms[i] \in Chans
    BY ArmsAssumption, <2>2
  <2> QED BY <2>1, <2>2, <2>3, PopTimely, OneGoes DEF Places, TimedPlaces
<1> QED BY <1>1, <1>2

LEMMA InitSleep == Init => SleepInv
<1> SUFFICES ASSUME Init PROVE SleepInv
  OBVIOUS
<1>1. \A c \in Chans : chan[c] = [count |-> 0, closed |-> FALSE, poisoned |-> FALSE,
                                  senders |-> <<>>, receivers |-> <<>>]
  BY DEF Init
<1>2. \A c \in Chans : Main \notin Range(chan[c].receivers)
  BY <1>1 DEF Range
<1>3. \A c \in Chans : Timely(c)
  BY <1>1, <1>2 DEF Timely
<1>4. \A a \in Agents : pc[a] = Code
  BY DEF Init
<1>5. DeadlinesKnown
  BY <1>4 DEF DeadlinesKnown, TimedPlaces, Code
<1> QED BY <1>3, <1>5 DEF SleepInv

LEMMA NextSleep == IInv /\ SleepInv /\ [Next]_vars => SleepInv'
<1> SUFFICES ASSUME IInv, SleepInv, [Next]_vars PROVE SleepInv'
  OBVIOUS
<1>1. CASE UNCHANGED vars
  BY <1>1, NobodyGoes DEF vars
<1>2. CASE MainStep
  BY <1>2, MainTimely, ExpiredTimely
<1>3. ASSUME NEW a \in Agents, CallStep(a) PROVE SleepInv'
  BY <1>3, CallsTimely, CloseTimely
<1>4. ASSUME NEW a \in Agents, RunStep(a) PROVE SleepInv'
  <2>1. CASE PoisonedLock(a) \/ RecvNothing(a)
    BY <2>1, LeavesTimely
  <2>2. CASE Send(a)
    BY <2>2, SendTimely
  <2>3. CASE SendClosed(a)
    BY <2>3, SendClosedTimely
  <2>4. CASE SendPark(a)
    BY <2>4, SendParkTimely
  <2>5. CASE RecvPark(a)
    BY <2>5, RecvParkTimely
  <2>6. CASE Recv(a) \/ SelectFires(a)
    BY <2>6, PopsTimely
  <2> QED BY <1>4, <2>1, <2>2, <2>3, <2>4, <2>5, <2>6, QuietTimely DEF RunStep
<1>5. ASSUME NEW a \in Agents, Arrive(a) PROVE SleepInv'
  BY <1>5, ArriveTimely
<1> QED BY <1>1, <1>2, <1>3, <1>4, <1>5 DEF Next, ThreadStep

\* Nobody oversleeps on a channel: whoever is parked is not needed, or somebody
\* who is on the way comes in its place (zo_chan_send, zo_chan_recv and close,
\* channel.rs), whatever else the one thread is made to do in between.
THEOREM ParkedAreWoken == Spec => []NobodyOversleeps
<1>1. SleepInv => NobodyOversleeps
  BY DEF SleepInv, Timely, NobodyOversleeps, Receiving, Sending
<1> QED BY <1>1, InitSleep, NextSleep, Invariance, PTL DEF Spec

=============================================================================
