----------------------------- MODULE PoolProofs -----------------------------
(***************************************************************************)
(* Proofs about Pool, for any number of workers, clients and tasks and any *)
(* deeds: that no worker sleeps, or is about to, over work nobody will     *)
(* wake it for, that only new work moves, what a shutdown leaves behind,   *)
(* that every task has one holder, and what the count of pending tasks     *)
(* counts.                                                                 *)
(***************************************************************************)
EXTENDS Pool, ListLemmas, FiniteSetTheorems, SequenceTheorems, TLAPS

----------------------------------------------------------------------------
(* Indices and lists.                                                      *)

\* The next worker, and the victim of a thief, are workers.
LEMMA NextWorker ==
  ASSUME NEW i \in Workers
  PROVE  (i + 1) % N \in Workers /\ 0 \in Workers
BY WorkersAssumption DEF Workers

LEMMA VictimIsWorker ==
  ASSUME TypeOK, NEW w \in Workers
  PROVE  Victim(w) \in Workers
<1>1. probe[w] \in 1..N
  BY DEF TypeOK
<1>2. w + probe[w] \in Nat
  BY <1>1, WorkersAssumption DEF Workers
<1> QED BY <1>2, WorkersAssumption DEF Victim, Workers

\* What is taken off the front of a list, and what stays.
LEMMA HeadAndTail ==
  ASSUME NEW S, NEW s \in Seq(S), s # <<>>
  PROVE  Head(s) \in S /\ Tail(s) \in Seq(S)
OBVIOUS

LEMMA HalfBounds == \A n \in Nat : Half(n) \in 0..n
BY DEF Half

LEMMA Cut ==
  ASSUME NEW S, NEW s \in Seq(S)
  PROVE  /\ SubSeq(s, 1, Half(Len(s))) \in Seq(S)
         /\ SubSeq(s, Half(Len(s)) + 1, Len(s)) \in Seq(S)
         /\ SubSeq(s, 1, Len(s) - 1) \in Seq(S)
<1>1. Len(s) \in Nat
  OBVIOUS
<1>2. Half(Len(s)) \in 0..Len(s)
  BY <1>1, HalfBounds
<1>3. \A i \in 1..Len(s) : s[i] \in S
  OBVIOUS
<1>4. \A m \in 1..(Len(s) + 1), n \in 0..Len(s) : SubSeq(s, m, n) \in Seq(S)
  BY <1>1, <1>3, SubSeqProperties
<1> QED BY <1>1, <1>2, <1>4, SubSeqProperties

\* The top of a stack that is not empty, and what is below it.
LEMMA TopAndBelow ==
  ASSUME NEW w \in Workers, chain[w] \in Seq(Tasks), chain[w] # <<>>
  PROVE  /\ Top(w) \in Tasks
         /\ Below(w) \in Seq(Tasks)
         /\ Len(chain[w]) \in Nat \ {0}
         /\ Len(chain[w]) # 1 => Below(w) # <<>>
<1>1. Len(chain[w]) \in Nat \ {0} /\ \A i \in 1..Len(chain[w]) : chain[w][i] \in Tasks
  BY EmptySeq, LenProperties
<1>2. Top(w) \in Tasks
  BY <1>1 DEF Top
<1>3. Below(w) \in Seq(Tasks)
  BY Cut DEF Below
<1>4. 1 <= Len(chain[w]) - 1 => Len(Below(w)) = Len(chain[w]) - 1
  <2>1. \A i \in 1..(Len(chain[w]) - 1) : chain[w][i] \in Tasks
    BY <1>1
  <2> QED BY <1>1, <2>1, SubSeqProperties DEF Below
<1>5. ASSUME Len(chain[w]) # 1 PROVE Below(w) # <<>>
  <2>1. \A n \in Nat \ {0} : n # 1 => 1 <= n - 1
    OBVIOUS
  <2>2. 1 <= Len(chain[w]) - 1
    BY <1>1, <1>5, <2>1
  <2>3. Len(Below(w)) # 0
    BY <1>4, <2>2
  <2> QED BY <2>3
<1> QED BY <1>1, <1>2, <1>3, <1>5

----------------------------------------------------------------------------
(* AwakeInv holds at first.                                                    *)

LEMMA InitAwake == Init => AwakeInv
<1> SUFFICES ASSUME Init PROVE AwakeInv
  OBVIOUS
<1>1. 0 \in Workers /\ 1 \in 1..N
  BY WorkersAssumption DEF Workers
<1>2. Idle \in [at : {"idle"}, task : {None}, i : {0}, best : {0},
               len : {UsizeMax}]
  BY DEF Idle
<1>3. client \in [Clients -> [at : {"idle", "scan", "push", "unpark", "waiting",
                                   "wakeAll", "join", "gone"},
                             task : PoolTasks \cup {None},
                             i : Workers, best : Workers, len : 0..UsizeMax]]
  BY <1>1, <1>2, BoundsAssumption DEF Init, Idle
<1>4. <<>> \in Seq(Tasks) /\ 0 \in 0..UsizeMax
  BY BoundsAssumption
<1>5. TypeOK
  BY <1>1, <1>3, <1>4 DEF Init, TypeOK
<1>6. TasksTyped
  BY <1>4 DEF Init, TasksTyped, New
<1>7. CarriesTask /\ InRunOne /\ VictimLeft /\ SleepersOwedWake
  BY DEF Init, CarriesTask, InRunOne, VictimLeft, SleepersOwedWake, Idle
<1> QED BY <1>5, <1>6, <1>7 DEF AwakeInv

----------------------------------------------------------------------------
(* AwakeInv is preserved, one lemma per group of actions.                      *)

\* The type of a client's record.
Calls == [at : {"idle", "scan", "push", "unpark", "waiting", "wakeAll", "join",
                "gone"},
          task : PoolTasks \cup {None},
          i : Workers, best : Workers, len : 0..UsizeMax]

\* The types of where a worker and a task are, of a task's state and of faults.
Places == {"loop", "own", "steal", "stash", "park", "run", "match", "ran", "gone"}
Steps == {"new", "code", "awaited", "drain", "listed", "blocked"}
           \X (Tasks \cup {None})
States == {"unborn", "Ready", "Running", "Blocked", "Dead", "freed"}
Faults == {"none", "use after free", "double free", "two runners"}

LEMMA IdleIsCall == Idle \in Calls
BY WorkersAssumption, BoundsAssumption DEF Idle, Calls, Workers

\* Clients.
LEMMA ClientSteps ==
  ASSUME AwakeInv, NEW c \in Clients, CallStep(c) \/ ClientStep(c)
  PROVE  AwakeInv'
<1> USE DEF workers, tasks
<1>1. /\ TypeOK /\ TasksTyped
      /\ CarriesTask /\ InRunOne /\ VictimLeft /\ SleepersOwedWake
  BY DEF AwakeInv
<1>2. client \in [Clients -> Calls] /\ client[c] \in Calls
  BY <1>1 DEF TypeOK, Calls
<1>Submit. CASE Submit(c)
  <2>1. PICK t \in PoolTasks :
          /\ state' = [state EXCEPT ![t] = "Ready"]
          /\ client' = [client EXCEPT ![c] = [Idle EXCEPT !.at = "scan",
                                                         !.task = t]]
    BY <1>Submit DEF Submit
  <2>2. [Idle EXCEPT !.at = "scan", !.task = t] \in Calls
    BY IdleIsCall DEF Calls
  <2>3. client' \in [Clients -> Calls]
    BY <2>1, <2>2, <1>2
  <2>4. t \in Tasks /\ Incremented(pending) \in 0..UsizeMax
    <3>1. t \in Tasks /\ pending \in 0..UsizeMax
      BY <1>1 DEF TypeOK, Tasks
    <3> QED BY <3>1, BoundsAssumption DEF Incremented
  <2>5. TypeOK'
    BY <1>Submit, <1>1, <2>1, <2>3, <2>4 DEF Submit, TypeOK, Calls
  <2>6. CarriesTask'
    BY <2>1, <1>1, <1>2, TasksAssumption DEF CarriesTask, Idle, Tasks
  <2>7. \A d \in Clients : client[d].at = "unpark" => client'[d] = client[d]
    BY <1>Submit, <2>1, <1>2 DEF Submit, ClientAt
  <2>8. SleepersOwedWake'
    BY <1>Submit, <1>1, <2>7 DEF Submit, SleepersOwedWake, ClientAt
  <2> QED BY <1>Submit, <1>1, <2>5, <2>6, <2>8
          DEF Submit, AwakeInv, TasksTyped, InRunOne, VictimLeft
<1>CallWait. CASE CallWait(c)
  <2>1. client' \in [Clients -> Calls]
    BY <1>CallWait, <1>2, IdleIsCall, NextWorker DEF CallWait, Calls
  <2>2. TypeOK'
    BY <1>CallWait, <1>1, <1>2, <2>1 DEF CallWait, TypeOK, Calls
  <2>3. CarriesTask'
    BY <1>CallWait, <1>1, <1>2 DEF CallWait, CarriesTask, ClientAt, Idle, Calls
  <2>4. SleepersOwedWake'
    BY <1>CallWait, <1>1, <1>2 DEF CallWait, TypeOK, SleepersOwedWake, ClientAt, Idle, Calls
  <2> QED BY <1>CallWait, <1>1, <2>2, <2>3, <2>4
          DEF CallWait, AwakeInv, TasksTyped, InRunOne, VictimLeft
<1>WaitReturns. CASE WaitReturns(c)
  <2>1. client' \in [Clients -> Calls]
    BY <1>WaitReturns, <1>2, IdleIsCall, NextWorker DEF WaitReturns, Calls
  <2>2. TypeOK'
    BY <1>WaitReturns, <1>1, <1>2, <2>1 DEF WaitReturns, TypeOK, Calls
  <2>3. CarriesTask'
    BY <1>WaitReturns, <1>1, <1>2 DEF WaitReturns, CarriesTask, ClientAt, Idle, Calls
  <2>4. SleepersOwedWake'
    BY <1>WaitReturns, <1>1, <1>2 DEF WaitReturns, TypeOK, SleepersOwedWake, ClientAt, Idle, Calls
  <2> QED BY <1>WaitReturns, <1>1, <2>2, <2>3, <2>4
          DEF WaitReturns, AwakeInv, TasksTyped, InRunOne, VictimLeft
<1>Shutdown. CASE Shutdown(c)
  <2>1. client' \in [Clients -> Calls]
    BY <1>Shutdown, <1>2, IdleIsCall, NextWorker DEF Shutdown, Calls
  <2>2. TypeOK'
    BY <1>Shutdown, <1>1, <1>2, <2>1 DEF Shutdown, TypeOK, Calls
  <2>3. CarriesTask'
    BY <1>Shutdown, <1>1, <1>2 DEF Shutdown, CarriesTask, ClientAt, Idle, Calls
  <2>4. SleepersOwedWake'
    BY <1>Shutdown, <1>1, <1>2 DEF Shutdown, TypeOK, SleepersOwedWake, ClientAt, Idle, Calls
  <2> QED BY <1>Shutdown, <1>1, <2>2, <2>3, <2>4
          DEF Shutdown, AwakeInv, TasksTyped, InRunOne, VictimLeft
<1>Scan. CASE Scan(c)
  <2>1. client' \in [Clients -> Calls]
    <3>1. client[c].i \in Workers /\ client[c].len \in 0..UsizeMax
      BY <1>2 DEF Calls
    <3>2. Len(queues[client[c].i]) \in Nat
      <4>1. queues[client[c].i] \in Seq(Tasks)
        BY <3>1, <1>1 DEF TypeOK
      <4> QED BY <4>1
    <3>3. CASE Len(queues[client[c].i]) < client[c].len
      <4>1. Len(queues[client[c].i]) \in 0..UsizeMax
        BY <3>1, <3>2, <3>3, BoundsAssumption
      <4> QED BY <3>1, <3>3, <4>1, <1>Scan, <1>2, NextWorker DEF Scan, Calls
    <3>4. CASE ~(Len(queues[client[c].i]) < client[c].len)
      BY <3>1, <3>4, <1>Scan, <1>2, NextWorker DEF Scan, Calls
    <3> QED BY <3>3, <3>4
  <2>2. TypeOK'
    BY <1>Scan, <1>1, <1>2, <2>1 DEF Scan, TypeOK, Calls
  <2>3. CarriesTask'
    BY <1>Scan, <1>1, <1>2 DEF Scan, CarriesTask, ClientAt, Idle, Calls
  <2>4. SleepersOwedWake'
    BY <1>Scan, <1>1, <1>2 DEF Scan, TypeOK, SleepersOwedWake, ClientAt, Idle, Calls
  <2> QED BY <1>Scan, <1>1, <2>2, <2>3, <2>4
          DEF Scan, AwakeInv, TasksTyped, InRunOne, VictimLeft
<1>Push. CASE Push(c)
  <2>1. client' \in [Clients -> Calls]
    BY <1>Push, <1>2 DEF Push, Calls
  <2>a. client[c].task \in Tasks /\ client[c].best \in Workers
    BY <1>Push, <1>1, <1>2 DEF Push, ClientAt, CarriesTask, Calls, Tasks
  <2>b. queues \in [Workers -> Seq(Tasks)]
    BY <1>1 DEF TypeOK
  <2>c. Append(queues[client[c].best], client[c].task) \in Seq(Tasks)
    BY <2>a, <2>b
  <2>d. queues' \in [Workers -> Seq(Tasks)]
    BY <1>Push, <2>a, <2>b, <2>c DEF Push
  <2>2. TypeOK'
    BY <1>Push, <1>1, <2>1, <2>d DEF Push, TypeOK, Calls
  <2>3. CarriesTask'
    BY <1>Push, <1>1, <1>2 DEF Push, CarriesTask, ClientAt, Idle, Calls
  <2>4. client'[c].at = "unpark" /\ client'[c].best = client[c].best
    BY <1>Push, <1>2 DEF Push, Calls
  <2>5. \A d \in Clients : d # c => client'[d] = client[d]
    BY <1>Push, <1>2 DEF Push
  <2>6. \A w \in Workers : w # client[c].best => queues'[w] = queues[w]
    BY <1>Push, <1>1 DEF Push, TypeOK
  <2>7. \A d \in Clients : client[d].at = "unpark" =>
          d # c /\ client'[d] = client[d]
    BY <1>Push, <2>5 DEF Push, ClientAt
  <2>8. SleepersOwedWake'
    <3> SUFFICES ASSUME NEW w \in Workers, (queues[w] # <<>>)',
                        pc'[w] \in {"steal", "park"}
                 PROVE  \/ notified'[w]
                        \/ \E d \in Clients : /\ client'[d].at = "unpark"
                                            /\ client'[d].best = w
      BY DEF SleepersOwedWake, ClientAt
    <3>1. CASE w = client[c].best
      BY <3>1, <2>4
    <3>2. CASE w # client[c].best
      <4>1. queues[w] # <<>> /\ pc[w] \in {"steal", "park"}
        BY <3>2, <2>6, <1>Push DEF Push
      <4>2. \/ notified[w]
            \/ \E d \in Clients : client[d].at = "unpark" /\ client[d].best = w
        BY <4>1, <1>1 DEF SleepersOwedWake, ClientAt
      <4> QED BY <4>2, <2>7, <1>Push DEF Push
    <3> QED BY <3>1, <3>2
  <2> QED BY <1>Push, <1>1, <2>2, <2>3, <2>8
          DEF Push, AwakeInv, TasksTyped, InRunOne, VictimLeft
<1>Unpark. CASE Unpark(c)
  <2>1. client' \in [Clients -> Calls]
    BY <1>Unpark, <1>2, IdleIsCall, NextWorker DEF Unpark, Calls
  <2>2. TypeOK'
    BY <1>Unpark, <1>1, <1>2, <2>1 DEF Unpark, TypeOK, Calls
  <2>3. CarriesTask'
    BY <1>Unpark, <1>1, <1>2 DEF Unpark, CarriesTask, ClientAt, Idle, Calls
  <2>4. SleepersOwedWake'
    BY ZenonT(30), <1>Unpark, <1>1, <1>2 DEF Unpark, TypeOK, SleepersOwedWake, ClientAt, Idle, Calls
  <2> QED BY <1>Unpark, <1>1, <2>2, <2>3, <2>4
          DEF Unpark, AwakeInv, TasksTyped, InRunOne, VictimLeft
<1>WakeAll. CASE WakeAll(c)
  <2>1. client' \in [Clients -> Calls]
    BY <1>WakeAll, <1>2, IdleIsCall, NextWorker DEF WakeAll, Calls
  <2>2. TypeOK'
    BY <1>WakeAll, <1>1, <1>2, <2>1 DEF WakeAll, TypeOK, Calls
  <2>3. CarriesTask'
    BY <1>WakeAll, <1>1, <1>2 DEF WakeAll, CarriesTask, ClientAt, Idle, Calls
  <2>4. SleepersOwedWake'
    BY ZenonT(30), <1>WakeAll, <1>1, <1>2 DEF WakeAll, TypeOK, SleepersOwedWake, ClientAt, Idle, Calls
  <2> QED BY <1>WakeAll, <1>1, <2>2, <2>3, <2>4
          DEF WakeAll, AwakeInv, TasksTyped, InRunOne, VictimLeft
<1>Join. CASE Join(c)
  <2>1. client' \in [Clients -> Calls]
    BY <1>Join, <1>2 DEF Join, Calls
  <2>a. /\ state' \in [Tasks -> {"unborn", "Ready", "Running", "Blocked", "Dead",
                                "freed"}]
        /\ queues' \in [Workers -> Seq(Tasks)]
    <3>1. state \in [Tasks -> {"unborn", "Ready", "Running", "Blocked", "Dead",
                              "freed"}]
      BY <1>1 DEF TypeOK
    <3>2. <<>> \in Seq(Tasks)
      OBVIOUS
    <3> QED BY <3>1, <3>2, <1>Join DEF Join
  <2>2. TypeOK'
    BY <1>Join, <1>1, <1>2, <2>1, <2>a DEF Join, TypeOK, Calls
  <2>3. CarriesTask'
    BY <1>Join, <1>1, <1>2 DEF Join, CarriesTask, ClientAt, Idle, Calls
  <2>4. SleepersOwedWake'
    BY <1>Join, <1>1, <1>2 DEF Join, TypeOK, SleepersOwedWake, ClientAt, Idle, Calls
  <2> QED BY <1>Join, <1>1, <2>2, <2>3, <2>4
          DEF Join, AwakeInv, TasksTyped, InRunOne, VictimLeft
<1> QED BY <1>Submit, <1>CallWait, <1>WaitReturns, <1>Shutdown, <1>Scan, <1>Push, <1>Unpark, <1>WakeAll, <1>Join
    DEF CallStep, ClientStep

\* A worker falls asleep, or stays so, only over an empty queue or one it is
\* owed a wake-up for.
LEMMA StillOwed ==
  ASSUME SleepersOwedWake, UNCHANGED <<client, notified>>,
         \A v \in Workers :
           (queues'[v] # <<>> /\ pc'[v] \in {"steal", "park"}) =>
             (queues[v] # <<>> /\ pc[v] \in {"steal", "park"})
  PROVE  SleepersOwedWake'
BY DEF SleepersOwedWake, ClientAt

\* run_one.
LEMMA RunOneTyped ==
  ASSUME TypeOK, TasksTyped, VictimLeft, InRunOne,
         NEW w \in Workers, NEW t \in Tasks, RunOne(w, t), UNCHANGED probe
  PROVE  /\ chain' \in [Workers -> Seq(Tasks)]
         /\ state' \in [Tasks -> States]
         /\ at' \in [Tasks -> Steps]
         /\ fault' \in Faults
         /\ pc' \in [Workers -> Places]
         /\ InRunOne' /\ VictimLeft'
<1>1. chain \in [Workers -> Seq(Tasks)] /\ state \in [Tasks -> States]
      /\ fault \in Faults /\ pc \in [Workers -> Places]
  BY DEF TypeOK, States, Faults, Places
<1>2. at \in [Tasks -> Steps]
  BY DEF TasksTyped, Steps
<1>3. chain' \in [Workers -> Seq(Tasks)]
  <2>1. Append(chain[w], t) \in Seq(Tasks)
    BY <1>1
  <2> QED BY <2>1, <1>1 DEF RunOne
<1>4. state' \in [Tasks -> States]
  BY <1>1 DEF RunOne, States
<1>5. at' \in [Tasks -> Steps]
  <2>1. at[t] \in Steps /\ Code \in Steps
    BY <1>2 DEF Code, Steps
  <2>2. Resumed(at[t]) \in Steps
    BY <2>1 DEF Resumed
  <2> QED BY <2>2, <1>2 DEF RunOne
<1>6. fault' \in Faults
  BY <1>1 DEF RunOne, Entered, Faults
<1>7. pc' \in [Workers -> Places]
  BY <1>1 DEF RunOne, WorkerTo, Places
<1>8. InRunOne'
  <2>1. chain'[w] # <<>>
    <3>1. chain[w] \in Seq(Tasks) /\ chain'[w] = Append(chain[w], t)
      BY <1>1 DEF RunOne
    <3> QED BY <3>1, AppendProperties
  <2>2. \A v \in Workers : v # w => chain'[v] = chain[v] /\ pc'[v] = pc[v]
    BY <1>1 DEF RunOne, WorkerTo
  <2> QED BY <2>1, <2>2 DEF InRunOne
<1>9. VictimLeft'
  BY <1>1 DEF RunOne, WorkerTo, VictimLeft
<1> QED BY <1>3, <1>4, <1>5, <1>6, <1>7, <1>8, <1>9

\* Where a thief goes.
LEMMA ProbesTyped ==
  ASSUME TypeOK, VictimLeft, NEW w \in Workers, NEW o \in 1..N, Probes(w, o)
  PROVE  /\ probe' \in [Workers -> 1..N] /\ pc' \in [Workers -> Places]
         /\ VictimLeft'
         /\ \A v \in Workers : v # w => pc'[v] = pc[v]
         /\ pc'[w] \in {"steal", "park"}
<1>1. probe \in [Workers -> 1..N] /\ pc \in [Workers -> Places]
  BY DEF TypeOK, Places
<1> QED BY <1>1 DEF Probes, WorkerTo, VictimLeft, Places

\* A worker's loop.
LEMMA LoopSteps ==
  ASSUME AwakeInv, NEW w \in Workers, LoopStep(w) \/ TimesOut(w)
  PROVE  AwakeInv'
<1> USE DEF workers, tasks
<1>1. /\ TypeOK /\ TasksTyped
      /\ CarriesTask /\ InRunOne /\ VictimLeft /\ SleepersOwedWake
  BY DEF AwakeInv
<1>2. /\ queues \in [Workers -> Seq(Tasks)] /\ stolen \in [Workers -> Seq(Tasks)]
      /\ local \in [Workers -> Seq(Tasks)] /\ chain \in [Workers -> Seq(Tasks)]
      /\ pc \in [Workers -> Places] /\ probe \in [Workers -> 1..N]
      /\ state \in [Tasks -> States] /\ fault \in Faults
      /\ pending \in 0..UsizeMax
  BY <1>1 DEF TypeOK, Places, States, Faults
<1>Look. CASE Look(w)
  <2>1. TypeOK' /\ InRunOne' /\ VictimLeft'
    BY <1>Look, <1>1 DEF Look, TypeOK, InRunOne, VictimLeft, WorkerAt, WorkerTo
  <2>2. SleepersOwedWake'
    BY <1>Look, <1>1, <1>2 DEF Look, SleepersOwedWake, WorkerAt, WorkerTo, ClientAt
  <2> QED BY <1>Look, <1>1, <2>1, <2>2 DEF Look, AwakeInv, TasksTyped, CarriesTask
<1>Unparked. CASE Unparked(w)
  <2>1. TypeOK' /\ InRunOne' /\ VictimLeft'
    BY <1>Unparked, <1>1 DEF Unparked, TypeOK, InRunOne, VictimLeft, WorkerAt, WorkerTo
  <2>2. SleepersOwedWake'
    BY <1>Unparked, <1>1, <1>2 DEF Unparked, SleepersOwedWake, WorkerAt, WorkerTo, ClientAt
  <2> QED BY <1>Unparked, <1>1, <2>1, <2>2 DEF Unparked, AwakeInv, TasksTyped, CarriesTask
<1>TimesOut. CASE TimesOut(w)
  <2>1. TypeOK' /\ InRunOne' /\ VictimLeft'
    BY <1>TimesOut, <1>1 DEF TimesOut, TypeOK, InRunOne, VictimLeft, WorkerAt, WorkerTo
  <2>2. SleepersOwedWake'
    BY <1>TimesOut, <1>1, <1>2 DEF TimesOut, SleepersOwedWake, WorkerAt, WorkerTo, ClientAt
  <2> QED BY <1>TimesOut, <1>1, <2>1, <2>2 DEF TimesOut, AwakeInv, TasksTyped, CarriesTask
<1>TakeOwn. CASE TakeOwn(w)
  <2>1. queues[w] \in Seq(Tasks) /\ queues[w] # <<>>
    BY <1>TakeOwn, <1>2 DEF TakeOwn
  <2>2. Head(queues[w]) \in Tasks /\ Tail(queues[w]) \in Seq(Tasks)
    BY <2>1, HeadAndTail
  <2>3. queues' \in [Workers -> Seq(Tasks)]
    BY <1>TakeOwn, <1>2, <2>2 DEF TakeOwn
  <2>4. RunOne(w, Head(queues[w])) /\ UNCHANGED probe
    BY <1>TakeOwn DEF TakeOwn
  <2>5. TypeOK' /\ TasksTyped' /\ InRunOne' /\ VictimLeft'
    <3>1. /\ chain' \in [Workers -> Seq(Tasks)] /\ state' \in [Tasks -> States]
          /\ at' \in [Tasks -> Steps] /\ fault' \in Faults
          /\ pc' \in [Workers -> Places] /\ InRunOne' /\ VictimLeft'
      BY <1>1, <2>2, <2>4, RunOneTyped
    <3>2. TypeOK'
      BY <1>TakeOwn, <1>1, <2>3, <3>1 DEF TakeOwn, TypeOK, States, Faults, Places
    <3>3. TasksTyped'
      BY <1>TakeOwn, <1>1, <3>1 DEF TakeOwn, TasksTyped, Steps
    <3> QED BY <3>1, <3>2, <3>3
  <2>6. SleepersOwedWake'
    BY <1>TakeOwn, <1>1, <1>2, StillOwed DEF TakeOwn, RunOne, WorkerTo
  <2> QED BY <1>TakeOwn, <1>1, <2>5, <2>6 DEF TakeOwn, AwakeInv, CarriesTask
<1>TakeLocal. CASE TakeLocal(w)
  <2>1. local[w] \in Seq(Tasks) /\ local[w] # <<>>
    BY <1>TakeLocal, <1>2 DEF TakeLocal
  <2>2. Head(local[w]) \in Tasks /\ Tail(local[w]) \in Seq(Tasks)
    BY <2>1, HeadAndTail
  <2>3. local' \in [Workers -> Seq(Tasks)]
    BY <1>TakeLocal, <1>2, <2>2 DEF TakeLocal
  <2>4. RunOne(w, Head(local[w])) /\ UNCHANGED probe
    BY <1>TakeLocal DEF TakeLocal
  <2>5. TypeOK' /\ TasksTyped' /\ InRunOne' /\ VictimLeft'
    <3>1. /\ chain' \in [Workers -> Seq(Tasks)] /\ state' \in [Tasks -> States]
          /\ at' \in [Tasks -> Steps] /\ fault' \in Faults
          /\ pc' \in [Workers -> Places] /\ InRunOne' /\ VictimLeft'
      BY <1>1, <2>2, <2>4, RunOneTyped
    <3>2. TypeOK'
      BY <1>TakeLocal, <1>1, <2>3, <3>1 DEF TakeLocal, TypeOK, States, Faults, Places
    <3>3. TasksTyped'
      BY <1>TakeLocal, <1>1, <3>1 DEF TakeLocal, TasksTyped, Steps
    <3> QED BY <3>1, <3>2, <3>3
  <2>6. SleepersOwedWake'
    BY <1>TakeLocal, <1>1, <1>2, StillOwed DEF TakeLocal, RunOne, WorkerTo
  <2> QED BY <1>TakeLocal, <1>1, <2>5, <2>6 DEF TakeLocal, AwakeInv, CarriesTask
<1>NothingOwn. CASE NothingOwn(w)
  <2>1. 1 \in 1..N
    BY <1>NothingOwn, <1>1, <1>2, WorkersAssumption DEF NothingOwn, WorkerAt, VictimLeft
  <2>2. Probes(w, 1)
    BY <1>NothingOwn DEF NothingOwn
  <2>3. /\ probe' \in [Workers -> 1..N] /\ pc' \in [Workers -> Places]
        /\ VictimLeft'
        /\ \A v \in Workers : v # w => pc'[v] = pc[v]
    BY <1>1, <2>1, <2>2, ProbesTyped
  <2>4. TypeOK'
    BY <1>NothingOwn, <1>1, <2>3 DEF NothingOwn, TypeOK, Places
  <2>5. InRunOne'
    BY <1>NothingOwn, <1>1, <2>1, <2>2, <2>3, ProbesTyped DEF NothingOwn, InRunOne
  <2>6. SleepersOwedWake'
    BY <1>NothingOwn, <1>1, <2>3, StillOwed DEF NothingOwn, WorkerAt
  <2> QED BY <1>NothingOwn, <1>1, <2>3, <2>4, <2>5, <2>6
          DEF NothingOwn, AwakeInv, TasksTyped, CarriesTask
<1>NothingThere. CASE NothingThere(w)
  <2>1. probe[w] + 1 \in 1..N
    BY <1>NothingThere, <1>1, <1>2, WorkersAssumption DEF NothingThere, WorkerAt, VictimLeft
  <2>2. Probes(w, probe[w] + 1)
    BY <1>NothingThere DEF NothingThere
  <2>3. /\ probe' \in [Workers -> 1..N] /\ pc' \in [Workers -> Places]
        /\ VictimLeft'
        /\ \A v \in Workers : v # w => pc'[v] = pc[v]
    BY <1>1, <2>1, <2>2, ProbesTyped
  <2>4. TypeOK'
    BY <1>NothingThere, <1>1, <2>3 DEF NothingThere, TypeOK, Places
  <2>5. InRunOne'
    BY <1>NothingThere, <1>1, <2>1, <2>2, <2>3, ProbesTyped DEF NothingThere, InRunOne
  <2>6. SleepersOwedWake'
    BY <1>NothingThere, <1>1, <2>3, StillOwed DEF NothingThere, WorkerAt
  <2> QED BY <1>NothingThere, <1>1, <2>3, <2>4, <2>5, <2>6
          DEF NothingThere, AwakeInv, TasksTyped, CarriesTask
<1>Steal. CASE Steal(w)
  <2> DEFINE q == queues[Victim(w)]
  <2>1. Victim(w) \in Workers /\ q \in Seq(Tasks)
    BY <1>1, <1>2, VictimIsWorker
  <2>2. /\ SubSeq(q, 1, Half(Len(q))) \in Seq(Tasks)
        /\ SubSeq(q, Half(Len(q)) + 1, Len(q)) \in Seq(Tasks)
    BY <2>1, Cut
  <2>3. /\ queues' \in [Workers -> Seq(Tasks)] /\ stolen' \in [Workers -> Seq(Tasks)]
        /\ pc' \in [Workers -> Places]
    BY <1>Steal, <1>2, <2>2 DEF Steal, WorkerTo, Places
  <2>4. TypeOK'
    BY <1>Steal, <1>1, <2>3 DEF Steal, TypeOK, Places
  <2>5. InRunOne' /\ VictimLeft'
    BY <1>Steal, <1>1, <1>2 DEF Steal, WorkerTo, InRunOne, VictimLeft
  <2>6. SleepersOwedWake'
    <3>1. pc'[w] = "stash" /\ \A v \in Workers : v # w => pc'[v] = pc[v]
      BY <1>Steal, <1>2 DEF Steal, WorkerTo
    <3>2. q # <<>> /\ \A v \in Workers : v # Victim(w) => queues'[v] = queues[v]
      BY <1>Steal, <1>2 DEF Steal
    <3>3. \A v \in Workers :
            (queues'[v] # <<>> /\ pc'[v] \in {"steal", "park"}) =>
              (queues[v] # <<>> /\ pc[v] \in {"steal", "park"})
      BY <3>1, <3>2
    <3> QED BY <1>Steal, <1>1, <3>3, StillOwed DEF Steal
  <2> QED BY <1>Steal, <1>1, <2>4, <2>5, <2>6
          DEF Steal, AwakeInv, TasksTyped, CarriesTask
<1>Stash. CASE Stash(w)
  <2>1. queues[w] \o stolen[w] \in Seq(Tasks) /\ <<>> \in Seq(Tasks)
    BY <1>2
  <2>2. /\ queues' \in [Workers -> Seq(Tasks)] /\ stolen' \in [Workers -> Seq(Tasks)]
        /\ pc' \in [Workers -> Places]
    BY <1>Stash, <1>2, <2>1 DEF Stash, WorkerTo, Places
  <2>3. TypeOK'
    BY <1>Stash, <1>1, <2>2 DEF Stash, TypeOK, Places
  <2>4. InRunOne' /\ VictimLeft'
    BY <1>Stash, <1>1, <1>2 DEF Stash, WorkerTo, InRunOne, VictimLeft
  <2>5. SleepersOwedWake'
    BY <1>Stash, <1>1, <1>2, StillOwed DEF Stash, WorkerTo
  <2> QED BY <1>Stash, <1>1, <2>3, <2>4, <2>5
          DEF Stash, AwakeInv, TasksTyped, CarriesTask
<1>Match. CASE Match(w)
  <2>1. Top(w) \in Tasks /\ Below(w) \in Seq(Tasks)
    BY <1>Match, <1>1, <1>2, TopAndBelow DEF Match, WorkerAt, InRunOne
  <2>2. local' \in [Workers -> Seq(Tasks)]
    <3>1. Append(local[w], Top(w)) \in Seq(Tasks)
      BY <2>1, <1>2
    <3> QED BY <3>1, <1>2, <1>Match DEF Match
  <2>3. state' \in [Tasks -> States] /\ fault' \in Faults
    BY <2>1, <1>2, <1>Match DEF Match, States, Faults
  <2>4. /\ chain' \in [Workers -> Seq(Tasks)] /\ pc' \in [Workers -> Places]
        /\ \A v \in Workers : v # w => chain'[v] = chain[v] /\ pc'[v] = pc[v]
        /\ pc'[w] \in {"ran", "run"} /\ chain'[w] # <<>>
    <3>1. CASE Len(chain[w]) = 1
      BY <3>1, <1>Match, <1>1, <1>2 DEF Match, WorkerAt, WorkerTo, Places, InRunOne
    <3>2. CASE Len(chain[w]) # 1
      <4>1. Below(w) # <<>>
        BY <3>2, <2>1, <1>2, TopAndBelow, <1>Match, <1>1 DEF Match, WorkerAt, InRunOne
      <4> QED BY <3>2, <4>1, <2>1, <1>Match, <1>2 DEF Match, WorkerTo, Places
    <3> QED BY <3>1, <3>2
  <2>5. TypeOK'
    BY <1>Match, <1>1, <2>2, <2>3, <2>4 DEF Match, TypeOK, States, Faults, Places
  <2>6. InRunOne' /\ VictimLeft'
    BY <1>Match, <1>1, <2>4 DEF Match, InRunOne, VictimLeft
  <2>7. SleepersOwedWake'
    BY <1>Match, <1>1, <2>4, StillOwed DEF Match
  <2> QED BY <1>Match, <1>1, <2>5, <2>6, <2>7
          DEF Match, AwakeInv, TasksTyped, CarriesTask
<1>Reap. CASE Reap(w)
  <2>1. Top(w) \in Tasks
    BY <1>Reap, <1>1, <1>2, TopAndBelow DEF Reap, WorkerAt, InRunOne
  <2>2. pending' \in 0..UsizeMax
    <3>1. Decremented(pending) \in 0..UsizeMax
      BY <1>2, BoundsAssumption DEF Decremented
    <3> QED BY <3>1, <1>2, <1>Reap DEF Reap
  <2>3. state' \in [Tasks -> States] /\ fault' \in Faults
    BY <2>1, <1>2, <1>Reap DEF Reap, States, Faults
  <2>4. chain' \in [Workers -> Seq(Tasks)] /\ pc' \in [Workers -> Places]
    <3>1. <<>> \in Seq(Tasks)
      OBVIOUS
    <3> QED BY <3>1, <1>2, <1>Reap DEF Reap, WorkerTo, Places
  <2>5. TypeOK'
    BY <1>Reap, <1>1, <2>2, <2>3, <2>4 DEF Reap, TypeOK, States, Faults, Places
  <2>6. InRunOne' /\ VictimLeft'
    BY <1>Reap, <1>1, <1>2 DEF Reap, WorkerTo, InRunOne, VictimLeft
  <2>7. SleepersOwedWake'
    BY <1>Reap, <1>1, <1>2, StillOwed DEF Reap, WorkerTo
  <2> QED BY <1>Reap, <1>1, <2>5, <2>6, <2>7
          DEF Reap, AwakeInv, TasksTyped, CarriesTask
<1> QED BY <1>Look, <1>TakeOwn, <1>TakeLocal, <1>NothingOwn, <1>Steal, <1>NothingThere,
           <1>Stash, <1>Unparked, <1>TimesOut, <1>Match, <1>Reap
        DEF LoopStep

\* A task that runs leaves its worker, and puts tasks in its local queue.
LEMMA SwitchedOut ==
  ASSUME TypeOK, InRunOne, VictimLeft, NEW w \in Workers, WorkerAt(w, "run"),
         SwitchOut(w)
  PROVE  pc' \in [Workers -> Places] /\ InRunOne' /\ VictimLeft'
<1>1. pc \in [Workers -> Places]
  BY DEF TypeOK, Places
<1> QED BY <1>1 DEF SwitchOut, WorkerAt, WorkerTo, Places, InRunOne, VictimLeft

LEMMA EnqueuedTyped ==
  ASSUME TypeOK, NEW w \in Workers, NEW ts \in Seq(Tasks), Enqueued(w, ts)
  PROVE  local' \in [Workers -> Seq(Tasks)]
<1>1. local \in [Workers -> Seq(Tasks)]
  BY DEF TypeOK
<1>2. local[w] \o ts \in Seq(Tasks)
  BY <1>1
<1> QED BY <1>1, <1>2 DEF Enqueued

\* What a task does leaves the shared queues, the latches and the clients
\* alone, and puts no worker to sleep.
LEMMA TaskKeepsOwed ==
  ASSUME TypeOK, SleepersOwedWake, NEW w \in Workers, PoolUnchanged,
         \/ UNCHANGED pc
         \/ \E place \in {"match", "run"} : WorkerTo(w, place)
  PROVE  SleepersOwedWake'
<1>1. pc \in [Workers -> Places]
  BY DEF TypeOK, Places
<1> QED BY <1>1, StillOwed DEF PoolUnchanged, WorkerTo

\* What a task does.
LEMMA TaskSteps ==
  ASSUME AwakeInv, NEW w \in Workers, TaskStep(w)
  PROVE  AwakeInv'
<1> USE DEF workers, tasks
<1> DEFINE t == Top(w)
<1>1. /\ TypeOK /\ TasksTyped
      /\ CarriesTask /\ InRunOne /\ VictimLeft /\ SleepersOwedWake
  BY DEF AwakeInv
<1>2. /\ local \in [Workers -> Seq(Tasks)] /\ chain \in [Workers -> Seq(Tasks)]
      /\ pc \in [Workers -> Places]
      /\ state \in [Tasks -> States] /\ fault \in Faults
  BY <1>1 DEF TypeOK, Places, States, Faults
<1>3. /\ at \in [Tasks -> Steps] /\ waiters \in [Tasks -> Seq(Tasks)]
      /\ parent \in [Tasks -> Tasks \cup {None}] /\ listeners \in Seq(Tasks)
      /\ done \in [Tasks -> Nat]
  BY <1>1 DEF TasksTyped, Steps
<1>4. WorkerAt(w, "run")
  BY DEF TaskStep, Yield, Die, Spawn, Await, Consume, Drain, DrainDispatch,
         DrainReturns, Listen, MarkBlocked, Leave, Wake, Does, Runs
<1>5. t \in Tasks
  BY <1>1, <1>2, <1>4, TopAndBelow DEF WorkerAt, InRunOne
<1>6. ASSUME NEW deed, Does(w, deed) PROVE done' \in [Tasks -> Nat]
  BY <1>3, <1>5, <1>6 DEF Does
<1>7. ASSUME NEW place \in {"code", "awaited", "drain", "listed", "blocked"},
             NEW arg \in Tasks \cup {None}, Goes(t, place, arg)
      PROVE  at' \in [Tasks -> Steps]
  <2>1. <<place, arg>> \in Steps
    BY DEF Steps
  <2> QED BY <2>1, <1>3, <1>7 DEF Goes
<1>8. ASSUME SwitchOut(w) \/ Stays(w), PoolUnchanged,
             UNCHANGED local \/ \E ts \in Seq(Tasks) : Enqueued(w, ts),
             state' \in [Tasks -> States], fault' \in Faults, TasksTyped'
      PROVE  AwakeInv'
  <2>1. local' \in [Workers -> Seq(Tasks)]
    BY <1>1, <1>2, <1>8, EnqueuedTyped
  <2>2. pc' \in [Workers -> Places] /\ InRunOne' /\ VictimLeft'
    <3>1. CASE SwitchOut(w)
      BY <3>1, <1>1, <1>4, SwitchedOut
    <3>2. CASE Stays(w)
      BY <3>2, <1>1, <1>2 DEF Stays, InRunOne, VictimLeft
    <3> QED BY <3>1, <3>2, <1>8
  <2>3. TypeOK'
    BY <2>1, <2>2, <1>1, <1>8
    DEF TypeOK, SwitchOut, Stays, PoolUnchanged, Places, States, Faults
  <2>4. SleepersOwedWake'
    BY <1>1, <1>8, TaskKeepsOwed DEF SwitchOut, Stays
  <2>5. CarriesTask'
    BY <1>1, <1>8 DEF PoolUnchanged, CarriesTask
  <2> QED BY <2>2, <2>3, <2>4, <2>5, <1>8 DEF AwakeInv
<1>Yield. CASE Yield(w)
  BY <1>Yield, <1>1, <1>2, <1>8 DEF Yield, TasksTyped
<1>Die. CASE Die(w)
  <2>1. waiters[t] \in Seq(Tasks) /\ <<>> \in Seq(Tasks)
    BY <1>3, <1>5
  <2>2. state' \in [Tasks -> States]
    BY <1>Die, <1>2 DEF Die, States
  <2>3. waiters' \in [Tasks -> Seq(Tasks)]
    BY <1>Die, <1>3, <2>1 DEF Die
  <2>4. TasksTyped'
    BY <1>Die, <1>1, <2>3 DEF Die, TasksTyped
  <2> QED BY <1>Die, <1>2, <1>8, <2>1, <2>2, <2>4 DEF Die
<1>Spawn. CASE Spawn(w)
  <2>1. PICK u \in Children : /\ state' = [state EXCEPT ![u] = "Ready"]
                             /\ parent' = [parent EXCEPT ![u] = t]
                             /\ Enqueued(w, <<u>>)
    BY <1>Spawn DEF Spawn
  <2>2. u \in Tasks /\ <<u>> \in Seq(Tasks)
    BY DEF Tasks
  <2>3. state' \in [Tasks -> States] /\ parent' \in [Tasks -> Tasks \cup {None}]
    BY <2>1, <1>2, <1>3, <1>5 DEF States
  <2>4. TasksTyped'
    BY <1>Spawn, <1>1, <1>6, <2>3 DEF Spawn, TasksTyped
  <2> QED BY <1>Spawn, <1>2, <1>8, <2>1, <2>2, <2>3, <2>4 DEF Spawn
<1>Await. CASE Await(w)
  <2>1. PICK u \in Children :
          /\ Goes(t, "awaited", u)
          /\ \/ Stays(w) /\ UNCHANGED <<state, waiters, fault>>
             \/ /\ waiters' = [waiters EXCEPT ![u] = Append(@, t)]
                /\ state' = [state EXCEPT ![t] = "Blocked"]
                /\ fault' \in {"use after free", fault}
                /\ SwitchOut(w)
    BY <1>Await DEF Await
  <2>2. u \in Tasks
    BY DEF Tasks
  <2>3. at' \in [Tasks -> Steps] /\ done' \in [Tasks -> Nat]
    BY <1>Await, <1>6, <1>7, <2>1, <2>2 DEF Await
  <2>4. Append(waiters[u], t) \in Seq(Tasks)
    BY <2>2, <1>3, <1>5
  <2>5. waiters' \in [Tasks -> Seq(Tasks)]
    BY <2>1, <2>4, <1>3
  <2>6. state' \in [Tasks -> States] /\ fault' \in Faults
    BY <2>1, <1>2 DEF States, Faults
  <2>7. TasksTyped'
    BY <1>Await, <1>1, <2>3, <2>5 DEF Await, TasksTyped, Steps
  <2> QED BY <1>Await, <1>8, <2>1, <2>6, <2>7 DEF Await
<1>Consume. CASE Consume(w)
  <2>1. state' \in [Tasks -> States] /\ fault' \in Faults
    BY <1>Consume, <1>2 DEF Consume, States, Faults
  <2>2. at' \in [Tasks -> Steps] /\ parent' \in [Tasks -> Tasks \cup {None}]
    BY <1>Consume, <1>3, <1>7 DEF Consume
  <2>3. TasksTyped'
    BY <1>Consume, <1>1, <2>2 DEF Consume, TasksTyped, Steps
  <2> QED BY <1>Consume, <1>8, <2>1, <2>3 DEF Consume
<1>Drain. CASE Drain(w)
  <2>1. at' \in [Tasks -> Steps] /\ done' \in [Tasks -> Nat]
    BY <1>Drain, <1>6, <1>7 DEF Drain
  <2>2. TasksTyped'
    BY <1>Drain, <1>1, <2>1 DEF Drain, TasksTyped, Steps
  <2> QED BY <1>Drain, <1>2, <1>8, <2>2 DEF Drain
<1>DrainDispatch. CASE DrainDispatch(w)
  <2>1. local[w] \in Seq(Tasks) /\ local[w] # <<>>
    BY <1>DrainDispatch, <1>2 DEF DrainDispatch
  <2>2. Head(local[w]) \in Tasks /\ Tail(local[w]) \in Seq(Tasks)
    BY <2>1, HeadAndTail
  <2>3. local' \in [Workers -> Seq(Tasks)]
    BY <1>DrainDispatch, <1>2, <2>2 DEF DrainDispatch
  <2>4. RunOne(w, Head(local[w])) /\ UNCHANGED probe
    BY <1>DrainDispatch DEF DrainDispatch
  <2>5. /\ chain' \in [Workers -> Seq(Tasks)] /\ state' \in [Tasks -> States]
        /\ at' \in [Tasks -> Steps] /\ fault' \in Faults
        /\ pc' \in [Workers -> Places] /\ InRunOne' /\ VictimLeft'
    BY <1>1, <2>2, <2>4, RunOneTyped
  <2>6. TypeOK'
    BY <1>DrainDispatch, <1>1, <2>3, <2>5
    DEF DrainDispatch, PoolUnchanged, TypeOK, States, Faults, Places
  <2>7. TasksTyped'
    BY <1>DrainDispatch, <1>1, <2>5 DEF DrainDispatch, TasksTyped, Steps
  <2>8. SleepersOwedWake'
    BY <1>DrainDispatch, <1>1, TaskKeepsOwed DEF DrainDispatch, RunOne
  <2> QED BY <1>DrainDispatch, <1>1, <2>5, <2>6, <2>7, <2>8
          DEF DrainDispatch, PoolUnchanged, AwakeInv, CarriesTask
<1>DrainReturns. CASE DrainReturns(w)
  <2>1. at' \in [Tasks -> Steps]
    BY <1>DrainReturns, <1>7 DEF DrainReturns
  <2>2. TasksTyped'
    BY <1>DrainReturns, <1>1, <2>1 DEF DrainReturns, TasksTyped, Steps
  <2> QED BY <1>DrainReturns, <1>2, <1>8, <2>2 DEF DrainReturns
<1>Listen. CASE Listen(w)
  <2>1. at' \in [Tasks -> Steps] /\ done' \in [Tasks -> Nat]
    BY <1>Listen, <1>6, <1>7 DEF Listen
  <2>2. listeners' \in Seq(Tasks)
    BY <1>Listen, <1>3, <1>5 DEF Listen
  <2>3. TasksTyped'
    BY <1>Listen, <1>1, <2>1, <2>2 DEF Listen, TasksTyped, Steps
  <2> QED BY <1>Listen, <1>2, <1>8, <2>3 DEF Listen
<1>MarkBlocked. CASE MarkBlocked(w)
  <2>1. state' \in [Tasks -> States]
    BY <1>MarkBlocked, <1>2 DEF MarkBlocked, States
  <2>2. at' \in [Tasks -> Steps]
    BY <1>MarkBlocked, <1>7 DEF MarkBlocked
  <2>3. TasksTyped'
    BY <1>MarkBlocked, <1>1, <2>2 DEF MarkBlocked, TasksTyped, Steps
  <2> QED BY <1>MarkBlocked, <1>2, <1>8, <2>1, <2>3 DEF MarkBlocked
<1>Leave. CASE Leave(w)
  BY <1>Leave, <1>1, <1>2, <1>8 DEF Leave, TasksTyped
<1>Wake. CASE Wake(w)
  <2>1. Head(listeners) \in Tasks /\ Tail(listeners) \in Seq(Tasks)
    BY <1>Wake, <1>3, HeadAndTail DEF Wake
  <2>2. state' \in [Tasks -> States] /\ fault' \in Faults
    BY <1>Wake, <1>2, <2>1 DEF Wake, States, Faults
  <2>3. <<Head(listeners)>> \in Seq(Tasks)
    BY <2>1
  <2>4. TasksTyped'
    BY <1>Wake, <1>1, <1>6, <2>1 DEF Wake, TasksTyped
  <2> QED BY <1>Wake, <1>8, <2>2, <2>3, <2>4 DEF Wake
<1> QED BY <1>Yield, <1>Die, <1>Spawn, <1>Await, <1>Consume, <1>Drain,
           <1>DrainDispatch, <1>DrainReturns, <1>Listen, <1>MarkBlocked,
           <1>Leave, <1>Wake
        DEF TaskStep

----------------------------------------------------------------------------
(* Only new work moves.                                                    *)

MovesInv == HandsHoldFresh /\ OneHand /\ RestStarted

\* Fresh after the step.
StillFresh(t) == t \in PoolTasks /\ at'[t] = New /\ state'[t] = "Ready"

\* HandsHoldFresh after the step.
LEMMA HoldFresh ==
  ASSUME \A w \in Workers :
           \A t \in Range(queues'[w]) \cup Range(stolen'[w]) : StillFresh(t),
         \A c \in Clients : client'[c].task # None => StillFresh(client'[c].task)
  PROVE  HandsHoldFresh'
BY DEF HandsHoldFresh, Fresh, StillFresh, New

LEMMA FreshNotStarted ==
  ASSUME NEW t \in Tasks, Fresh(t)
  PROVE  ~Started(t) /\ at[t] = New
BY TasksAssumption DEF Fresh, Started

LEMMA InitMoves == Init => MovesInv
<1> SUFFICES ASSUME Init PROVE MovesInv
  OBVIOUS
<1>1. Range(<<>>) = {} /\ IsInjective(<<>>)
  BY DEF Range, IsInjective
<1>2. /\ \A w \in Workers : queues[w] = <<>> /\ stolen[w] = <<>>
                            /\ local[w] = <<>> /\ chain[w] = <<>>
      /\ \A c \in Clients : client[c].task = None
      /\ \A t \in Tasks : at[t] = <<"new", None>> /\ at[t] = New /\ waiters[t] = <<>>
      /\ listeners = <<>>
  BY DEF Init, Idle, New
<1>3. HandsHoldFresh
  BY <1>1, <1>2 DEF HandsHoldFresh
<1>4. OneHand
  BY <1>1, <1>2 DEF OneHand
<1>5. RestStarted
  BY <1>1, <1>2 DEF RestStarted
<1> QED BY <1>3, <1>4, <1>5 DEF MovesInv

\* A step that leaves the hands alone and starts nothing they hold.
LEMMA HandsKept ==
  ASSUME HandsHoldFresh, OneHand, UNCHANGED <<queues, stolen>>,
         \A c \in Clients : client'[c].task \in {client[c].task, None},
         TypeOK, \A t \in Tasks : Fresh(t) => at'[t] = New /\ state'[t] = "Ready"
  PROVE  HandsHoldFresh' /\ OneHand'
<1>1. \A w \in Workers : Range(queues[w]) \subseteq Tasks /\ Range(stolen[w]) \subseteq Tasks
  BY RangeOfSeq DEF TypeOK
<1>2. \A t \in Tasks : Fresh(t) => StillFresh(t)
  BY DEF Fresh, StillFresh
<1>3. \A t : Fresh(t) => t \in Tasks
  BY DEF Fresh, Tasks
<1>4. HandsHoldFresh'
  BY <1>1, <1>2, <1>3, HoldFresh DEF HandsHoldFresh
<1>5. OneHand'
  BY <1>1, TasksAssumption DEF OneHand
<1> QED BY <1>4, <1>5

\* A step that refers to nothing new but what has started.
LEMMA RestKept ==
  ASSUME TypeOK, TasksTyped, RestStarted,
         \A w \in Workers : \A t \in Range(chain'[w]) :
           t \in Range(chain[w]) \/ at'[t] # New,
         \A w \in Workers : \A t \in Range(local'[w]) :
           t \in Range(local[w]) \/ t \in Children \/ at'[t] # New,
         \A t \in Range(listeners') :
           t \in Range(listeners) \/ t \in Children \/ at'[t] # New,
         \A u \in Tasks : \A t \in Range(waiters'[u]) :
           t \in Range(waiters[u]) \/ t \in Children \/ at'[t] # New,
         \A t \in Tasks :
           \/ at'[t] = at[t]
           \/ /\ at'[t] # New /\ state'[t] # "unborn"
              /\ at'[t][1] = "awaited" => at'[t][2] \in Children,
         \A t \in Tasks : state'[t] = "unborn" => state[t] = "unborn"
  PROVE  RestStarted'
<1>1. \A w \in Workers : Range(chain[w]) \subseteq Tasks /\ Range(local[w]) \subseteq Tasks
  BY RangeOfSeq DEF TypeOK
<1>2. \A u \in Tasks : Range(waiters[u]) \subseteq Tasks
  BY RangeOfSeq DEF TasksTyped
<1>3. Range(listeners) \subseteq Tasks
  BY RangeOfSeq DEF TasksTyped
<1>4. \A t \in Tasks : at[t] # New => at'[t] # New
  OBVIOUS
<1>5. \A w \in Workers : \A t \in Range(chain'[w]) : at'[t] # New
  BY <1>1, <1>4 DEF RestStarted
<1>6. \A w \in Workers : \A t \in Range(local'[w]) : t \in Children \/ at'[t] # New
  BY <1>1, <1>4 DEF RestStarted, Started
<1>7. \A t \in Range(listeners') : t \in Children \/ at'[t] # New
  BY <1>3, <1>4 DEF RestStarted, Started
<1>8. \A u \in Tasks : \A t \in Range(waiters'[u]) : t \in Children \/ at'[t] # New
  BY <1>2, <1>4 DEF RestStarted, Started
<1>9. \A t \in Tasks : at'[t][1] = "awaited" => at'[t][2] \in Children
  BY DEF RestStarted
<1>10. \A t \in Tasks : state'[t] = "unborn" => at'[t] = New
  BY DEF RestStarted
<1> QED BY <1>5, <1>6, <1>7, <1>8, <1>9, <1>10 DEF RestStarted, Started, New

\* Clients.
LEMMA ClientMoves ==
  ASSUME IInv, NEW c \in Clients, CallStep(c) \/ ClientStep(c)
  PROVE  MovesInv'
<1> USE DEF workers, tasks
<1>1. /\ TypeOK /\ TasksTyped /\ CarriesTask
      /\ HandsHoldFresh /\ OneHand /\ RestStarted
  BY DEF IInv, AwakeInv
<1>2. client \in [Clients -> Calls] /\ queues \in [Workers -> Seq(Tasks)]
      /\ stolen \in [Workers -> Seq(Tasks)] /\ state \in [Tasks -> States]
  BY <1>1 DEF TypeOK, Calls, States
<1>3. \A w \in Workers : Range(queues[w]) \subseteq Tasks /\ Range(stolen[w]) \subseteq Tasks
  BY <1>2, RangeOfSeq
<1>4. ASSUME UNCHANGED <<tasks, local, chain>>,
             \A t \in Tasks : state'[t] = "unborn" => state[t] = "unborn"
      PROVE  RestStarted'
  BY <1>1, <1>4, RestKept
<1>5. ASSUME UNCHANGED <<tasks, local, chain, state, queues, stolen>>,
             \A d \in Clients : client'[d].task \in {client[d].task, None}
      PROVE  MovesInv'
  BY <1>1, <1>4, <1>5, HandsKept DEF MovesInv, Fresh
<1>Submit. CASE Submit(c)
  <2>1. PICK t \in PoolTasks :
          /\ state[t] = "unborn"
          /\ state' = [state EXCEPT ![t] = "Ready"]
          /\ client' = [client EXCEPT ![c] = [Idle EXCEPT !.at = "scan",
                                                         !.task = t]]
    BY <1>Submit DEF Submit
  <2>2. t \in Tasks /\ at[t] = New
    BY <2>1, <1>1 DEF RestStarted, Tasks
  <2>3. UNCHANGED <<tasks, local, chain, queues, stolen>>
    BY <1>Submit DEF Submit
  <2>4. client'[c].task = t /\ \A d \in Clients : d # c => client'[d] = client[d]
    BY <2>1, <1>2 DEF Idle
  <2>5. \A u : Fresh(u) => StillFresh(u) /\ u # t
    BY <2>1, <2>3, <1>2 DEF Fresh, StillFresh, Tasks
  <2>6. StillFresh(t)
    BY <2>1, <2>2, <2>3, <1>2 DEF StillFresh
  <2>7. HandsHoldFresh'
    <3>1. ASSUME NEW d \in Clients, client'[d].task # None
          PROVE  StillFresh(client'[d].task)
      <4>1. CASE d = c
        BY <4>1, <2>4, <2>6
      <4>2. CASE d # c
        BY <4>2, <3>1, <2>4, <2>5, <1>1 DEF HandsHoldFresh
      <4> QED BY <4>1, <4>2
    <3>2. \A w \in Workers :
            \A u \in Range(queues'[w]) \cup Range(stolen'[w]) : StillFresh(u)
      BY <2>3, <2>5, <1>1 DEF HandsHoldFresh
    <3> QED BY <3>1, <3>2, HoldFresh
  <2>8. OneHand'
    <3>1. \A w \in Workers : t \notin Range(queues[w]) \cup Range(stolen[w])
      BY <2>5, <1>1, <1>3 DEF HandsHoldFresh
    <3>2. \A d \in Clients : client[d].task # t
      BY <2>2, <2>5, <1>1, TasksAssumption DEF HandsHoldFresh
    <3> QED BY <3>1, <3>2, <2>3, <2>4, <1>1 DEF OneHand
  <2>9. RestStarted'
    BY <2>1, <2>3, <1>2, <1>4
  <2> QED BY <2>7, <2>8, <2>9 DEF MovesInv
<1>Scan. CASE Scan(c)
  <2>1. \A d \in Clients : client'[d].task = client[d].task
    BY <1>Scan, <1>2 DEF Scan, Calls
  <2> QED BY <2>1, <1>Scan, <1>5 DEF Scan
<1>Push. CASE Push(c)
  <2> DEFINE t == client[c].task
             b == client[c].best
  <2>1. t \in Tasks /\ t # None /\ b \in Workers
    BY <1>Push, <1>1, <1>2, TasksAssumption DEF Push, ClientAt, CarriesTask, Calls, Tasks
  <2>2. /\ client'[c].task = None
        /\ \A d \in Clients : d # c => client'[d] = client[d]
    BY <1>Push, <1>2 DEF Push, Calls
  <2>3. queues[b] \in Seq(Tasks) /\ t \notin Range(queues[b]) /\ IsInjective(queues[b])
    BY <2>1, <1>1, <1>2 DEF OneHand
  <2>4. /\ queues'[b] = Append(queues[b], t)
        /\ \A w \in Workers : w # b => queues'[w] = queues[w]
    BY <1>Push, <2>1, <1>2 DEF Push
  <2>5. Range(queues'[b]) = Range(queues[b]) \cup {t} /\ IsInjective(queues'[b])
    BY <2>1, <2>3, <2>4, RangeAppend
  <2> HIDE DEF t, b
  <2>6. UNCHANGED <<tasks, local, chain, state, stolen>>
    BY <1>Push DEF Push
  <2>7. \A u : Fresh(u) => StillFresh(u)
    BY <2>6 DEF Fresh, StillFresh
  <2>8. Fresh(t)
    BY <2>1, <1>1 DEF HandsHoldFresh, t
  <2>9. HandsHoldFresh'
    <3>1. ASSUME NEW w \in Workers, NEW u \in Range(queues'[w]) \cup Range(stolen'[w])
          PROVE  StillFresh(u)
      BY <2>6, <2>4, <2>5, <2>7, <2>8, <1>1 DEF HandsHoldFresh
    <3>2. ASSUME NEW d \in Clients, client'[d].task # None
          PROVE  StillFresh(client'[d].task)
      <4>1. client'[d].task = client[d].task
        BY <3>2, <2>2
      <4> QED BY <4>1, <3>2, <2>7, <1>1 DEF HandsHoldFresh
    <3> QED BY <3>1, <3>2, HoldFresh
  <2>10. OneHand'
    <3>1. \A w \in Workers : t \notin Range(queues[w]) \cup Range(stolen[w])
      BY <1>1 DEF OneHand, t
    <3>2. \A d \in Clients : d # c => client[d].task # t
      BY <2>1, <1>1 DEF OneHand, t
    <3>3. \A w \in Workers : None \notin Range(queues'[w]) \cup Range(stolen[w])
      BY <2>1, <2>4, <2>5, <1>3, TasksAssumption
    <3>4. \A w \in Workers : /\ Range(queues'[w]) = Range(queues[w]) \cup (IF w = b THEN {t} ELSE {})
                             /\ IsInjective(queues'[w])
      BY <2>4, <2>5, <1>1 DEF OneHand
    <3>5. \A v, w \in Workers :
            /\ Range(queues'[v]) \cap Range(stolen[w]) = {}
            /\ v # w => Range(queues'[v]) \cap Range(queues'[w]) = {}
      BY <3>1, <3>4, <1>1 DEF OneHand
    <3>6. \A d \in Clients, w \in Workers :
            client'[d].task \notin Range(queues'[w]) \cup Range(stolen[w])
      <4> SUFFICES ASSUME NEW d \in Clients, NEW w \in Workers
                   PROVE  client'[d].task \notin Range(queues'[w]) \cup Range(stolen[w])
        OBVIOUS
      <4>1. CASE d = c
        BY <4>1, <3>3, <2>2
      <4>2. CASE d # c
        BY <4>2, <3>2, <3>4, <2>2, <1>1 DEF OneHand
      <4> QED BY <4>1, <4>2
    <3>7. \A d, e \in Clients :
            d # e /\ client'[d].task = client'[e].task => client'[d].task = None
      BY <2>2, <1>1 DEF OneHand
    <3> QED BY <3>4, <3>5, <3>6, <3>7, <2>6, <1>1 DEF OneHand
  <2>11. RestStarted'
    BY <2>6, <1>4
  <2> QED BY <2>9, <2>10, <2>11 DEF MovesInv
<1>Join. CASE Join(c)
  <2>1. \A d \in Clients : client'[d].task = client[d].task
    BY <1>Join, <1>2 DEF Join, Calls
  <2>2. /\ UNCHANGED <<tasks, local, chain, stolen>>
        /\ \A w \in Workers : queues'[w] = <<>>
        /\ \A t \in Tasks : state'[t] = state[t]
                            \/ /\ state'[t] = "freed"
                               /\ \E w \in Workers : t \in Range(queues[w])
    BY <1>Join DEF Join
  <2>3. Range(<<>>) = {} /\ IsInjective(<<>>)
    BY DEF Range, IsInjective
  <2>4. ASSUME NEW t \in Tasks, Fresh(t), \A w \in Workers : t \notin Range(queues[w])
        PROVE  StillFresh(t)
    BY <2>2, <2>4 DEF Fresh, StillFresh
  <2>5. HandsHoldFresh'
    <3>1. ASSUME NEW w \in Workers, NEW t \in Range(stolen[w]) PROVE StillFresh(t)
      BY <3>1, <2>4, <1>1, <1>3 DEF HandsHoldFresh, OneHand
    <3>2. ASSUME NEW d \in Clients, client[d].task # None PROVE StillFresh(client[d].task)
      <4>1. Fresh(client[d].task) /\ client[d].task \in Tasks
        BY <3>2, <1>1 DEF HandsHoldFresh, Fresh, Tasks
      <4>2. \A w \in Workers : client[d].task \notin Range(queues[w])
        BY <1>1 DEF OneHand
      <4> QED BY <4>1, <4>2, <2>4
    <3> QED BY <3>1, <3>2, <2>1, <2>2, <2>3, HoldFresh
  <2>6. OneHand'
    BY SMTT(30), <2>1, <2>2, <2>3, <1>1 DEF OneHand
  <2>7. RestStarted'
    BY <2>2, <1>4
  <2> QED BY <2>5, <2>6, <2>7 DEF MovesInv
<1>6. CASE \/ CallWait(c) \/ WaitReturns(c) \/ Shutdown(c) \/ Unpark(c)
           \/ WakeAll(c)
  <2>1. \A d \in Clients : client'[d].task \in {client[d].task, None}
    <3>1. ASSUME NEW d \in Clients PROVE client'[d].task \in {client[d].task, None}
      <4>1. CASE WaitReturns(c) \/ Unpark(c)
        BY <4>1, <1>2 DEF WaitReturns, Unpark, Idle
      <4>2. CASE CallWait(c) \/ Shutdown(c)
        <5>1. CASE CallWait(c)
          BY <5>1, <1>2 DEF CallWait, Calls
        <5>2. CASE Shutdown(c)
          BY <5>2, <1>2 DEF Shutdown, Calls
        <5> QED BY <4>2, <5>1, <5>2
      <4>3. CASE WakeAll(c)
        BY <4>3, <1>2 DEF WakeAll, Calls
      <4> QED BY <4>1, <4>2, <4>3, <1>6
    <3> QED BY <3>1
  <2> QED BY <2>1, <1>5, <1>6
          DEF CallWait, WaitReturns, Shutdown, Unpark, WakeAll
<1> QED BY <1>Submit, <1>Scan, <1>Push, <1>Join, <1>6 DEF CallStep, ClientStep

\* run_one of a task that no hand holds any more.
LEMMA RunOneMoves ==
  ASSUME TypeOK, TasksTyped, RestStarted, NEW w \in Workers, NEW t \in Tasks,
         RunOne(w, t)
  PROVE  /\ \A v \in Workers : \A u \in Range(chain'[v]) :
              u \in Range(chain[v]) \/ at'[u] # New
         /\ \A u \in Tasks : u # t => at'[u] = at[u] /\ state'[u] = state[u]
         /\ at'[t] # New /\ state'[t] = "Running"
         /\ at'[t][1] = "awaited" => at'[t][2] \in Children
<1>1. /\ chain \in [Workers -> Seq(Tasks)] /\ state \in [Tasks -> States]
      /\ at \in [Tasks -> Steps]
  BY DEF TypeOK, TasksTyped, States, Steps
<1>2. /\ at'[t] = Resumed(at[t]) /\ state'[t] = "Running"
      /\ \A u \in Tasks : u # t => at'[u] = at[u] /\ state'[u] = state[u]
      /\ chain'[w] = Append(chain[w], t)
      /\ \A v \in Workers : v # w => chain'[v] = chain[v]
  BY <1>1 DEF RunOne
<1>3. at'[t] # New /\ (at'[t][1] = "awaited" => at'[t][2] \in Children)
  <2>1. CASE at[t][1] = "awaited"
    <3>1. New[1] = "new" /\ at'[t] = at[t]
      BY <2>1, <1>2 DEF New, Resumed
    <3> QED BY <2>1, <3>1 DEF RestStarted
  <2>2. CASE at[t][1] # "awaited"
    BY <2>2, <1>2 DEF New, Code, Resumed
  <2> QED BY <2>1, <2>2
<1>4. Range(chain'[w]) = Range(chain[w]) \cup {t}
  BY <1>1, <1>2, RangeAppend
<1>5. ASSUME NEW v \in Workers, NEW u \in Range(chain'[v])
      PROVE  u \in Range(chain[v]) \/ at'[u] # New
  <2>1. CASE v = w
    <3>1. u \in Range(chain[w]) \/ u = t
      BY <2>1, <1>4, <1>5
    <3> QED BY <2>1, <3>1, <1>3
  <2>2. CASE v # w
    <3>1. chain'[v] = chain[v]
      BY <2>2, <1>2
    <3> QED BY <3>1, <1>5
  <2> QED BY <2>1, <2>2
<1> QED BY <1>2, <1>3, <1>5

\* A task taken from a local queue is in no hand.
LEMMA LocalRuns ==
  ASSUME TypeOK, TasksTyped, RestStarted, HandsHoldFresh, OneHand,
         NEW w \in Workers, local[w] # <<>>,
         local' = [local EXCEPT ![w] = Tail(@)], RunOne(w, Head(local[w])),
         UNCHANGED <<queues, stolen, client, waiters, listeners>>
  PROVE  MovesInv'
<1> DEFINE t == Head(local[w])
<1>1. local \in [Workers -> Seq(Tasks)]
  BY DEF TypeOK
<1>2. /\ t \in Tasks /\ t \in Range(local[w])
      /\ Range(Tail(local[w])) \subseteq Range(local[w])
  BY <1>1, RangeTail
<1>3. Started(t)
  BY <1>2 DEF RestStarted
<1> HIDE DEF t
<1>4. /\ \A v \in Workers : \A u \in Range(chain'[v]) :
           u \in Range(chain[v]) \/ at'[u] # New
      /\ \A u \in Tasks : u # t => at'[u] = at[u] /\ state'[u] = state[u]
      /\ at'[t] # New /\ state'[t] = "Running"
      /\ at'[t][1] = "awaited" => at'[t][2] \in Children
  BY <1>2, RunOneMoves DEF t
<1>5. ASSUME NEW u \in Tasks, Fresh(u) PROVE at'[u] = New /\ state'[u] = "Ready"
  <2>1. u # t
    BY <1>3, <1>5, FreshNotStarted
  <2> QED BY <2>1, <1>4, <1>5 DEF Fresh
<1>6. HandsHoldFresh' /\ OneHand'
  BY <1>5, HandsKept
<1>7. \A v \in Workers : Range(local'[v]) \subseteq Range(local[v])
  BY <1>1, <1>2
<1>8. RestStarted'
  BY <1>2, <1>4, <1>7, RestKept
<1> QED BY <1>6, <1>8 DEF MovesInv

\* The task on top of a stack, and those below it.
LEMMA TopInChain ==
  ASSUME TypeOK, NEW w \in Workers, chain[w] # <<>>
  PROVE  /\ Top(w) \in Tasks /\ Top(w) \in Range(chain[w])
         /\ Range(Below(w)) \subseteq Range(chain[w])
<1>1. chain[w] \in Seq(Tasks)
  BY DEF TypeOK
<1>2. Len(chain[w]) \in Nat \ {0} /\ DOMAIN chain[w] = 1..Len(chain[w])
  BY <1>1, TopAndBelow, LenProperties
<1>3. Top(w) \in Tasks /\ Top(w) \in Range(chain[w])
  BY <1>1, <1>2, TopAndBelow DEF Top, Range
<1>4. Len(chain[w]) - 1 \in 0..Len(chain[w])
  BY <1>2
<1>5. Range(Below(w)) \subseteq Range(chain[w])
  BY <1>1, <1>4, RangeCut DEF Below
<1> QED BY <1>3, <1>5

\* A worker's loop.
LEMMA LoopMoves ==
  ASSUME IInv, NEW w \in Workers, LoopStep(w) \/ TimesOut(w)
  PROVE  MovesInv'
<1> USE DEF workers, tasks
<1>1. /\ TypeOK /\ TasksTyped /\ InRunOne /\ VictimLeft
      /\ HandsHoldFresh /\ OneHand /\ RestStarted
  BY DEF IInv, AwakeInv
<1>2. /\ queues \in [Workers -> Seq(Tasks)] /\ stolen \in [Workers -> Seq(Tasks)]
      /\ local \in [Workers -> Seq(Tasks)] /\ chain \in [Workers -> Seq(Tasks)]
      /\ state \in [Tasks -> States]
  BY <1>1 DEF TypeOK, States
<1>3. \A v \in Workers : Range(queues[v]) \subseteq Tasks /\ Range(stolen[v]) \subseteq Tasks
  BY <1>2, RangeOfSeq
<1>4. ASSUME UNCHANGED <<tasks, state, client>>,
             \A v \in Workers :
               Range(local'[v]) = Range(local[v]) /\ Range(chain'[v]) = Range(chain[v])
      PROVE  RestStarted'
  BY <1>1, <1>4, RestKept
<1>5. CASE \/ Look(w) \/ NothingOwn(w) \/ NothingThere(w) \/ Unparked(w)
           \/ TimesOut(w)
  <2>1. UNCHANGED <<tasks, state, client, queues, stolen, local, chain>>
    BY <1>5 DEF Look, NothingOwn, NothingThere, Unparked, TimesOut
  <2> QED BY <2>1, <1>1, <1>4, HandsKept DEF MovesInv, Fresh
<1>TakeOwn. CASE TakeOwn(w)
  <2> DEFINE t == Head(queues[w])
  <2>1. queues[w] \in Seq(Tasks) /\ queues[w] # <<>> /\ IsInjective(queues[w])
    BY <1>TakeOwn, <1>1, <1>2 DEF TakeOwn, OneHand
  <2>2. /\ t \in Tasks /\ t \in Range(queues[w])
        /\ Range(Tail(queues[w])) \subseteq Range(queues[w])
        /\ t \notin Range(Tail(queues[w])) /\ IsInjective(Tail(queues[w]))
    BY <2>1, RangeTail
  <2>3. /\ queues'[w] = Tail(queues[w])
        /\ \A v \in Workers : v # w => queues'[v] = queues[v]
        /\ RunOne(w, t) /\ UNCHANGED <<client, stolen, local, waiters, listeners>>
    BY <1>TakeOwn, <1>2 DEF TakeOwn
  <2> HIDE DEF t
  <2>4. /\ \A v \in Workers : \A u \in Range(chain'[v]) :
             u \in Range(chain[v]) \/ at'[u] # New
        /\ \A u \in Tasks : u # t => at'[u] = at[u] /\ state'[u] = state[u]
        /\ at'[t] # New /\ state'[t] = "Running"
        /\ at'[t][1] = "awaited" => at'[t][2] \in Children
    BY <1>1, <2>2, <2>3, RunOneMoves
  <2>5. \A u : Fresh(u) /\ u # t => StillFresh(u)
    BY <2>4 DEF Fresh, StillFresh, Tasks
  <2>6. \A v \in Workers : /\ Range(queues'[v]) \subseteq Range(queues[v])
                           /\ t \notin Range(queues'[v]) /\ t \notin Range(stolen[v])
                           /\ IsInjective(queues'[v])
    BY <2>2, <2>3, <1>1 DEF OneHand
  <2>7. \A c \in Clients : client[c].task # t
    BY <2>2, <1>1 DEF OneHand
  <2>8. HandsHoldFresh'
    BY <2>3, <2>5, <2>6, <2>7, <1>1, HoldFresh DEF HandsHoldFresh
  <2>9. OneHand'
    BY ZenonT(30), <2>3, <2>6, <1>1 DEF OneHand
  <2>10. RestStarted'
    BY <2>2, <2>3, <2>4, <1>1, RestKept
  <2> QED BY <2>8, <2>9, <2>10 DEF MovesInv
<1>TakeLocal. CASE TakeLocal(w)
  BY <1>TakeLocal, <1>1, LocalRuns DEF TakeLocal
<1>Steal. CASE Steal(w)
  <2> DEFINE v == Victim(w)
             q == queues[v]
             h == Half(Len(q))
             front == SubSeq(q, 1, h)
             back == SubSeq(q, h + 1, Len(q))
  <2>1. v \in Workers /\ q \in Seq(Tasks) /\ IsInjective(q)
    BY <1>1, <1>2, VictimIsWorker DEF OneHand
  <2>2. h \in 0..Len(q)
    <3>1. Len(q) \in Nat
      BY <2>1
    <3> QED BY <3>1, HalfBounds
  <2>3. /\ Range(front) \subseteq Range(q) /\ Range(back) \subseteq Range(q)
        /\ IsInjective(front) /\ IsInjective(back)
        /\ Range(front) \cap Range(back) = {}
    BY <2>1, <2>2, RangeCut
  <2>4. /\ UNCHANGED <<tasks, state, client, local, chain>>
        /\ stolen' = [stolen EXCEPT ![w] = front]
        /\ queues' = [queues EXCEPT ![v] = back]
    BY <1>Steal DEF Steal
  <2>5. v \in Workers /\ Range(front) \subseteq Range(q) /\ Range(back) \subseteq Range(q)
    BY <2>1, <2>3
  <2>6. /\ stolen'[w] = front /\ queues'[v] = back /\ q = queues[v]
        /\ \A u \in Workers : u # w => stolen'[u] = stolen[u]
        /\ \A u \in Workers : u # v => queues'[u] = queues[u]
    BY <2>4, <2>5, <1>2 DEF q
  <2>7. IsInjective(front) /\ IsInjective(back) /\ Range(front) \cap Range(back) = {}
    BY <2>3
  <2> HIDE DEF v, q, h, front, back
  <2>8. \A u : Fresh(u) => StillFresh(u)
    BY <2>4 DEF Fresh, StillFresh
  <2>9. \A u \in Workers : /\ Range(queues'[u]) \subseteq Range(queues[u])
                           /\ Range(stolen'[u]) \subseteq Range(stolen[u]) \cup Range(q)
    BY <2>5, <2>6
  <2>10. HandsHoldFresh'
    BY <2>4, <2>5, <2>6, <2>8, <2>9, <1>1, HoldFresh DEF HandsHoldFresh
  <2>11. OneHand'
    <3>1. \A u \in Workers : IsInjective(queues'[u]) /\ IsInjective(stolen'[u])
      BY <2>6, <2>7, <1>1 DEF OneHand
    <3>2. \A u \in Workers : u # w => Range(stolen'[u]) \cap Range(q) = {}
      BY <2>5, <2>6, <1>1 DEF OneHand
    <3>3. \A u \in Workers : u # v => Range(queues'[u]) \cap Range(q) = {}
      BY <2>5, <2>6, <1>1 DEF OneHand
    <3>4. \A u, x \in Workers : Range(queues'[u]) \cap Range(stolen'[x]) = {}
      <4> SUFFICES ASSUME NEW u \in Workers, NEW x \in Workers
                   PROVE  Range(queues'[u]) \cap Range(stolen'[x]) = {}
        OBVIOUS
      <4>1. CASE x # w
        BY <4>1, <2>6, <2>9, <1>1 DEF OneHand
      <4>2. CASE x = w /\ u = v
        BY <4>2, <2>6, <2>7
      <4>3. CASE x = w /\ u # v
        BY <4>3, <3>3, <2>5, <2>6
      <4> QED BY <4>1, <4>2, <4>3
    <3>5. \A u, x \in Workers : u # x =>
            /\ Range(queues'[u]) \cap Range(queues'[x]) = {}
            /\ Range(stolen'[u]) \cap Range(stolen'[x]) = {}
      <4> SUFFICES ASSUME NEW u \in Workers, NEW x \in Workers, u # x
                   PROVE  /\ Range(queues'[u]) \cap Range(queues'[x]) = {}
                          /\ Range(stolen'[u]) \cap Range(stolen'[x]) = {}
        OBVIOUS
      <4>1. Range(queues'[u]) \cap Range(queues'[x]) = {}
        BY <2>9, <1>1 DEF OneHand
      <4>2. Range(stolen'[w]) \subseteq Range(q)
        BY <2>5, <2>6
      <4>3. Range(stolen[u]) \cap Range(stolen[x]) = {}
        BY <1>1 DEF OneHand
      <4>4. Range(stolen'[u]) \cap Range(stolen'[x]) = {}
        <5>1. CASE u = w
          BY <5>1, <4>2, <3>2
        <5>2. CASE x = w
          BY <5>2, <4>2, <3>2
        <5>3. CASE u # w /\ x # w
          BY <5>3, <4>3, <2>6
        <5> QED BY <5>1, <5>2, <5>3
      <4> QED BY <4>1, <4>4
    <3>6. \A c \in Clients, u \in Workers :
            client[c].task \notin Range(queues'[u]) \cup Range(stolen'[u])
      BY <2>5, <2>6, <2>9, <1>1 DEF OneHand
    <3> QED BY <3>1, <3>4, <3>5, <3>6, <2>4, <1>1 DEF OneHand
  <2>12. RestStarted'
    BY <2>4, <1>4
  <2> QED BY <2>10, <2>11, <2>12 DEF MovesInv
<1>Stash. CASE Stash(w)
  <2>1. /\ UNCHANGED <<tasks, state, client, local, chain>>
        /\ queues'[w] = queues[w] \o stolen[w] /\ stolen'[w] = <<>>
        /\ \A u \in Workers : u # w => queues'[u] = queues[u] /\ stolen'[u] = stolen[u]
    BY <1>Stash, <1>2 DEF Stash
  <2>2. Range(queues'[w]) = Range(queues[w]) \cup Range(stolen[w])
    BY <2>1, <1>2, RangeConcat
  <2>3. IsInjective(queues'[w])
    BY <2>1, <1>1, <1>2, InjectiveConcat DEF OneHand
  <2>4. Range(stolen'[w]) = {} /\ IsInjective(stolen'[w])
    BY <2>1 DEF Range, IsInjective
  <2>5. \A u : Fresh(u) => StillFresh(u)
    BY <2>1 DEF Fresh, StillFresh
  <2>6. HandsHoldFresh'
    <3>1. \A u \in Workers : \A t \in Range(queues'[u]) \cup Range(stolen'[u]) : StillFresh(t)
      BY <2>1, <2>2, <2>4, <2>5, <1>1 DEF HandsHoldFresh
    <3>2. \A c \in Clients : client'[c].task # None => StillFresh(client'[c].task)
      BY <2>1, <2>5, <1>1 DEF HandsHoldFresh
    <3> QED BY <3>1, <3>2, HoldFresh
  <2>7. OneHand'
    <3>1. \A u, x \in Workers : Range(queues'[u]) \cap Range(stolen'[x]) = {}
      BY ZenonT(30), <2>1, <2>2, <2>4, <1>1 DEF OneHand
    <3>2. \A u, x \in Workers : u # x =>
            /\ Range(queues'[u]) \cap Range(queues'[x]) = {}
            /\ Range(stolen'[u]) \cap Range(stolen'[x]) = {}
      <4> SUFFICES ASSUME NEW u \in Workers, NEW x \in Workers, u # x
                   PROVE  /\ Range(queues'[u]) \cap Range(queues'[x]) = {}
                          /\ Range(stolen'[u]) \cap Range(stolen'[x]) = {}
        OBVIOUS
      <4>1. /\ Range(queues[u]) \cap Range(queues[x]) = {}
            /\ Range(stolen[u]) \cap Range(stolen[x]) = {}
            /\ Range(queues[u]) \cap Range(stolen[w]) = {}
            /\ Range(queues[x]) \cap Range(stolen[w]) = {}
        BY <1>1 DEF OneHand
      <4>2. CASE u = w
        BY <4>1, <4>2, <2>1, <2>2, <2>4
      <4>3. CASE x = w
        BY <4>1, <4>3, <2>1, <2>2, <2>4
      <4>4. CASE u # w /\ x # w
        BY <4>1, <4>4, <2>1
      <4> QED BY <4>2, <4>3, <4>4
    <3>3. \A c \in Clients, u \in Workers :
            client[c].task \notin Range(queues'[u]) \cup Range(stolen'[u])
      BY <2>1, <2>2, <2>4, <1>1 DEF OneHand
    <3> QED BY <3>1, <3>2, <3>3, <2>1, <2>3, <2>4, <1>1 DEF OneHand
  <2>8. RestStarted'
    BY <2>1, <1>4
  <2> QED BY <2>6, <2>7, <2>8 DEF MovesInv
<1>Match. CASE Match(w)
  <2>1. /\ Top(w) \in Tasks /\ Top(w) \in Range(chain[w]) /\ at[Top(w)] # New
        /\ Range(Below(w)) \subseteq Range(chain[w])
    BY <1>Match, <1>1, TopInChain DEF Match, WorkerAt, InRunOne, RestStarted
  <2>2. /\ UNCHANGED <<tasks, client, queues, stolen>>
        /\ \A u \in Tasks : u # Top(w) => state'[u] = state[u]
        /\ state'[Top(w)] = "unborn" => state[Top(w)] = "unborn"
    BY <1>Match, <2>1, <1>2 DEF Match
  <2>3. \A v \in Workers : Range(chain'[v]) \subseteq Range(chain[v])
    BY <1>Match, <2>1, <1>2 DEF Match
  <2>4. \A v \in Workers : Range(local'[v]) \subseteq Range(local[v]) \cup {Top(w)}
    <3>1. Range(Append(local[w], Top(w))) = Range(local[w]) \cup {Top(w)}
      BY <2>1, <1>2, RangeAppend
    <3> QED BY <3>1, <1>Match, <1>2 DEF Match
  <2>5. RestStarted'
    BY <2>1, <2>2, <2>3, <2>4, <1>1, RestKept
  <2>6. HandsHoldFresh' /\ OneHand'
    BY <2>1, <2>2, <1>1, HandsKept DEF Fresh
  <2> QED BY <2>5, <2>6 DEF MovesInv
<1>Reap. CASE Reap(w)
  <2>1. Top(w) \in Tasks /\ Top(w) \in Range(chain[w]) /\ at[Top(w)] # New
    BY <1>Reap, <1>1, TopInChain DEF Reap, WorkerAt, InRunOne, RestStarted
  <2>2. /\ UNCHANGED <<tasks, client, queues, stolen, local>>
        /\ \A u \in Tasks : u # Top(w) => state'[u] = state[u]
        /\ state'[Top(w)] = "unborn" => state[Top(w)] = "unborn"
    BY <1>Reap, <2>1, <1>2 DEF Reap
  <2>3. \A v \in Workers : Range(chain'[v]) \subseteq Range(chain[v])
    <3>1. Range(<<>>) = {}
      BY DEF Range
    <3> QED BY <3>1, <1>Reap, <1>2 DEF Reap
  <2>4. RestStarted'
    BY <2>2, <2>3, <1>1, RestKept
  <2>5. HandsHoldFresh' /\ OneHand'
    BY <2>1, <2>2, <1>1, HandsKept DEF Fresh
  <2> QED BY <2>4, <2>5 DEF MovesInv
<1> QED BY <1>5, <1>TakeOwn, <1>TakeLocal, <1>Steal, <1>Stash, <1>Match, <1>Reap
        DEF LoopStep

\* What a task does.
LEMMA TaskMoves ==
  ASSUME IInv, NEW w \in Workers, TaskStep(w)
  PROVE  MovesInv'
<1> USE DEF workers, tasks, PoolUnchanged, Stays, SwitchOut
<1> DEFINE t == Top(w)
<1>1. /\ TypeOK /\ TasksTyped /\ InRunOne
      /\ HandsHoldFresh /\ OneHand /\ RestStarted
  BY DEF IInv, AwakeInv
<1>2. /\ local \in [Workers -> Seq(Tasks)] /\ state \in [Tasks -> States]
      /\ at \in [Tasks -> Steps] /\ waiters \in [Tasks -> Seq(Tasks)]
      /\ listeners \in Seq(Tasks)
  BY <1>1 DEF TypeOK, TasksTyped, States, Steps
<1>3. WorkerAt(w, "run")
  BY DEF TaskStep, Yield, Die, Spawn, Await, Consume, Drain, DrainDispatch,
         DrainReturns, Listen, MarkBlocked, Leave, Wake, Does, Runs
<1>4. t \in Tasks /\ t \in Range(chain[w]) /\ at[t] # New
  BY <1>1, <1>3, TopInChain DEF WorkerAt, InRunOne, RestStarted
<1>5. state[t] # "unborn"
  BY <1>4, <1>1 DEF RestStarted
<1>6. ASSUME NEW u, Started(u), Fresh(u) PROVE FALSE
  BY <1>6, FreshNotStarted DEF Fresh, Tasks
<1>7. ASSUME NEW ts \in Seq(Tasks), Enqueued(w, ts)
      PROVE  \A v \in Workers : Range(local'[v]) \subseteq Range(local[v]) \cup Range(ts)
  <2>1. Range(local[w] \o ts) = Range(local[w]) \cup Range(ts)
    BY <1>2, RangeConcat
  <2> QED BY <2>1, <1>2, <1>7 DEF Enqueued
<1>8. ASSUME NEW place \in {"code", "awaited", "drain", "listed", "blocked"},
             NEW arg, Goes(t, place, arg)
      PROVE  /\ \A u \in Tasks : u # t => at'[u] = at[u]
             /\ at'[t] = <<place, arg>> /\ at'[t] # New
  BY <1>2, <1>4, <1>8 DEF Goes, New
<1> DEFINE St == {u \in Tasks : Started(u)}
<1>9. ASSUME UNCHANGED <<queues, stolen, client, chain>>,
             \A v \in Workers : Range(local'[v]) \subseteq Range(local[v]) \cup St,
             Range(listeners') \subseteq Range(listeners) \cup St,
             \A u \in Tasks : Range(waiters'[u]) \subseteq Range(waiters[u]) \cup St,
             \A u \in Tasks : u # t => at'[u] = at[u],
             \/ at'[t] = at[t]
             \/ /\ at'[t] # New
                /\ at'[t][1] = "awaited" => at'[t][2] \in Children,
             \A u \in Tasks : \/ state'[u] = state[u]
                              \/ u \in St /\ state'[u] # "unborn"
      PROVE  MovesInv'
  <2>1. \A u \in Tasks : at[u] # New => at'[u] # New
    BY <1>4, <1>9
  <2>2. \A u \in St : u \in Children \/ at'[u] # New
    BY <2>1 DEF Started
  <2>3. \A u \in Tasks : \/ at'[u] = at[u]
                         \/ /\ at'[u] # New /\ state'[u] # "unborn"
                            /\ at'[u][1] = "awaited" => at'[u][2] \in Children
    BY <1>4, <1>5, <1>9
  <2>4. \A v \in Workers : \A u \in Range(local'[v]) :
          u \in Range(local[v]) \/ u \in Children \/ at'[u] # New
    BY <1>9, <2>2
  <2>5. \A u \in Range(listeners') :
          u \in Range(listeners) \/ u \in Children \/ at'[u] # New
    BY <1>9, <2>2
  <2>6. \A u \in Tasks : \A x \in Range(waiters'[u]) :
          x \in Range(waiters[u]) \/ x \in Children \/ at'[x] # New
    BY <1>9, <2>2
  <2>7. \A u \in Tasks : state'[u] = "unborn" => state[u] = "unborn"
    BY <1>9
  <2>8. RestStarted'
    BY <1>1, <1>9, <2>3, <2>4, <2>5, <2>6, <2>7, RestKept
  <2>9. ASSUME NEW u \in Tasks, Fresh(u) PROVE at'[u] = New /\ state'[u] = "Ready"
    <3>1. u \notin St /\ at[u] = New /\ state[u] = "Ready"
      BY <1>6, <2>9 DEF Fresh
    <3> QED BY <3>1, <1>4, <1>9
  <2>10. HandsHoldFresh' /\ OneHand'
    BY <1>1, <1>9, <2>9, HandsKept
  <2> QED BY <2>8, <2>10 DEF MovesInv
<1>10. t \in St
  BY <1>4 DEF Started
<1>11. \A u \in Children : u \in St
  BY DEF Started, Tasks
<1>12. \A u \in Range(listeners) : u \in St
  BY <1>1, <1>2, RangeOfSeq DEF RestStarted
<1>13. \A u \in Tasks : \A x \in Range(waiters[u]) : x \in St
  BY <1>1, <1>2, RangeOfSeq DEF RestStarted
<1> HIDE DEF St, t
<1> USE DEF t
<1>14. CASE Yield(w) \/ Leave(w)
  BY <1>14, <1>9 DEF Yield, Leave
<1>Die. CASE Die(w)
  <2>1. waiters[t] \in Seq(Tasks)
    BY <1>2, <1>4
  <2>2. \A v \in Workers : Range(local'[v]) \subseteq Range(local[v]) \cup St
    BY <1>Die, <2>1, <1>4, <1>7, <1>13 DEF Die
  <2>3. \A u \in Tasks : Range(waiters'[u]) \subseteq Range(waiters[u])
    <3>1. Range(<<>>) = {}
      BY DEF Range
    <3> QED BY <3>1, <1>Die, <1>2 DEF Die
  <2>4. \A u \in Tasks : \/ state'[u] = state[u]
                         \/ u \in St /\ state'[u] # "unborn"
    BY <1>Die, <1>4, <1>10, <1>13 DEF Die
  <2> QED BY <1>Die, <1>9, <2>2, <2>3, <2>4 DEF Die
<1>Spawn. CASE Spawn(w)
  <2>1. PICK u \in Children : /\ state' = [state EXCEPT ![u] = "Ready"]
                             /\ Enqueued(w, <<u>>)
    BY <1>Spawn DEF Spawn
  <2>2. <<u>> \in Seq(Tasks) /\ Range(<<u>>) = {u}
    BY DEF Tasks, Range
  <2>3. \A v \in Workers : Range(local'[v]) \subseteq Range(local[v]) \cup St
    BY <2>1, <2>2, <1>7, <1>11
  <2>4. \A x \in Tasks : \/ state'[x] = state[x]
                         \/ x \in St /\ state'[x] # "unborn"
    BY <2>1, <1>2, <1>11
  <2> QED BY <1>Spawn, <1>9, <2>3, <2>4 DEF Spawn
<1>Await. CASE Await(w)
  <2>1. PICK u \in Children :
          /\ Goes(t, "awaited", u)
          /\ \/ UNCHANGED <<state, waiters>>
             \/ /\ waiters' = [waiters EXCEPT ![u] = Append(@, t)]
                /\ state' = [state EXCEPT ![t] = "Blocked"]
    BY <1>Await DEF Await
  <2>2. /\ \A x \in Tasks : x # t => at'[x] = at[x]
        /\ at'[t] # New /\ at'[t][2] \in Children
    BY <2>1, <1>8
  <2>3. u \in Tasks /\ Range(Append(waiters[u], t)) = Range(waiters[u]) \cup {t}
    <3>1. u \in Tasks
      BY DEF Tasks
    <3>2. waiters[u] \in Seq(Tasks)
      BY <3>1, <1>2
    <3> QED BY <3>1, <3>2, <1>4, RangeAppend
  <2>4. \A x \in Tasks : Range(waiters'[x]) \subseteq Range(waiters[x]) \cup St
    BY <2>1, <2>3, <1>2, <1>10
  <2>5. \A x \in Tasks : \/ state'[x] = state[x]
                         \/ x \in St /\ state'[x] # "unborn"
    BY <2>1, <1>2, <1>10
  <2>6. UNCHANGED <<queues, stolen, client, chain, local, listeners>>
    BY <1>Await DEF Await
  <2> QED BY <1>9, <2>2, <2>4, <2>5, <2>6
<1>Consume. CASE Consume(w)
  <2> DEFINE u == at[t][2]
  <2>1. u \in Children
    BY <1>Consume, <1>1, <1>4 DEF Consume, Runs, RestStarted
  <2>2. \A x \in Tasks : \/ state'[x] = state[x]
                         \/ x \in St /\ state'[x] # "unborn"
    BY <1>Consume, <2>1, <1>2, <1>11 DEF Consume
  <2>3. Goes(t, "code", None)
    BY <1>Consume DEF Consume
  <2> HIDE DEF u
  <2>4. /\ \A x \in Tasks : x # t => at'[x] = at[x]
        /\ at'[t] # New /\ at'[t][1] # "awaited"
    BY <2>3, <1>8
  <2>5. UNCHANGED <<queues, stolen, client, chain, local, listeners, waiters>>
    BY <1>Consume DEF Consume
  <2> QED BY <1>9, <2>2, <2>4, <2>5
<1>15. CASE Drain(w) \/ DrainReturns(w)
  <2>1. Goes(t, "drain", None) \/ Goes(t, "code", None)
    BY <1>15 DEF Drain, DrainReturns
  <2>2. /\ \A x \in Tasks : x # t => at'[x] = at[x]
        /\ at'[t] # New /\ at'[t][1] # "awaited"
    BY <2>1, <1>8
  <2> QED BY <1>15, <1>9, <2>2 DEF Drain, DrainReturns
<1>DrainDispatch. CASE DrainDispatch(w)
  BY <1>DrainDispatch, <1>1, LocalRuns DEF DrainDispatch
<1>Listen. CASE Listen(w)
  <2>1. /\ \A x \in Tasks : x # t => at'[x] = at[x]
        /\ at'[t] = <<"listed", None>> /\ at'[t] # New
    BY <1>Listen, <1>8 DEF Listen
  <2>2. Range(listeners') = Range(listeners) \cup {t}
    BY <1>Listen, <1>2, <1>4, RangeAppend DEF Listen
  <2> QED BY <1>Listen, <1>9, <1>10, <2>1, <2>2 DEF Listen
<1>MarkBlocked. CASE MarkBlocked(w)
  <2>1. /\ \A x \in Tasks : x # t => at'[x] = at[x]
        /\ at'[t] = <<"blocked", None>> /\ at'[t] # New
    BY <1>MarkBlocked, <1>8 DEF MarkBlocked
  <2>2. \A x \in Tasks : \/ state'[x] = state[x]
                         \/ x \in St /\ state'[x] # "unborn"
    BY <1>MarkBlocked, <1>2, <1>10 DEF MarkBlocked
  <2> QED BY <1>MarkBlocked, <1>9, <2>1, <2>2 DEF MarkBlocked
<1>Wake. CASE Wake(w)
  <2> DEFINE u == Head(listeners)
  <2>1. /\ u \in Range(listeners) /\ u \in Tasks
        /\ Range(Tail(listeners)) \subseteq Range(listeners)
    <3>1. listeners # <<>>
      BY <1>Wake DEF Wake
    <3> QED BY <3>1, <1>2, RangeTail
  <2>2. <<u>> \in Seq(Tasks) /\ Range(<<u>>) = {u}
    BY <2>1 DEF Range
  <2>3. /\ Enqueued(w, <<u>>) /\ state' = [state EXCEPT ![u] = "Ready"]
        /\ listeners' = Tail(listeners)
    BY <1>Wake DEF Wake
  <2> HIDE DEF u
  <2>4. \A v \in Workers : Range(local'[v]) \subseteq Range(local[v]) \cup St
    BY <2>1, <2>2, <2>3, <1>7, <1>12
  <2>5. \A x \in Tasks : \/ state'[x] = state[x]
                         \/ x \in St /\ state'[x] # "unborn"
    BY <2>1, <2>3, <1>2, <1>12
  <2> QED BY <1>Wake, <1>9, <2>1, <2>3, <2>4, <2>5 DEF Wake
<1> QED BY <1>14, <1>Die, <1>Spawn, <1>Await, <1>Consume, <1>15, <1>DrainDispatch,
           <1>Listen, <1>MarkBlocked, <1>Wake
        DEF TaskStep

----------------------------------------------------------------------------
(* Theorems.                                                               *)

\* IInv is inductive: Init establishes it and every step preserves it.
THEOREM Invariance == Spec => []IInv
<1>1. Init => IInv
  BY InitAwake, InitMoves DEF IInv, MovesInv
<1>2. IInv /\ [Next]_vars => IInv'
  <2> SUFFICES ASSUME IInv, [Next]_vars PROVE IInv'
    OBVIOUS
  <2>1. CASE UNCHANGED vars
    <3>1. AwakeInv'
      BY <2>1 DEF vars, workers, tasks, IInv, AwakeInv, TypeOK, TasksTyped,
                  CarriesTask, InRunOne, VictimLeft, SleepersOwedWake, ClientAt
    <3>2. MovesInv'
      BY <2>1 DEF vars, workers, tasks, IInv, MovesInv, HandsHoldFresh, OneHand,
                  RestStarted, Fresh, Started, New
    <3> QED BY <3>1, <3>2 DEF IInv, MovesInv
  <2>2. CASE Next
    <3>1. AwakeInv
      BY DEF IInv
    <3>2. AwakeInv'
      BY <2>2, <3>1, ClientSteps, LoopSteps, TaskSteps DEF Next
    <3>3. MovesInv'
      BY <2>2, ClientMoves, LoopMoves, TaskMoves DEF Next
    <3> QED BY <3>2, <3>3 DEF IInv, MovesInv
  <2> QED BY <2>1, <2>2
<1> QED BY <1>1, <1>2, PTL DEF Spec

\* Every variable of the pool keeps its type, whatever the workers, clients
\* and tasks do (pool.rs).
THEOREM TypeCorrect == Spec => []TypeOK
<1>1. IInv => TypeOK
  BY DEF IInv, AwakeInv
<1> QED BY <1>1, Invariance, PTL

\* No worker that may be asleep has a task in its queue for which nobody has
\* woken it or is about to (enqueue, worker_main).
THEOREM NoWorkOverslept == Spec => []SleepersOwedWake
<1>1. IInv => SleepersOwedWake
  BY DEF IInv, AwakeInv
<1> QED BY <1>1, Invariance, PTL

\* A thief relocates tasks that never ran, and nothing else (pool.rs:20).
THEOREM StealsAreNew == Spec => []OnlyNewWorkMoves
<1>1. IInv => OnlyNewWorkMoves
  BY DEF IInv, HandsHoldFresh, Fresh, OnlyNewWorkMoves
<1> QED BY <1>1, Invariance, PTL

----------------------------------------------------------------------------
(* What is invariant besides IInv, whatever the tasks do.                  *)

\* A worker has a stack only inside run_one, and returns from run_one with
\* one task on it; a task that runs is on a stack.
StacksRun ==
  /\ \A w \in Workers : chain[w] # <<>> => pc[w] \in {"run", "match", "ran"}
  /\ \A w \in Workers : pc[w] = "ran" => Len(chain[w]) = 1
  /\ \A t \in Tasks : state[t] = "Running" =>
       \E w \in Workers : t \in Range(chain[w]) /\ pc[w] # "ran"

\* A task that was submitted and never ran is in a hand.
InHand(t) ==
  \/ \E w \in Workers : t \in Range(queues[w]) \cup Range(stolen[w])
  \/ \E c \in Clients : client[c].task = t
FreshHeld == \A t \in PoolTasks : Fresh(t) => InHand(t)

\* The owner shuts down alone, and when it has, no worker is left and nothing
\* is in a queue; hands are empty but on the way from one queue to another.
OwnerLast ==
  /\ \A w \in Workers : stolen[w] # <<>> => pc[w] = "stash"
  /\ \A c \in Clients : client[c].task # None => client[c].at \in {"scan", "push"}
  /\ \A c \in Clients : c # Owner =>
       client[c].at \in {"idle", "scan", "push", "unpark", "waiting"}
  /\ ~Open => \A c \in Clients : c # Owner => client[c].at = "idle"
  /\ client[Owner].at = "gone" =>
       \A w \in Workers : pc[w] = "gone" /\ queues[w] = <<>>

ReclaimInv == StacksRun /\ FreshHeld /\ OwnerLast

\* The types that IInv gives.
LEMMA Types ==
  ASSUME IInv
  PROVE  /\ queues \in [Workers -> Seq(Tasks)] /\ stolen \in [Workers -> Seq(Tasks)]
         /\ local \in [Workers -> Seq(Tasks)] /\ chain \in [Workers -> Seq(Tasks)]
         /\ pc \in [Workers -> Places] /\ client \in [Clients -> Calls]
         /\ state \in [Tasks -> States] /\ at \in [Tasks -> Steps]
         /\ waiters \in [Tasks -> Seq(Tasks)] /\ listeners \in Seq(Tasks)
         /\ parent \in [Tasks -> Tasks \cup {None}] /\ pending \in 0..UsizeMax
BY DEF IInv, AwakeInv, TypeOK, TasksTyped, Places, Calls, States, Steps

\* A step that leaves every stack as it is.
LEMMA StacksKept ==
  ASSUME StacksRun, UNCHANGED chain,
         \A w \in Workers : \/ pc'[w] = pc[w]
                            \/ pc'[w] \in {"run", "match"}
                            \/ chain[w] = <<>> /\ pc'[w] # "ran",
         \A t \in Tasks : state'[t] = "Running" => state[t] = "Running"
  PROVE  StacksRun'
<1>1. Range(<<>>) = {}
  BY DEF Range
<1> QED BY <1>1 DEF StacksRun

\* A step after which a task is in a hand if it is new and was in one.
LEMMA FreshKept ==
  ASSUME FreshHeld,
         \A t \in PoolTasks : StillFresh(t) => Fresh(t),
         \A t \in PoolTasks : StillFresh(t) /\ InHand(t) => InHand(t)'
  PROVE  FreshHeld'
BY DEF FreshHeld, Fresh, StillFresh, New

\* The two parts of a list hold what the list does.
LEMMA RangeHalves ==
  ASSUME NEW S, NEW s \in Seq(S), NEW h \in 0..Len(s)
  PROVE  Range(s) = Range(SubSeq(s, 1, h)) \cup Range(SubSeq(s, h + 1, Len(s)))
<1> DEFINE a == SubSeq(s, 1, h)
           b == SubSeq(s, h + 1, Len(s))
<1>1. Len(s) \in Nat /\ DOMAIN s = 1..Len(s)
  BY LenProperties
<1>2. a \in Seq(S) /\ Range(a) \subseteq Range(s) /\ b \in Seq(S) /\ Range(b) \subseteq Range(s)
  BY RangeCut
<1>3. DOMAIN a = 1..h /\ \A i \in 1..h : a[i] = s[i]
  BY <1>1
<1>4. DOMAIN b = 1..(Len(s) - h) /\ \A i \in 1..(Len(s) - h) : b[i] = s[h + i]
  BY <1>1
<1> HIDE DEF a, b
<1>5. ASSUME NEW x \in Range(s) PROVE x \in Range(a) \cup Range(b)
  <2>1. PICK i \in 1..Len(s) : x = s[i]
    BY <1>1 DEF Range
  <2>2. CASE i <= h
    <3>1. i \in 1..h
      BY <2>2, <1>1
    <3> QED BY <3>1, <2>1, <1>3 DEF Range
  <2>3. CASE ~(i <= h)
    <3>1. i - h \in 1..(Len(s) - h) /\ h + (i - h) = i
      BY <2>3, <1>1
    <3> QED BY <3>1, <2>1, <1>4 DEF Range
  <2> QED BY <2>2, <2>3
<1> QED BY <1>2, <1>5 DEF a, b

\* A worker that is not inside run_one has no stack.
LEMMA NoStack ==
  ASSUME StacksRun, NEW w \in Workers, pc[w] \notin {"run", "match", "ran"}
  PROVE  chain[w] = <<>>
BY DEF StacksRun

----------------------------------------------------------------------------
(* Clients keep it.                                                        *)

LEMMA ClientReclaims ==
  ASSUME IInv, ReclaimInv, NEW c \in Clients, CallStep(c) \/ ClientStep(c)
  PROVE  ReclaimInv'
<1> USE DEF workers, tasks
<1>1. /\ StacksRun /\ FreshHeld /\ OwnerLast
      /\ CarriesTask /\ HandsHoldFresh /\ RestStarted
  BY DEF ReclaimInv, IInv, AwakeInv
<1>2. /\ queues \in [Workers -> Seq(Tasks)] /\ stolen \in [Workers -> Seq(Tasks)]
      /\ client \in [Clients -> Calls] /\ state \in [Tasks -> States]
      /\ Owner \in Clients
  BY Types, ClientsAssumption
<1>3. UNCHANGED <<chain, pc, at, stolen>>
  BY DEF CallStep, ClientStep, Submit, Scan, Push, Unpark, CallWait, WaitReturns,
         Shutdown, WakeAll, Join
<1>4. ASSUME \A t \in Tasks : state'[t] = "Running" => state[t] = "Running"
      PROVE  StacksRun'
  BY <1>1, <1>3, <1>4, StacksKept
<1>5. CASE Submit(c)
  <2>1. PICK t \in PoolTasks :
          /\ state[t] = "unborn"
          /\ state' = [state EXCEPT ![t] = "Ready"]
          /\ client' = [client EXCEPT ![c] = [Idle EXCEPT !.at = "scan",
                                                         !.task = t]]
    BY <1>5 DEF Submit
  <2>2. /\ client'[c].task = t /\ client'[c].at = "scan"
        /\ \A d \in Clients : d # c => client'[d] = client[d]
    BY <2>1, <1>2 DEF Idle
  <2>3. client[c].at = "idle" /\ Open /\ UNCHANGED queues
    BY <1>5 DEF Submit, ClientAt
  <2>4. StacksRun'
    BY <2>1, <1>2, <1>4
  <2>5. FreshHeld'
    <3>1. ASSUME NEW u \in PoolTasks, Fresh(u)' PROVE InHand(u)'
      <4>1. CASE u = t
        BY <4>1, <2>2 DEF InHand
      <4>2. CASE u # t
        <5>1. Fresh(u)
          BY <3>1, <4>2, <2>1, <1>2, <1>3 DEF Fresh, New, Tasks
        <5>2. InHand(u)
          BY <5>1, <1>1 DEF FreshHeld
        <5>3. client[c].task # u
          BY <2>3, <1>1, TasksAssumption DEF OwnerLast, Tasks
        <5> QED BY <5>2, <5>3, <2>2, <2>3, <1>3 DEF InHand
      <4> QED BY <4>1, <4>2
    <3> QED BY <3>1 DEF FreshHeld
  <2>6. OwnerLast'
    BY <2>2, <2>3, <1>1, <1>2, <1>3 DEF OwnerLast, Open
  <2> QED BY <2>4, <2>5, <2>6 DEF ReclaimInv
<1>6. CASE Push(c)
  <2> DEFINE t == client[c].task
             b == client[c].best
  <2>1. b \in Workers /\ t \in Tasks /\ queues[b] \in Seq(Tasks)
    BY <1>1, <1>2, <1>6 DEF Calls, Push, CarriesTask, ClientAt, Tasks
  <2>2. /\ client'[c].task = None /\ client'[c].at = "unpark"
        /\ \A d \in Clients : d # c => client'[d] = client[d]
        /\ queues'[b] = Append(queues[b], t)
        /\ \A w \in Workers : w # b => queues'[w] = queues[w]
        /\ client[c].at = "push" /\ UNCHANGED state
    BY <1>2, <1>6, <2>1 DEF Push, ClientAt, Calls
  <2>3. Range(queues'[b]) = Range(queues[b]) \cup {t}
    BY <2>1, <2>2, RangeAppend
  <2> HIDE DEF b
  <2>4. StacksRun'
    BY <2>2, <1>4
  <2>5. FreshHeld'
    <3>1. ASSUME NEW u \in PoolTasks, InHand(u) PROVE InHand(u)'
      <4>1. CASE u = t
        BY <4>1, <2>1, <2>3 DEF InHand
      <4>2. CASE u # t
        BY <3>1, <4>2, <2>2, <2>3, <1>3 DEF InHand
      <4> QED BY <4>1, <4>2
    <3> QED BY <3>1, <2>2, <1>1, <1>3, FreshKept DEF Fresh, StillFresh
  <2>6. OwnerLast'
    BY <2>2, <1>1, <1>2, <1>3 DEF OwnerLast, Open
  <2> QED BY <2>4, <2>5, <2>6 DEF ReclaimInv
<1>7. CASE Join(c)
  <2>1. /\ client' = [client EXCEPT ![c].at = "gone"]
        /\ queues' = [w \in Workers |-> <<>>]
        /\ state' = [t \in Tasks |->
             IF \E w \in Workers : t \in Range(queues[w]) THEN "freed" ELSE state[t]]
        /\ client[c].at = "join" /\ \A w \in Workers : pc[w] = "gone"
    BY <1>7 DEF Join, ClientAt
  <2>2. /\ client'[c].at = "gone" /\ client'[c].task = client[c].task
        /\ \A d \in Clients : d # c => client'[d] = client[d]
    BY <2>1, <1>2 DEF Calls
  <2>3. c = Owner
    BY <2>1, <1>1 DEF OwnerLast
  <2>4. StacksRun'
    BY <2>1, <1>2, <1>4
  <2>5. FreshHeld'
    <3>1. ASSUME NEW u \in PoolTasks, StillFresh(u) PROVE Fresh(u) /\ \A w \in Workers : u \notin Range(queues[w])
      BY <3>1, <2>1, <1>2, <1>3 DEF Fresh, StillFresh, Tasks
    <3>2. ASSUME NEW u \in PoolTasks, StillFresh(u), InHand(u) PROVE InHand(u)'
      <4>1. \A d \in Clients : client'[d].task = client[d].task
        BY <2>2
      <4> QED BY <4>1, <3>1, <3>2, <1>3 DEF InHand
    <3> QED BY <3>1, <3>2, <1>1, FreshKept
  <2>6. OwnerLast'
    BY <2>1, <2>2, <2>3, <1>1, <1>2, <1>3 DEF OwnerLast, Open
  <2> QED BY <2>4, <2>5, <2>6 DEF ReclaimInv
<1>8. CASE \/ Scan(c) \/ Unpark(c) \/ CallWait(c) \/ WaitReturns(c)
           \/ Shutdown(c) \/ WakeAll(c)
  <2>1. UNCHANGED <<queues, state>>
    BY <1>8 DEF Scan, Unpark, CallWait, WaitReturns, Shutdown, WakeAll
  <2>2. /\ client'[c].task \in {client[c].task, None}
        /\ \A d \in Clients : d # c => client'[d] = client[d]
        /\ \/ client[c].at = "scan" /\ client'[c].at \in {"scan", "push"}
              /\ client'[c].task = client[c].task
           \/ client[c].at \in {"unpark", "waiting"} /\ client'[c].at = "idle"
              /\ client'[c].task = None
           \/ client[c].at = "idle" /\ client'[c].at = "waiting" /\ Open
              /\ client'[c].task = client[c].task
           \/ client[c].at = "idle" /\ client'[c].at = "wakeAll" /\ c = Owner
              /\ client'[c].task = client[c].task
              /\ \A d \in Clients : client[d].at = "idle"
           \/ client[c].at = "wakeAll" /\ client'[c].at \in {"wakeAll", "join"}
              /\ client'[c].task = client[c].task
    <3>1. CASE Scan(c)
      BY <3>1, <1>2 DEF Scan, Calls
    <3>2. CASE Unpark(c)
      BY <3>2, <1>2 DEF Unpark, Calls, Idle, ClientAt
    <3>3. CASE CallWait(c)
      BY <3>3, <1>2 DEF CallWait, Calls, ClientAt
    <3>4. CASE WaitReturns(c)
      BY <3>4, <1>2 DEF WaitReturns, Calls, Idle, ClientAt
    <3>5. CASE Shutdown(c)
      BY <3>5, <1>2 DEF Shutdown, Calls, ClientAt
    <3>6. CASE WakeAll(c)
      BY <3>6, <1>2 DEF WakeAll, Calls, ClientAt
    <3> QED BY <3>1, <3>2, <3>3, <3>4, <3>5, <3>6, <1>8
  <2>3. client'[c].task = client[c].task
    BY <2>2, <1>1 DEF OwnerLast
  <2>4. StacksRun'
    BY <2>1, <1>4
  <2>5. FreshHeld'
    <3>1. \A d \in Clients : client'[d].task = client[d].task
      BY <2>2, <2>3
    <3> QED BY <3>1, <2>1, <1>1, <1>3, FreshKept DEF Fresh, StillFresh, InHand
  <2>6. OwnerLast'
    <3>1. /\ \A w \in Workers : stolen'[w] # <<>> => pc'[w] = "stash"
          /\ \A d \in Clients : client'[d].task # None => client'[d].at \in {"scan", "push"}
      BY <2>2, <2>3, <1>1, <1>3 DEF OwnerLast
    <3>2. \A d \in Clients : d # Owner =>
            client'[d].at \in {"idle", "scan", "push", "unpark", "waiting"}
      BY <2>2, <1>1 DEF OwnerLast
    <3>3. client'[Owner].at \in {"wakeAll", "join", "gone"} =>
            \A d \in Clients : d # Owner => client'[d].at = "idle"
      BY <2>2, <1>1, <1>2 DEF OwnerLast, Open
    <3>4. client'[Owner].at = "gone" =>
            \A w \in Workers : pc'[w] = "gone" /\ queues'[w] = <<>>
      BY <2>1, <2>2, <1>1, <1>2, <1>3 DEF OwnerLast
    <3> QED BY <3>1, <3>2, <3>3, <3>4 DEF OwnerLast, Open
  <2> QED BY <2>4, <2>5, <2>6 DEF ReclaimInv
<1> QED BY <1>5, <1>6, <1>7, <1>8 DEF CallStep, ClientStep

----------------------------------------------------------------------------
(* A worker's loop keeps it.                                               *)

\* run_one puts a task on the stack of a worker that is not at "ran".
LEMMA RunOneStacks ==
  ASSUME IInv, StacksRun, NEW w \in Workers, pc[w] # "ran", NEW t \in Tasks,
         RunOne(w, t)
  PROVE  /\ StacksRun'
         /\ \A u \in Tasks : u # t => at'[u] = at[u] /\ state'[u] = state[u]
         /\ at'[t] # New /\ state'[t] = "Running"
         /\ \A v \in Workers : v # w => pc'[v] = pc[v] /\ chain'[v] = chain[v]
         /\ pc'[w] = "run" /\ chain'[w] = Append(chain[w], t)
         /\ Range(chain'[w]) = Range(chain[w]) \cup {t}
<1>1. /\ chain \in [Workers -> Seq(Tasks)] /\ pc \in [Workers -> Places]
      /\ state \in [Tasks -> States] /\ TypeOK /\ TasksTyped /\ RestStarted
  BY Types DEF IInv, AwakeInv
<1>2. /\ \A u \in Tasks : u # t => at'[u] = at[u] /\ state'[u] = state[u]
      /\ at'[t] # New /\ state'[t] = "Running"
  BY <1>1, RunOneMoves
<1>3. /\ \A v \in Workers : v # w => pc'[v] = pc[v] /\ chain'[v] = chain[v]
      /\ pc'[w] = "run" /\ chain'[w] = Append(chain[w], t)
  BY <1>1 DEF RunOne, WorkerTo
<1>4. Range(chain'[w]) = Range(chain[w]) \cup {t}
  BY <1>1, <1>3, RangeAppend
<1>5. ASSUME NEW u \in Tasks, state'[u] = "Running"
      PROVE  \E v \in Workers : u \in Range(chain'[v]) /\ pc'[v] # "ran"
  <2>1. CASE u = t
    BY <2>1, <1>3, <1>4
  <2>2. CASE u # t
    <3>1. PICK v \in Workers : u \in Range(chain[v]) /\ pc[v] # "ran"
      BY <2>2, <1>2, <1>5 DEF StacksRun
    <3>2. u \in Range(chain'[v]) /\ pc'[v] # "ran"
      BY <3>1, <1>3, <1>4
    <3> QED BY <3>2
  <2> QED BY <2>1, <2>2
<1>6. StacksRun'
  BY <1>3, <1>5 DEF StacksRun
<1> QED BY <1>2, <1>3, <1>4, <1>6

LEMMA LoopReclaims ==
  ASSUME IInv, ReclaimInv, NEW w \in Workers, LoopStep(w) \/ TimesOut(w)
  PROVE  ReclaimInv'
<1> USE DEF workers, tasks
<1>1. /\ StacksRun /\ FreshHeld /\ OwnerLast /\ TypeOK /\ InRunOne
      /\ HandsHoldFresh /\ OneHand /\ RestStarted
  BY DEF ReclaimInv, IInv, AwakeInv
<1>2. /\ queues \in [Workers -> Seq(Tasks)] /\ stolen \in [Workers -> Seq(Tasks)]
      /\ local \in [Workers -> Seq(Tasks)] /\ chain \in [Workers -> Seq(Tasks)]
      /\ pc \in [Workers -> Places] /\ state \in [Tasks -> States]
      /\ at \in [Tasks -> Steps]
  BY Types
<1>3. UNCHANGED client
  BY DEF LoopStep, Look, TakeOwn, TakeLocal, NothingOwn, Steal, NothingThere,
         Stash, Unparked, Match, Reap, TimesOut
\* Where it goes, no worker had gone.
<1>4. ASSUME \A v \in Workers : v # w => pc'[v] = pc[v] /\ stolen'[v] = stolen[v],
             stolen'[w] # <<>> => pc'[w] = "stash", pc[w] # "gone",
             \/ UNCHANGED queues
             \/ \E v \in Workers : queues' = [queues EXCEPT ![v] = queues'[v]]
      PROVE  OwnerLast'
  BY <1>1, <1>2, <1>3, <1>4 DEF OwnerLast, Open
<1>5. CASE \/ Look(w) \/ NothingOwn(w) \/ NothingThere(w) \/ Unparked(w)
           \/ TimesOut(w)
  <2>1. UNCHANGED <<tasks, state, queues, stolen, chain>>
    BY <1>5 DEF Look, NothingOwn, NothingThere, Unparked, TimesOut
  <2>2. /\ \A v \in Workers : v # w => pc'[v] = pc[v]
        /\ pc[w] \in {"loop", "own", "steal", "park"}
        /\ pc'[w] \in {"loop", "own", "steal", "park", "gone"}
    BY <1>5, <1>2 DEF Look, NothingOwn, NothingThere, Unparked, TimesOut, Probes,
                     WorkerAt, WorkerTo
  <2>3. chain[w] = <<>>
    BY <2>2, <1>1, NoStack
  <2>4. StacksRun'
    BY <2>1, <2>2, <2>3, <1>1, StacksKept
  <2>5. FreshHeld'
    BY <2>1, <1>1, <1>3, FreshKept DEF Fresh, StillFresh, InHand
  <2>6. stolen'[w] # <<>> => pc'[w] = "stash"
    BY <2>1, <2>2, <1>1 DEF OwnerLast
  <2>7. OwnerLast'
    BY <2>1, <2>2, <2>6, <1>4
  <2> QED BY <2>4, <2>5, <2>7 DEF ReclaimInv
<1>6. CASE TakeOwn(w)
  <2> DEFINE t == Head(queues[w])
  <2>1. queues[w] \in Seq(Tasks) /\ queues[w] # <<>> /\ pc[w] = "own"
    BY <1>6, <1>2 DEF TakeOwn, WorkerAt
  <2>2. /\ t \in Tasks
        /\ Range(queues[w]) = Range(Tail(queues[w])) \cup {t}
    BY <2>1, RangeTail
  <2>3. /\ queues' = [queues EXCEPT ![w] = Tail(queues[w])] /\ UNCHANGED stolen
        /\ queues'[w] = Tail(queues[w])
        /\ \A v \in Workers : v # w => queues'[v] = queues[v]
        /\ RunOne(w, t)
    BY <1>6, <1>2 DEF TakeOwn
  <2> HIDE DEF t
  <2>4. /\ StacksRun' /\ at'[t] # New /\ pc'[w] = "run"
        /\ \A u \in Tasks : u # t => at'[u] = at[u] /\ state'[u] = state[u]
        /\ \A v \in Workers : v # w => pc'[v] = pc[v]
    BY <2>1, <2>2, <2>3, <1>1, RunOneStacks
  <2>5. FreshHeld'
    <3>1. ASSUME NEW u \in PoolTasks, StillFresh(u) PROVE u # t /\ Fresh(u)
      BY <3>1, <2>4 DEF Fresh, StillFresh, Tasks
    <3>2. ASSUME NEW u \in PoolTasks, u # t, InHand(u) PROVE InHand(u)'
      <4>1. \A v \in Workers : u \in Range(queues[v]) => u \in Range(queues'[v])
        BY <3>2, <2>2, <2>3
      <4> QED BY <3>2, <4>1, <2>3, <1>3 DEF InHand
    <3> QED BY <3>1, <3>2, <1>1, FreshKept
  <2>6. stolen'[w] = <<>>
    BY <2>1, <2>3, <1>1 DEF OwnerLast
  <2>7. OwnerLast'
    BY <2>1, <2>3, <2>4, <2>6, <1>4
  <2> QED BY <2>4, <2>5, <2>7 DEF ReclaimInv
<1>7. CASE TakeLocal(w)
  <2> DEFINE t == Head(local[w])
  <2>1. t \in Tasks /\ pc[w] = "own" /\ RunOne(w, t) /\ UNCHANGED <<queues, stolen>>
    BY <1>7, <1>2, HeadAndTail DEF TakeLocal, WorkerAt
  <2> HIDE DEF t
  <2>2. /\ StacksRun' /\ at'[t] # New /\ pc'[w] = "run"
        /\ \A u \in Tasks : u # t => at'[u] = at[u] /\ state'[u] = state[u]
        /\ \A v \in Workers : v # w => pc'[v] = pc[v]
    BY <2>1, <1>1, RunOneStacks
  <2>3. FreshHeld'
    BY <2>1, <2>2, <1>1, <1>3, FreshKept DEF Fresh, StillFresh, InHand, Tasks
  <2>4. stolen'[w] = <<>>
    BY <2>1, <1>1 DEF OwnerLast
  <2>5. OwnerLast'
    BY <2>1, <2>2, <2>4, <1>4
  <2> QED BY <2>2, <2>3, <2>5 DEF ReclaimInv
<1>8. CASE Steal(w)
  <2> DEFINE v == Victim(w)
             q == queues[v]
             h == Half(Len(q))
             front == SubSeq(q, 1, h)
             back == SubSeq(q, h + 1, Len(q))
  <2>1. v \in Workers /\ q \in Seq(Tasks)
    BY <1>1, <1>2, VictimIsWorker
  <2>2. h \in 0..Len(q)
    <3>1. Len(q) \in Nat
      BY <2>1
    <3> QED BY <3>1, HalfBounds
  <2>3. Range(q) = Range(front) \cup Range(back)
    BY <2>1, <2>2, RangeHalves
  <2>4. /\ UNCHANGED <<tasks, state, chain>>
        /\ stolen' = [stolen EXCEPT ![w] = front]
        /\ queues' = [queues EXCEPT ![v] = back]
        /\ pc[w] = "steal" /\ pc' = [pc EXCEPT ![w] = "stash"]
    BY <1>8 DEF Steal, WorkerAt, WorkerTo
  <2>5. /\ stolen'[w] = front /\ queues'[v] = back /\ q = queues[v]
        /\ \A u \in Workers : u # w => stolen'[u] = stolen[u] /\ pc'[u] = pc[u]
        /\ \A u \in Workers : u # v => queues'[u] = queues[u]
        /\ pc'[w] = "stash"
    BY <2>1, <2>4, <1>2 DEF q
  <2> HIDE DEF v, q, h, front, back
  <2>6. chain[w] = <<>> /\ stolen[w] = <<>>
    BY <2>4, <1>1, NoStack DEF OwnerLast
  <2>7. StacksRun'
    BY <2>4, <2>5, <2>6, <1>1, StacksKept
  <2>8. FreshHeld'
    <3>1. ASSUME NEW u \in PoolTasks, InHand(u) PROVE InHand(u)'
      <4>1. CASE \E x \in Workers : u \in Range(queues[x])
        <5>1. PICK x \in Workers : u \in Range(queues[x])
          BY <4>1
        <5>2. \/ u \in Range(queues'[x]) \/ u \in Range(queues'[v])
              \/ u \in Range(stolen'[w])
          BY <5>1, <2>3, <2>5
        <5> QED BY <5>2, <2>1 DEF InHand
      <4>2. CASE \E x \in Workers : u \in Range(stolen[x])
        <5>1. PICK x \in Workers : u \in Range(stolen[x])
          BY <4>2
        <5>2. x # w
          BY <5>1, <2>6 DEF Range
        <5> QED BY <5>1, <5>2, <2>5 DEF InHand
      <4>3. CASE \E c \in Clients : client[c].task = u
        BY <4>3, <1>3 DEF InHand
      <4> QED BY <3>1, <4>1, <4>2, <4>3 DEF InHand
    <3> QED BY <3>1, <2>4, <1>1, FreshKept DEF Fresh, StillFresh
  <2>9. queues' = [queues EXCEPT ![v] = queues'[v]]
    BY <2>4, <2>5
  <2>10. OwnerLast'
    BY <2>1, <2>4, <2>5, <2>9, <1>4
  <2> QED BY <2>7, <2>8, <2>10 DEF ReclaimInv
<1>9. CASE Stash(w)
  <2>1. /\ UNCHANGED <<tasks, state, chain>>
        /\ queues'[w] = queues[w] \o stolen[w] /\ stolen'[w] = <<>>
        /\ queues' = [queues EXCEPT ![w] = queues'[w]]
        /\ \A u \in Workers : u # w =>
             queues'[u] = queues[u] /\ stolen'[u] = stolen[u] /\ pc'[u] = pc[u]
        /\ pc[w] = "stash" /\ pc'[w] = "loop"
    BY <1>9, <1>2 DEF Stash, WorkerAt, WorkerTo
  <2>2. Range(queues'[w]) = Range(queues[w]) \cup Range(stolen[w])
    BY <2>1, <1>2, RangeConcat
  <2>3. chain[w] = <<>>
    BY <2>1, <1>1, NoStack
  <2>4. StacksRun'
    BY <2>1, <2>3, <1>1, StacksKept
  <2>5. FreshHeld'
    <3>1. ASSUME NEW u \in PoolTasks, InHand(u) PROVE InHand(u)'
      <4>1. CASE \E x \in Workers : u \in Range(queues[x]) \cup Range(stolen[x])
        <5>1. PICK x \in Workers : u \in Range(queues[x]) \cup Range(stolen[x])
          BY <4>1
        <5>2. u \in Range(queues'[x]) \cup Range(stolen'[x])
          BY <5>1, <2>1, <2>2
        <5> QED BY <5>2 DEF InHand
      <4>2. CASE \E c \in Clients : client[c].task = u
        BY <4>2, <1>3 DEF InHand
      <4> QED BY <3>1, <4>1, <4>2 DEF InHand
    <3> QED BY <3>1, <2>1, <1>1, FreshKept DEF Fresh, StillFresh
  <2>6. OwnerLast'
    BY <2>1, <1>4
  <2> QED BY <2>4, <2>5, <2>6 DEF ReclaimInv
<1>10. CASE Match(w) \/ Reap(w)
  <2> DEFINE t == Top(w)
  <2>1. /\ UNCHANGED <<tasks, queues, stolen>> /\ pc[w] \in {"match", "ran"}
        /\ \A v \in Workers : v # w => pc'[v] = pc[v] /\ chain'[v] = chain[v]
    BY ZenonT(30), <1>10, <1>2 DEF Match, Reap, WorkerAt, WorkerTo
  <2>2. chain[w] \in Seq(Tasks) /\ chain[w] # <<>>
    BY <2>1, <1>1, <1>2 DEF InRunOne
  <2>3. /\ t \in Tasks /\ t \in Range(chain[w]) /\ at[t] # New
        /\ Range(Below(w)) \subseteq Range(chain[w])
        /\ Range(chain[w]) = Range(Below(w)) \cup {t}
        /\ Len(chain[w]) \in Nat \ {0}
        /\ Below(w) \in Seq(Tasks) /\ (Len(chain[w]) # 1 => Below(w) # <<>>)
    BY <2>2, <1>1, TopInChain, TopAndBelow, RangeFront DEF RestStarted, Top, Below
  <2>4. \A u \in Tasks : u # t => state'[u] = state[u]
    BY <1>10, <1>2, <2>3 DEF Match, Reap
  <2>5. /\ pc[w] = "match" =>
             /\ state'[t] # "Running"
             /\ \/ /\ Len(chain[w]) = 1 /\ pc'[w] = "ran" /\ chain'[w] = chain[w]
                \/ /\ Len(chain[w]) # 1 /\ pc'[w] = "run" /\ chain'[w] = Below(w)
        /\ pc[w] = "ran" => /\ pc'[w] = "loop" /\ chain'[w] = <<>>
                            /\ state'[t] = "Running" => state[t] = "Running"
    BY <1>10, <1>2, <2>3 DEF Match, Reap, WorkerAt, WorkerTo
  <2> HIDE DEF t
  <2>6. StacksRun'
    <3>1. ASSUME NEW u \in Tasks, state'[u] = "Running"
          PROVE  \E v \in Workers : u \in Range(chain'[v]) /\ pc'[v] # "ran"
      <4>1. CASE pc[w] = "match"
        <5>1. u # t /\ state[u] = "Running"
          BY <4>1, <3>1, <2>4, <2>5
        <5>2. PICK v \in Workers : u \in Range(chain[v]) /\ pc[v] # "ran"
          BY <5>1, <1>1 DEF StacksRun
        <5>3. CASE v # w
          BY <5>2, <5>3, <2>1
        <5>4. CASE v = w
          <6>1. u \in Range(Below(w))
            BY <5>1, <5>2, <5>4, <2>3
          <6>2. Len(chain[w]) # 1
            <7>1. Len(chain[w]) = 1 => Below(w) = <<>>
              BY <2>2 DEF Below
            <7>2. Range(<<>>) = {}
              BY DEF Range
            <7> QED BY <6>1, <7>1, <7>2
          <6> QED BY <6>1, <6>2, <4>1, <2>5
        <5> QED BY <5>3, <5>4
      <4>2. CASE pc[w] = "ran"
        <5>1. state[u] = "Running"
          BY <4>2, <3>1, <2>4, <2>5
        <5>2. PICK v \in Workers : u \in Range(chain[v]) /\ pc[v] # "ran"
          BY <5>1, <1>1 DEF StacksRun
        <5> QED BY <4>2, <5>2, <2>1
      <4> QED BY <4>1, <4>2, <2>1
    <3>2. /\ \A v \in Workers : chain'[v] # <<>> => pc'[v] \in {"run", "match", "ran"}
          /\ \A v \in Workers : pc'[v] = "ran" => Len(chain'[v]) = 1
      BY <2>1, <2>5, <1>1 DEF StacksRun
    <3> QED BY <3>1, <3>2 DEF StacksRun
  <2>7. FreshHeld'
    <3>1. ASSUME NEW u \in PoolTasks, StillFresh(u) PROVE Fresh(u)
      BY <3>1, <2>1, <2>3, <2>4 DEF Fresh, StillFresh, Tasks
    <3> QED BY <3>1, <2>1, <1>1, <1>3, FreshKept DEF InHand
  <2>8. OwnerLast'
    <3>1. stolen'[w] = <<>>
      BY <2>1, <1>1 DEF OwnerLast
    <3> QED BY <3>1, <2>1, <1>4
  <2> QED BY <2>6, <2>7, <2>8 DEF ReclaimInv
<1> QED BY <1>5, <1>6, <1>7, <1>8, <1>9, <1>10 DEF LoopStep

----------------------------------------------------------------------------
(* What a task does keeps it, and what a shutdown reclaims.                *)

\* What tasks leave alone: hands, and tasks that never started.
LEMMA TasksKeepFresh ==
  ASSUME IInv, NEW w \in Workers, TaskStep(w)
  PROVE  /\ UNCHANGED <<queues, notified, shutdown, pending, client, stolen>>
         /\ pc[w] = "run" /\ pc'[w] \in {"run", "match"}
         /\ \A v \in Workers : v # w => pc'[v] = pc[v]
         /\ \A u \in PoolTasks : StillFresh(u) => Fresh(u)
<1> USE DEF workers, tasks, PoolUnchanged, Stays, SwitchOut
<1> DEFINE t == Top(w)
<1>1. /\ TypeOK /\ TasksTyped /\ InRunOne /\ RestStarted
  BY DEF IInv, AwakeInv
<1>2. /\ local \in [Workers -> Seq(Tasks)] /\ state \in [Tasks -> States]
      /\ at \in [Tasks -> Steps] /\ waiters \in [Tasks -> Seq(Tasks)]
      /\ listeners \in Seq(Tasks) /\ pc \in [Workers -> Places]
  BY Types
<1>3. pc[w] = "run"
  BY DEF TaskStep, Yield, Die, Spawn, Await, Consume, Drain, DrainDispatch,
         DrainReturns, Listen, MarkBlocked, Leave, Wake, Does, Runs, WorkerAt
<1>4. t \in Tasks /\ t \in Range(chain[w]) /\ at[t] # New
  BY <1>1, <1>3, TopInChain DEF InRunOne, RestStarted
<1>5. /\ UNCHANGED <<queues, notified, shutdown, pending, client, stolen>>
      /\ pc' = pc \/ pc' = [pc EXCEPT ![w] = "match"] \/ pc' = [pc EXCEPT ![w] = "run"]
  BY DEF TaskStep, Yield, Die, Spawn, Await, Consume, Drain, DrainDispatch, RunOne,
         DrainReturns, Listen, MarkBlocked, Leave, Wake, Does, WorkerTo
<1>6. /\ pc'[w] \in {"run", "match"}
      /\ \A v \in Workers : v # w => pc'[v] = pc[v]
  BY <1>2, <1>3, <1>5
<1>7. ASSUME NEW u \in PoolTasks, StillFresh(u) PROVE Fresh(u)
  <2>1. u \in Tasks /\ u \notin Children
    BY TasksAssumption DEF Tasks
  <2>2. at'[u] = New /\ state'[u] = "Ready"
    BY <1>7 DEF StillFresh
  <2>3. CASE DrainDispatch(w)
    <3>1. Head(local[w]) \in Tasks /\ RunOne(w, Head(local[w]))
      BY <2>3, <1>2, HeadAndTail DEF DrainDispatch
    <3> QED BY <2>1, <2>2, <3>1, <1>1, RunOneMoves DEF Fresh
  <2>4. CASE ~DrainDispatch(w)
    <3>1. at[u] = New
      <4>1. at' = at \/ \E place, arg : at' = [at EXCEPT ![t] = <<place, arg>>]
        BY <2>4 DEF TaskStep, Yield, Die, Spawn, Await, Consume, Drain, Goes,
                    DrainReturns, Listen, MarkBlocked, Leave, Wake
      <4>2. ASSUME NEW place, NEW arg, at' = [at EXCEPT ![t] = <<place, arg>>], u = t
            PROVE  FALSE
        BY <2>2, <2>4, <1>2, <1>4, <4>2
           DEF TaskStep, Yield, Die, Spawn, Await, Consume, Drain, Goes,
               DrainReturns, Listen, MarkBlocked, Leave, Wake, New
      <4> QED BY <4>1, <4>2, <2>1, <2>2, <1>2
    <3>2. ~Started(u)
      BY <2>1, <3>1 DEF Started
    <3>3. \/ state'[u] = state[u]
          \/ state'[u] # "Ready"
          \/ u \in Range(waiters[t]) \/ u \in Children
          \/ listeners # <<>> /\ u = Head(listeners)
      BY <2>1, <2>4, <1>2 
         DEF TaskStep, Yield, Die, Spawn, Await, Consume, Drain, Goes,
             DrainReturns, Listen, MarkBlocked, Leave, Wake
    <3>4. u \notin Range(waiters[t])
      BY <3>2, <1>1, <1>4 DEF RestStarted
    <3>5. listeners # <<>> => u # Head(listeners)
      BY <3>2, <1>1, <1>2, RangeTail DEF RestStarted
    <3> QED BY <3>1, <3>3, <3>4, <3>5, <2>1, <2>2 DEF Fresh
  <2> QED BY <2>3, <2>4
<1> QED BY <1>3, <1>5, <1>6, <1>7

LEMMA TaskReclaims ==
  ASSUME IInv, ReclaimInv, NEW w \in Workers, TaskStep(w)
  PROVE  ReclaimInv'
<1> USE DEF PoolUnchanged, Stays, SwitchOut
<1>1. StacksRun /\ FreshHeld /\ OwnerLast /\ TypeOK /\ InRunOne
  BY DEF ReclaimInv, IInv, AwakeInv
<1>2. /\ local \in [Workers -> Seq(Tasks)] /\ state \in [Tasks -> States]
  BY Types
<1>3. /\ UNCHANGED <<queues, client, stolen>>
      /\ pc[w] = "run" /\ pc'[w] \in {"run", "match"}
      /\ \A v \in Workers : v # w => pc'[v] = pc[v]
      /\ \A u \in PoolTasks : StillFresh(u) => Fresh(u)
  BY TasksKeepFresh
<1>4. FreshHeld'
  BY <1>1, <1>3, FreshKept DEF InHand
<1>5. OwnerLast'
  BY <1>1, <1>3 DEF OwnerLast, Open
<1>6. StacksRun'
  <2>1. CASE DrainDispatch(w)
    <3>1. Head(local[w]) \in Tasks /\ RunOne(w, Head(local[w]))
      BY <2>1, <1>2, HeadAndTail DEF DrainDispatch
    <3> QED BY <3>1, <1>1, <1>3, RunOneStacks
  <2>2. CASE ~DrainDispatch(w)
    <3>1. UNCHANGED chain
      BY <2>2 DEF TaskStep, Yield, Die, Spawn, Await, Consume, Drain,
                  DrainReturns, Listen, MarkBlocked, Leave, Wake
    <3>2. \A u \in Tasks : state'[u] = "Running" => state[u] = "Running"
      BY <2>2, <1>2 DEF TaskStep, Yield, Die, Spawn, Await, Consume, Drain,
                  DrainReturns, Listen, MarkBlocked, Leave, Wake, tasks
    <3> QED BY <3>1, <3>2, <1>1, <1>3, StacksKept
  <2> QED BY <2>1, <2>2
<1> QED BY <1>4, <1>5, <1>6 DEF ReclaimInv

\* ReclaimInv holds at first, and every step from a state with IInv keeps it.
LEMMA InitReclaims == Init => ReclaimInv
<1> SUFFICES ASSUME Init PROVE ReclaimInv
  OBVIOUS
<1>1. Owner \in Clients
  BY ClientsAssumption
<1>2. StacksRun
  BY DEF Init, StacksRun
<1>3. FreshHeld
  BY DEF Init, FreshHeld, Fresh, Tasks
<1>4. OwnerLast
  BY <1>1 DEF Init, OwnerLast, Idle
<1> QED BY <1>2, <1>3, <1>4 DEF ReclaimInv

THEOREM Reclaiming == Spec => [](IInv /\ ReclaimInv)
<1>1. Init => ReclaimInv
  BY InitReclaims
<1>2. IInv /\ ReclaimInv /\ [Next]_vars => ReclaimInv'
  <2> SUFFICES ASSUME IInv, ReclaimInv, [Next]_vars PROVE ReclaimInv'
    OBVIOUS
  <2>1. CASE UNCHANGED vars
    BY <2>1 DEF vars, workers, tasks, ReclaimInv, StacksRun, FreshHeld, OwnerLast,
                InHand, Fresh, New, Open
  <2>2. CASE Next
    BY <2>2, ClientReclaims, LoopReclaims, TaskReclaims DEF Next
  <2> QED BY <2>1, <2>2
<1> QED BY <1>1, <1>2, Invariance, PTL DEF Spec

\* A shutdown leaves no task running, and frees every task that was submitted
\* and never ran, wherever it was when the flag was set (Pool::shutdown).
THEOREM ShutdownComplete == Spec => []ShutdownReclaims
<1>1. IInv /\ ReclaimInv => ShutdownReclaims
  <2> SUFFICES ASSUME IInv, ReclaimInv, client[Owner].at = "gone", NEW t \in PoolTasks
               PROVE  state[t] # "Running" /\ (state[t] = "Ready" => at[t] # New)
    BY DEF ShutdownReclaims, ClientAt
  <2>1. StacksRun /\ FreshHeld /\ OwnerLast
    BY DEF ReclaimInv
  <2>2. \A w \in Workers : pc[w] = "gone" /\ queues[w] = <<>> /\ stolen[w] = <<>>
    BY <2>1 DEF OwnerLast
  <2>3. \A w \in Workers : chain[w] = <<>>
    BY <2>1, <2>2, NoStack
  <2>4. Range(<<>>) = {}
    BY DEF Range
  <2>5. state[t] # "Running"
    BY <2>1, <2>3, <2>4 DEF StacksRun, Tasks
  <2>6. \A c \in Clients : client[c].task = None
    BY <2>1 DEF OwnerLast, Open
  <2>7. t # None
    BY TasksAssumption DEF Tasks
  <2>8. ~InHand(t)
    BY <2>2, <2>4, <2>6, <2>7 DEF InHand
  <2> QED BY <2>1, <2>5, <2>8 DEF FreshHeld, Fresh
<1> QED BY <1>1, Reclaiming, PTL

----------------------------------------------------------------------------
(* One holder.  A task that listens on a channel can be woken before it    *)
(* has left its worker, and then two workers hold it: the rest of this     *)
(* section is about tasks that do everything but listen.                   *)

NoListen == \A t \in Tasks : "listen" \notin Deeds[t]

NobodyListens ==
  listeners = <<>> /\ \A t \in Tasks : at[t][1] \notin {"listed", "blocked"}

\* Every task that has started belongs to one worker, its home.  A local
\* queue holds tasks of its worker that can run, once each;
LocalSettled(home) ==
  \A w \in Workers :
    /\ IsInjective(local[w])
    /\ \A t \in Range(local[w]) : home[t] = w /\ state[t] = "Ready"

\* a stack holds tasks of its worker that run, except that the one on top has
\* switched out and is to be looked at, or has been looked at;
ChainSettled(home) ==
  \A w \in Workers :
    /\ IsInjective(chain[w])
    /\ \A t \in Range(chain[w]) :
         /\ home[t] = w
         /\ pc[w] = "run" \/ t # Top(w) => state[t] = "Running"
    /\ pc[w] = "match" => state[Top(w)] \in {"Running", "Blocked", "Dead"}
    /\ pc[w] = "ran" => state[Top(w)] \in {"Ready", "Blocked", "Dead"}

\* a task that can run, and is not new, is in the local queue of its home;
ReadyHeld(home) ==
  \A t \in Tasks : state[t] = "Ready" /\ ~Fresh(t) => t \in Range(local[home[t]])

\* whoever waits for a task is blocked in an await of it, at the same home,
WaitersSettled(home) ==
  \A u \in Tasks :
    /\ IsInjective(waiters[u])
    /\ \A t \in Range(waiters[u]) :
         at[t] = <<"awaited", u>> /\ state[t] = "Blocked" /\ home[t] = home[u]

\* and whoever is in an await waits, unless the target has ended;
AwaitSettled(home) ==
  \A t \in Tasks : at[t][1] = "awaited" =>
    LET u == at[t][2]
    IN  /\ home[u] = home[t] /\ state[u] # "unborn"
        /\ t \in Range(waiters[u]) \/ state[u] \in {"Dead", "freed"}

\* a task is at home where its parent is.
ParentSettled(home) ==
  \A u \in Tasks : parent[u] # None =>
    /\ u \in Children /\ state[u] # "unborn"
    /\ home[u] = home[parent[u]] /\ at[parent[u]] # New

Settled(home) ==
  /\ LocalSettled(home) /\ ChainSettled(home) /\ ReadyHeld(home)
  /\ WaitersSettled(home) /\ AwaitSettled(home) /\ ParentSettled(home)

Homes == [Tasks -> Workers]
HomeInv == NobodyListens /\ \E home \in Homes : Settled(home)


\* The tasks that lists and stacks hold, and what IInv says of them.
LEMMA Listed ==
  ASSUME IInv
  PROVE  /\ \A w \in Workers : \A t \in Range(local[w]) : t \in Tasks /\ ~Fresh(t)
         /\ \A w \in Workers : \A t \in Range(chain[w]) : t \in Tasks /\ at[t] # New
         /\ \A u \in Tasks : \A t \in Range(waiters[u]) : t \in Tasks /\ ~Fresh(t)
         /\ \A t \in Tasks : at[t][1] = "awaited" => at[t][2] \in Children
         /\ \A t : Fresh(t) => t \in Tasks /\ t \notin Children /\ at[t] = New
         /\ \A t \in Tasks : state[t] = "unborn" => at[t] = New
         /\ Children \subseteq Tasks /\ New[1] = "new"
<1>1. /\ local \in [Workers -> Seq(Tasks)] /\ chain \in [Workers -> Seq(Tasks)]
      /\ waiters \in [Tasks -> Seq(Tasks)] /\ RestStarted
  BY Types DEF IInv
<1>2. /\ \A w \in Workers : Range(local[w]) \subseteq Tasks /\ Range(chain[w]) \subseteq Tasks
      /\ \A u \in Tasks : Range(waiters[u]) \subseteq Tasks
  BY <1>1, RangeOfSeq
<1>3. \A t : Fresh(t) => t \in Tasks /\ t \notin Children /\ at[t] = New /\ ~Started(t)
  BY TasksAssumption DEF Fresh, Started, Tasks
<1> QED BY <1>1, <1>2, <1>3 DEF RestStarted, Tasks, New

\* A task that runs, on top of the stack of a worker whose code it executes.
LEMMA OnTop ==
  ASSUME IInv, NEW home, Settled(home), NEW w \in Workers, pc[w] = "run"
  PROVE  /\ Top(w) \in Tasks /\ Top(w) \in Range(chain[w]) /\ at[Top(w)] # New
         /\ state[Top(w)] = "Running" /\ home[Top(w)] = w
         /\ \A v \in Workers : Top(w) \notin Range(local[v])
         /\ \A v \in Workers : v # w => Top(w) \notin Range(chain[v])
         /\ \A u \in Tasks : Top(w) \notin Range(waiters[u])
<1>1. TypeOK /\ InRunOne /\ RestStarted
  BY DEF IInv, AwakeInv
<1>2. Top(w) \in Tasks /\ Top(w) \in Range(chain[w]) /\ at[Top(w)] # New
  BY <1>1, TopInChain DEF InRunOne, RestStarted
<1>3. state[Top(w)] = "Running" /\ home[Top(w)] = w
  BY <1>2 DEF Settled, ChainSettled
<1>4. /\ \A v \in Workers : Top(w) \notin Range(local[v])
      /\ \A v \in Workers : v # w => Top(w) \notin Range(chain[v])
  BY <1>3 DEF Settled, LocalSettled, ChainSettled
<1>5. \A u \in Tasks : Top(w) \notin Range(waiters[u])
  BY <1>3 DEF Settled, WaitersSettled
<1> QED BY <1>2, <1>3, <1>4, <1>5

----------------------------------------------------------------------------
(* Steps that keep every task at home.                                     *)

\* A step that changes nothing but the state of new tasks, and where workers
\* that have no stack are.
LEMMA SettledKept ==
  ASSUME IInv, NEW home, Settled(home),
         UNCHANGED <<local, chain, at, waiters, parent>>,
         \A t \in Tasks :
           \/ state'[t] = state[t]
           \/ /\ t \in PoolTasks /\ at[t] = New
              /\ Fresh(t)' \/ state'[t] = "freed",
         \A w \in Workers : \/ pc'[w] = pc[w]
                            \/ chain[w] = <<>> /\ pc'[w] \notin {"match", "ran"}
  PROVE  Settled(home)'
<1>1. /\ LocalSettled(home) /\ ChainSettled(home) /\ ReadyHeld(home)
      /\ WaitersSettled(home) /\ AwaitSettled(home) /\ ParentSettled(home)
  BY DEF Settled
<1>2. RestStarted
  BY DEF IInv
<1>3. \A t \in PoolTasks : t \in Tasks /\ t \notin Children
  BY TasksAssumption DEF Tasks
<1>4. \A t \in Tasks : t \in Children \/ at[t] # New => state'[t] = state[t]
  BY <1>3
<1>5. LocalSettled(home)'
  <2>1. \A w \in Workers : \A t \in Range(local[w]) : state'[t] = state[t]
    BY <1>2, <1>4, Listed DEF RestStarted, Started
  <2> QED BY <2>1, <1>1 DEF LocalSettled
<1>6. ChainSettled(home)'
  <2>1. \A w \in Workers : \A t \in Range(chain[w]) : state'[t] = state[t]
    BY <1>4, Listed
  <2>2. \A w \in Workers : chain[w] # <<>> => pc'[w] = pc[w] /\ Top(w) \in Range(chain[w])
    BY TopInChain DEF IInv, AwakeInv
  <2>3. Range(<<>>) = {} /\ IsInjective(<<>>)
    BY DEF Range, IsInjective
  <2>4. \A w \in Workers : pc[w] \in {"run", "match", "ran"} => chain[w] # <<>>
    BY DEF IInv, AwakeInv, InRunOne
  <2>5. \A w \in Workers : Top(w)' = Top(w)
    BY DEF Top
  <2> SUFFICES ASSUME NEW w \in Workers
               PROVE  /\ IsInjective(chain[w])
                      /\ \A t \in Range(chain[w]) :
                           /\ home[t] = w
                           /\ pc'[w] = "run" \/ t # Top(w) => state'[t] = "Running"
                      /\ pc'[w] = "match" => state'[Top(w)] \in {"Running", "Blocked", "Dead"}
                      /\ pc'[w] = "ran" => state'[Top(w)] \in {"Ready", "Blocked", "Dead"}
    BY <2>5 DEF ChainSettled
  <2>6. CASE chain[w] = <<>>
    BY <2>3, <2>4, <2>6
  <2>7. CASE chain[w] # <<>>
    BY <2>1, <2>2, <2>7, <1>1 DEF ChainSettled
  <2> QED BY <2>6, <2>7
<1>7. ReadyHeld(home)'
  <2>1. ASSUME NEW t \in Tasks, state'[t] = "Ready", ~Fresh(t)'
        PROVE  t \in Range(local[home[t]])
    <3>1. state'[t] = state[t]
      BY <2>1
    <3>2. ~Fresh(t)
      BY <2>1, <3>1 DEF Fresh, New
    <3> QED BY <2>1, <3>1, <3>2, <1>1 DEF ReadyHeld
  <2> QED BY <2>1 DEF ReadyHeld
<1>8. WaitersSettled(home)'
  <2>1. \A u \in Tasks : \A t \in Range(waiters[u]) : state'[t] = state[t]
    BY <1>2, <1>4, Listed DEF RestStarted, Started
  <2> QED BY <2>1, <1>1 DEF WaitersSettled
<1>9. AwaitSettled(home)'
  <2>1. \A t \in Tasks : at[t][1] = "awaited" => state'[at[t][2]] = state[at[t][2]]
    BY <1>4, Listed
  <2> QED BY <2>1, <1>1 DEF AwaitSettled
<1>10. ParentSettled(home)'
  BY <1>1, <1>4 DEF ParentSettled, New
<1> QED BY <1>5, <1>6, <1>7, <1>8, <1>9, <1>10 DEF Settled

\* run_one of a new task, which is at home from now on, or of the first in the
\* local queue.
LEMMA RunOneSettled ==
  ASSUME IInv, ReclaimInv, NEW home \in Homes, Settled(home), NEW h \in Homes,
         NEW w \in Workers, pc[w] \in {"own", "run"}, NEW t \in Tasks,
         RunOne(w, t), state[t] = "Ready", UNCHANGED <<waiters, parent>>,
         \/ Fresh(t) /\ UNCHANGED local /\ h = [home EXCEPT ![t] = w]
         \/ /\ local[w] # <<>> /\ t = Head(local[w]) /\ h = home
            /\ local' = [local EXCEPT ![w] = Tail(@)]
  PROVE  Settled(h)'
<1>1. /\ LocalSettled(home) /\ ChainSettled(home) /\ ReadyHeld(home)
      /\ WaitersSettled(home) /\ AwaitSettled(home) /\ ParentSettled(home)
  BY DEF Settled
<1>2. /\ local \in [Workers -> Seq(Tasks)] /\ chain \in [Workers -> Seq(Tasks)]
      /\ at \in [Tasks -> Steps] /\ StacksRun
  BY Types DEF ReclaimInv
<1>3. /\ \A u \in Tasks : u # t => at'[u] = at[u] /\ state'[u] = state[u]
      /\ at'[t] # New /\ state'[t] = "Running"
      /\ \A v \in Workers : v # w => pc'[v] = pc[v] /\ chain'[v] = chain[v]
      /\ pc'[w] = "run" /\ chain'[w] = Append(chain[w], t)
      /\ Range(chain'[w]) = Range(chain[w]) \cup {t}
  BY <1>2, RunOneStacks
<1>4. at'[t] = at[t] \/ at'[t][1] # "awaited"
  BY <1>2 DEF RunOne, Resumed, Code
<1>5. h[t] = w /\ \A u \in Tasks : u # t => h[u] = home[u]
  <2>1. CASE Fresh(t) /\ h = [home EXCEPT ![t] = w]
    BY <2>1 DEF Homes
  <2>2. CASE local[w] # <<>> /\ t = Head(local[w]) /\ h = home
    <3>1. t \in Range(local[w])
      BY <2>2, <1>2, RangeTail
    <3> QED BY <2>2, <3>1, <1>1 DEF LocalSettled
  <2> QED BY <2>1, <2>2
<1>6. Fresh(t) \/ h = home
  OBVIOUS
<1>7. \A v \in Workers : /\ Range(local'[v]) = Range(local[v]) \ {t}
                         /\ IsInjective(local'[v])
  <2>1. CASE Fresh(t) /\ UNCHANGED local
    BY <2>1, <1>1, Listed DEF LocalSettled
  <2>2. CASE /\ local[w] # <<>> /\ t = Head(local[w])
             /\ local' = [local EXCEPT ![w] = Tail(@)] /\ h = home
    <3>1. /\ local'[w] = Tail(local[w])
          /\ \A v \in Workers : v # w => local'[v] = local[v]
      BY <2>2, <1>2
    <3>2. /\ Range(local[w]) = Range(Tail(local[w])) \cup {t}
          /\ t \notin Range(Tail(local[w])) /\ IsInjective(Tail(local[w]))
      BY <2>2, <1>1, <1>2, RangeTail DEF LocalSettled
    <3>3. \A v \in Workers : v # w => t \notin Range(local[v])
      BY <2>2, <1>1, <1>5 DEF LocalSettled
    <3> QED BY <3>1, <3>2, <3>3, <1>1 DEF LocalSettled
  <2> QED BY <2>1, <2>2
<1>8. \A v \in Workers : t \notin Range(chain[v])
  <2>1. CASE Fresh(t)
    BY <2>1, Listed
  <2>2. CASE h = home
    <3>1. \A v \in Workers : v # w => t \notin Range(chain[v])
      BY <2>2, <1>1, <1>5 DEF ChainSettled
    <3>2. CASE pc[w] = "run"
      BY <3>1, <3>2, <1>1 DEF ChainSettled
    <3>3. CASE pc[w] = "own"
      <4>1. chain[w] = <<>>
        BY <3>3, <1>2, NoStack
      <4>2. Range(<<>>) = {}
        BY DEF Range
      <4> QED BY <3>1, <4>1, <4>2
    <3> QED BY <3>2, <3>3
  <2> QED BY <2>1, <2>2, <1>6
<1>9. \A u \in Tasks : t \notin Range(waiters[u])
  BY <1>1 DEF WaitersSettled
<1>10. LocalSettled(h)'
  <2>1. ASSUME NEW v \in Workers, NEW u \in Range(local'[v])
        PROVE  h[u] = v /\ state'[u] = "Ready"
    <3>1. u \in Range(local[v]) /\ u # t
      BY <2>1, <1>7
    <3>2. u \in Tasks /\ home[u] = v /\ state[u] = "Ready"
      BY <3>1, <1>1, Listed DEF LocalSettled
    <3> QED BY <3>1, <3>2, <1>3, <1>5
  <2> QED BY <2>1, <1>7 DEF LocalSettled
<1>11. ChainSettled(h)'
  <2>1. IsInjective(chain'[w])
    BY <1>1, <1>2, <1>3, <1>8, RangeAppend DEF ChainSettled
  <2>2. \A u \in Range(chain[w]) : state[u] = "Running" /\ u # t /\ u \in Tasks /\ home[u] = w
    <3>1. CASE pc[w] = "run"
      BY <3>1, <1>1, <1>8, Listed DEF ChainSettled
    <3>2. CASE pc[w] = "own"
      <4>1. chain[w] = <<>>
        BY <3>2, <1>2, NoStack
      <4>2. Range(<<>>) = {}
        BY DEF Range
      <4> QED BY <4>1, <4>2
    <3> QED BY <3>1, <3>2
  <2>3. \A u \in Range(chain'[w]) : h[u] = w /\ state'[u] = "Running"
    BY <2>2, <1>3, <1>5
  <2> SUFFICES ASSUME NEW v \in Workers
               PROVE  /\ IsInjective(chain'[v])
                      /\ \A u \in Range(chain'[v]) :
                           /\ h[u] = v
                           /\ pc'[v] = "run" \/ u # Top(v)' => state'[u] = "Running"
                      /\ pc'[v] = "match" => state'[Top(v)'] \in {"Running", "Blocked", "Dead"}
                      /\ pc'[v] = "ran" => state'[Top(v)'] \in {"Ready", "Blocked", "Dead"}
    BY DEF ChainSettled, Top
  <2>4. CASE v = w
    BY <2>1, <2>3, <2>4, <1>3
  <2>5. CASE v # w
    <3>1. Top(v)' = Top(v) /\ chain'[v] = chain[v] /\ pc'[v] = pc[v]
      BY <2>5, <1>3 DEF Top
    <3>2. \A u \in Range(chain[v]) : u # t /\ state'[u] = state[u] /\ h[u] = home[u]
      BY <1>3, <1>5, <1>8, Listed
    <3>3. pc[v] \in {"match", "ran"} => Top(v) \in Range(chain[v])
      BY TopInChain DEF IInv, AwakeInv, InRunOne
    <3> QED BY <3>1, <3>2, <3>3, <1>1 DEF ChainSettled
  <2> QED BY <2>4, <2>5
<1>12. ReadyHeld(h)'
  <2>1. ASSUME NEW u \in Tasks, state'[u] = "Ready", ~Fresh(u)'
        PROVE  u \in Range(local'[h[u]])
    <3>1. u # t /\ state[u] = "Ready" /\ h[u] = home[u]
      BY <2>1, <1>3, <1>5
    <3>2. ~Fresh(u)
      BY <2>1, <3>1, <1>3 DEF Fresh, New
    <3>3. u \in Range(local[home[u]]) /\ home[u] \in Workers
      BY <3>1, <3>2, <1>1 DEF ReadyHeld, Homes
    <3> QED BY <3>1, <3>3, <1>7
  <2> QED BY <2>1 DEF ReadyHeld
<1>13. WaitersSettled(h)'
  <2>1. ASSUME NEW u \in Tasks, NEW x \in Range(waiters[u])
        PROVE  at'[x] = <<"awaited", u>> /\ state'[x] = "Blocked" /\ h[x] = h[u]
    <3>1. /\ x \in Tasks /\ x # t /\ at[x] = <<"awaited", u>> /\ state[x] = "Blocked"
          /\ home[x] = home[u]
      BY <1>1, <1>9, Listed DEF WaitersSettled
    <3>2. u \in Children
      BY <3>1, Listed
    <3>3. h[u] = home[u]
      BY <3>2, <1>5, <1>6, Listed
    <3> QED BY <3>1, <3>3, <1>3, <1>5
  <2> QED BY <2>1, <1>1 DEF WaitersSettled
<1>14. AwaitSettled(h)'
  <2>1. ASSUME NEW x \in Tasks, at'[x][1] = "awaited"
        PROVE  /\ h[at'[x][2]] = h[x] /\ state'[at'[x][2]] # "unborn"
               /\ x \in Range(waiters[at'[x][2]]) \/ state'[at'[x][2]] \in {"Dead", "freed"}
    <3>1. at'[x] = at[x]
      BY <2>1, <1>3, <1>4
    <3> DEFINE u == at[x][2]
    <3>2. /\ u \in Children /\ home[u] = home[x] /\ state[u] # "unborn"
          /\ x \in Range(waiters[u]) \/ state[u] \in {"Dead", "freed"}
      BY <2>1, <3>1, <1>1, Listed DEF AwaitSettled
    <3> HIDE DEF u
    <3>3. Fresh(t) => x # t /\ u # t
      BY <2>1, <3>1, <3>2, Listed
    <3>4. h[u] = h[x]
      BY <3>2, <3>3, <1>5, <1>6, Listed
    <3>5. state'[u] # "unborn" /\ (x \in Range(waiters[u]) \/ state'[u] \in {"Dead", "freed"})
      BY <3>2, <1>3, Listed
    <3> QED BY <3>1, <3>4, <3>5 DEF u
  <2> QED BY <2>1 DEF AwaitSettled
<1>15. ParentSettled(h)'
  <2>1. ASSUME NEW u \in Tasks, parent[u] # None
        PROVE  /\ u \in Children /\ state'[u] # "unborn"
               /\ h[u] = h[parent[u]] /\ at'[parent[u]] # New
    <3>1. /\ u \in Children /\ state[u] # "unborn" /\ parent[u] \in Tasks
          /\ home[u] = home[parent[u]] /\ at[parent[u]] # New
      BY <2>1, <1>1, Types DEF ParentSettled
    <3>2. Fresh(t) => u # t /\ parent[u] # t
      BY <3>1, Listed
    <3> QED BY <3>1, <3>2, <1>3, <1>5, <1>6
  <2> QED BY <2>1 DEF ParentSettled, New
<1> QED BY <1>10, <1>11, <1>12, <1>13, <1>14, <1>15 DEF Settled

\* run_one after the switch back: the task goes to the local queue if it runs,
\* and the stack loses it, or run_task looks at it once more.
LEMMA MatchSettled ==
  ASSUME IInv, ReclaimInv, NEW home \in Homes, Settled(home), NEW w \in Workers,
         Match(w)
  PROVE  Settled(home)'
<1> USE DEF tasks
<1> DEFINE t == Top(w)
<1>1. /\ LocalSettled(home) /\ ChainSettled(home) /\ ReadyHeld(home)
      /\ WaitersSettled(home) /\ AwaitSettled(home) /\ ParentSettled(home)
  BY DEF Settled
<1>2. /\ local \in [Workers -> Seq(Tasks)] /\ chain \in [Workers -> Seq(Tasks)]
      /\ state \in [Tasks -> States] /\ pc \in [Workers -> Places] /\ StacksRun
      /\ TypeOK /\ InRunOne
  BY Types DEF ReclaimInv, IInv, AwakeInv
<1>3. pc[w] = "match" /\ chain[w] \in Seq(Tasks) /\ chain[w] # <<>>
  BY <1>2 DEF Match, WorkerAt, InRunOne
<1>4. /\ t \in Tasks /\ t \in Range(chain[w]) /\ at[t] # New
      /\ Below(w) \in Seq(Tasks) /\ IsInjective(Below(w))
      /\ Range(chain[w]) = Range(Below(w)) \cup {t} /\ t \notin Range(Below(w))
  BY <1>1, <1>2, <1>3, TopInChain, RangeFront, Listed DEF Top, Below, ChainSettled
<1>5. home[t] = w /\ state[t] \in {"Running", "Blocked", "Dead"}
  BY <1>1, <1>3, <1>4 DEF ChainSettled
<1>6. /\ \A u \in Tasks : u # t => state'[u] = state[u]
      /\ state'[t] = IF state[t] = "Running" THEN "Ready" ELSE state[t]
      /\ UNCHANGED <<at, waiters, parent>>
      /\ \A v \in Workers : v # w =>
           local'[v] = local[v] /\ pc'[v] = pc[v] /\ chain'[v] = chain[v]
      /\ local'[w] = IF state[t] = "Running" THEN Append(local[w], t) ELSE local[w]
  BY <1>2, <1>4, <1>5 DEF Match, WorkerTo
<1>7. \/ pc'[w] = "ran" /\ chain'[w] = chain[w]
      \/ pc'[w] = "run" /\ chain'[w] = Below(w)
  BY <1>2 DEF Match, WorkerTo
<1> HIDE DEF t
<1>8. \A v \in Workers : t \notin Range(local[v])
  BY <1>1, <1>5 DEF LocalSettled
<1>9. /\ Range(local'[w]) = Range(local[w]) \cup (IF state[t] = "Running" THEN {t} ELSE {})
      /\ IsInjective(local'[w])
  BY <1>1, <1>2, <1>4, <1>6, <1>8, RangeAppend DEF LocalSettled
<1>10. LocalSettled(home)'
  <2>1. ASSUME NEW v \in Workers, NEW u \in Range(local'[v])
        PROVE  home[u] = v /\ state'[u] = "Ready"
    <3>1. CASE u = t
      <4>1. v = w /\ state[t] = "Running"
        BY <2>1, <3>1, <1>6, <1>8, <1>9
      <4> QED BY <3>1, <4>1, <1>5, <1>6
    <3>2. CASE u # t
      <4>1. u \in Range(local[v])
        BY <2>1, <3>2, <1>6, <1>9
      <4> QED BY <4>1, <3>2, <1>1, <1>6, Listed DEF LocalSettled
    <3> QED BY <3>1, <3>2
  <2>2. \A v \in Workers : IsInjective(local'[v])
    BY <1>1, <1>6, <1>9 DEF LocalSettled
  <2> QED BY <2>1, <2>2 DEF LocalSettled
<1>11. ChainSettled(home)'
  <2> SUFFICES ASSUME NEW v \in Workers
               PROVE  /\ IsInjective(chain'[v])
                      /\ \A u \in Range(chain'[v]) :
                           /\ home[u] = v
                           /\ pc'[v] = "run" \/ u # Top(v)' => state'[u] = "Running"
                      /\ pc'[v] = "match" => state'[Top(v)'] \in {"Running", "Blocked", "Dead"}
                      /\ pc'[v] = "ran" => state'[Top(v)'] \in {"Ready", "Blocked", "Dead"}
    BY DEF ChainSettled, Top
  <2>1. CASE v # w
    <3>1. Top(v)' = Top(v) /\ chain'[v] = chain[v] /\ pc'[v] = pc[v]
      BY <2>1, <1>6 DEF Top
    <3>2. \A u \in Range(chain[v]) : u # t /\ state'[u] = state[u]
      BY <2>1, <1>1, <1>5, <1>6, Listed DEF ChainSettled
    <3>3. pc[v] \in {"match", "ran"} => Top(v) \in Range(chain[v])
      BY TopInChain DEF IInv, AwakeInv, InRunOne
    <3> QED BY <3>1, <3>2, <3>3, <1>1 DEF ChainSettled
  <2>2. CASE v = w /\ pc'[w] = "ran" /\ chain'[w] = chain[w]
    <3>1. Top(w)' = t
      BY <2>2 DEF Top, t
    <3>2. \A u \in Range(chain[w]) : u # t => state'[u] = state[u]
      BY <1>6, Listed
    <3> QED BY <2>2, <3>1, <3>2, <1>1, <1>5, <1>6 DEF ChainSettled, t
  <2>3. CASE v = w /\ pc'[w] = "run" /\ chain'[w] = Below(w)
    <3>1. \A u \in Range(Below(w)) : u \in Range(chain[w]) /\ u # t /\ state'[u] = state[u]
      BY <1>4, <1>6, Listed
    <3> QED BY <2>3, <3>1, <1>1, <1>4 DEF ChainSettled, t
  <2> QED BY <2>1, <2>2, <2>3, <1>7
<1>12. ReadyHeld(home)'
  <2>1. ASSUME NEW u \in Tasks, state'[u] = "Ready", ~Fresh(u)'
        PROVE  u \in Range(local'[home[u]])
    <3>1. CASE u = t
      BY <2>1, <3>1, <1>5, <1>6, <1>9
    <3>2. CASE u # t
      <4>1. state[u] = "Ready" /\ ~Fresh(u)
        BY <2>1, <3>2, <1>6 DEF Fresh, New
      <4>2. u \in Range(local[home[u]])
        BY <4>1, <1>1 DEF ReadyHeld
      <4> QED BY <4>2, <1>6, <1>9 DEF Homes
    <3> QED BY <3>1, <3>2
  <2> QED BY <2>1 DEF ReadyHeld
<1>13. WaitersSettled(home)'
  <2>1. \A u \in Tasks : \A x \in Range(waiters[u]) : state'[x] = state[x]
    BY <1>1, <1>6, Listed DEF WaitersSettled
  <2> QED BY <2>1, <1>1, <1>6 DEF WaitersSettled
<1>14. AwaitSettled(home)'
  <2>1. \A u \in Tasks : /\ state[u] # "unborn" => state'[u] # "unborn"
                         /\ state[u] \in {"Dead", "freed"} => state'[u] = state[u]
    BY <1>6
  <2>2. \A u \in Tasks : at[u][1] = "awaited" => at[u][2] \in Tasks
    BY Listed
  <2> QED BY <2>1, <2>2, <1>1, <1>6 DEF AwaitSettled
<1>15. ParentSettled(home)'
  BY <1>1, <1>6 DEF ParentSettled, New
<1> QED BY <1>10, <1>11, <1>12, <1>13, <1>14, <1>15 DEF Settled

\* run_task frees what has died, and leaves the rest where it is.
LEMMA ReapSettled ==
  ASSUME IInv, ReclaimInv, NEW home \in Homes, Settled(home), NEW w \in Workers,
         Reap(w)
  PROVE  Settled(home)'
<1> USE DEF tasks
<1> DEFINE t == Top(w)
<1>1. /\ LocalSettled(home) /\ ChainSettled(home) /\ ReadyHeld(home)
      /\ WaitersSettled(home) /\ AwaitSettled(home) /\ ParentSettled(home)
  BY DEF Settled
<1>2. /\ chain \in [Workers -> Seq(Tasks)] /\ state \in [Tasks -> States]
      /\ pc \in [Workers -> Places] /\ TypeOK /\ InRunOne
  BY Types DEF IInv, AwakeInv
<1>3. pc[w] = "ran" /\ chain[w] # <<>>
  BY <1>2 DEF Reap, WorkerAt, InRunOne
<1>4. t \in Tasks /\ t \in Range(chain[w]) /\ at[t] # New
  BY <1>2, <1>3, TopInChain, Listed
<1>5. home[t] = w /\ state[t] \in {"Ready", "Blocked", "Dead"}
  BY <1>1, <1>3, <1>4 DEF ChainSettled
<1>6. /\ \A u \in Tasks : u # t => state'[u] = state[u]
      /\ state'[t] = IF state[t] = "Dead" THEN "freed" ELSE state[t]
      /\ UNCHANGED <<at, waiters, parent, local>>
      /\ \A v \in Workers : v # w => pc'[v] = pc[v] /\ chain'[v] = chain[v]
      /\ pc'[w] = "loop" /\ chain'[w] = <<>>
  BY <1>2, <1>4, <1>5 DEF Reap, WorkerTo
<1> HIDE DEF t
<1>7. \A u \in Tasks : state[u] # "Dead" => state'[u] = state[u]
  BY <1>6
<1>8. LocalSettled(home)'
  BY <1>1, <1>6, <1>7, Listed DEF LocalSettled
<1>9. ChainSettled(home)'
  <2> SUFFICES ASSUME NEW v \in Workers
               PROVE  /\ IsInjective(chain'[v])
                      /\ \A u \in Range(chain'[v]) :
                           /\ home[u] = v
                           /\ pc'[v] = "run" \/ u # Top(v)' => state'[u] = "Running"
                      /\ pc'[v] = "match" => state'[Top(v)'] \in {"Running", "Blocked", "Dead"}
                      /\ pc'[v] = "ran" => state'[Top(v)'] \in {"Ready", "Blocked", "Dead"}
    BY DEF ChainSettled, Top
  <2>1. CASE v # w
    <3>1. Top(v)' = Top(v) /\ chain'[v] = chain[v] /\ pc'[v] = pc[v]
      BY <2>1, <1>6 DEF Top
    <3>2. \A u \in Range(chain[v]) : u # t /\ state'[u] = state[u]
      BY <2>1, <1>1, <1>5, <1>6, Listed DEF ChainSettled
    <3>3. pc[v] \in {"match", "ran"} => Top(v) \in Range(chain[v])
      BY TopInChain DEF IInv, AwakeInv, InRunOne
    <3> QED BY <3>1, <3>2, <3>3, <1>1 DEF ChainSettled
  <2>2. CASE v = w
    <3>1. Range(<<>>) = {} /\ IsInjective(<<>>)
      BY DEF Range, IsInjective
    <3> QED BY <2>2, <3>1, <1>6
  <2> QED BY <2>1, <2>2
<1>10. ReadyHeld(home)'
  <2>1. ASSUME NEW u \in Tasks, state'[u] = "Ready", ~Fresh(u)'
        PROVE  u \in Range(local[home[u]])
    <3>1. state[u] = "Ready"
      BY <2>1, <1>5, <1>6
    <3>2. ~Fresh(u)
      BY <2>1, <3>1, <1>6 DEF Fresh, New
    <3> QED BY <3>1, <3>2, <1>1 DEF ReadyHeld
  <2> QED BY <2>1, <1>6 DEF ReadyHeld
<1>11. WaitersSettled(home)'
  <2>1. \A u \in Tasks : \A x \in Range(waiters[u]) : state'[x] = state[x]
    BY <1>1, <1>7, Listed DEF WaitersSettled
  <2> QED BY <2>1, <1>1, <1>6 DEF WaitersSettled
<1>12. AwaitSettled(home)'
  <2>1. \A u \in Tasks : /\ state[u] # "unborn" => state'[u] # "unborn"
                         /\ state[u] \in {"Dead", "freed"} => state'[u] \in {"Dead", "freed"}
    BY <1>5, <1>6
  <2>2. \A u \in Tasks : at[u][1] = "awaited" => at[u][2] \in Tasks
    BY Listed
  <2> QED BY <2>1, <2>2, <1>1, <1>6 DEF AwaitSettled
<1>13. ParentSettled(home)'
  BY <1>1, <1>5, <1>6 DEF ParentSettled, New
<1> QED BY <1>8, <1>9, <1>10, <1>11, <1>12, <1>13 DEF Settled

\* A task switches out.
LEMMA SwitchSettled ==
  ASSUME IInv, NEW home \in Homes, Settled(home), NEW w \in Workers, pc[w] = "run",
         UNCHANGED <<local, chain, at, waiters, parent, state>>,
         pc' = [pc EXCEPT ![w] = "match"]
  PROVE  Settled(home)'
<1>1. /\ LocalSettled(home) /\ ChainSettled(home) /\ ReadyHeld(home)
      /\ WaitersSettled(home) /\ AwaitSettled(home) /\ ParentSettled(home)
  BY DEF Settled
<1>2. /\ \A v \in Workers : v # w => pc'[v] = pc[v]
      /\ pc'[w] = "match" /\ \A v \in Workers : Top(v)' = Top(v)
  BY Types DEF Top
<1>3. state[Top(w)] = "Running" /\ \A u \in Range(chain[w]) : state[u] = "Running"
  BY <1>1, OnTop DEF ChainSettled
<1>4. ChainSettled(home)'
  BY <1>1, <1>2, <1>3 DEF ChainSettled
<1>5. LocalSettled(home)' /\ ReadyHeld(home)'
  BY <1>1 DEF LocalSettled, ReadyHeld, Fresh, New
<1>6. WaitersSettled(home)' /\ AwaitSettled(home)' /\ ParentSettled(home)'
  BY <1>1 DEF WaitersSettled, AwaitSettled, ParentSettled, New
<1> QED BY <1>4, <1>5, <1>6 DEF Settled

\* A task goes on in its code; after an await it has freed the target.
LEMMA GoesSettled ==
  ASSUME IInv, NEW home \in Homes, Settled(home), NEW w \in Workers, pc[w] = "run",
         NEW place \in {"code", "drain"}, Goes(Top(w), place, None),
         UNCHANGED <<local, chain, pc, waiters>>,
         \A u \in Tasks : \/ state'[u] = state[u]
                          \/ /\ at[Top(w)][1] = "awaited" /\ u = at[Top(w)][2]
                             /\ state'[u] = "freed",
         \A u \in Tasks : parent'[u] \in {parent[u], None}
  PROVE  Settled(home)'
<1> DEFINE t == Top(w)
<1>1. /\ LocalSettled(home) /\ ChainSettled(home) /\ ReadyHeld(home)
      /\ WaitersSettled(home) /\ AwaitSettled(home) /\ ParentSettled(home)
  BY DEF Settled
<1>2. /\ t \in Tasks /\ at[t] # New /\ state[t] = "Running" /\ home[t] = w
      /\ \A u \in Tasks : t \notin Range(waiters[u])
  BY OnTop
<1>3. /\ \A u \in Tasks : u # t => at'[u] = at[u]
      /\ at'[t] = <<place, None>> /\ at'[t][1] # "awaited" /\ at'[t] # New
  BY <1>2, Types DEF Goes, New
<1> HIDE DEF t
<1>4. \A u \in Tasks : \/ state'[u] = state[u]
                       \/ /\ state[u] \in {"Dead", "freed"} /\ state'[u] = "freed"
                          /\ home[u] = w
  BY <1>1, <1>2, Listed DEF AwaitSettled, t
<1>5. LocalSettled(home)'
  BY <1>1, <1>4, Listed DEF LocalSettled
<1>6. ChainSettled(home)'
  <2>1. ASSUME NEW v \in Workers, NEW u \in Range(chain[v]) PROVE state'[u] = state[u]
    <3>1. u \in Tasks /\ home[u] = v
      BY <2>1, <1>1, Listed DEF ChainSettled
    <3>2. CASE v = w
      BY <3>1, <3>2, <2>1, <1>1, <1>4 DEF ChainSettled
    <3>3. CASE v # w
      BY <3>1, <3>3, <1>4
    <3> QED BY <3>2, <3>3
  <2>2. \A v \in Workers : pc[v] \in {"match", "ran"} => Top(v) \in Range(chain[v])
    BY TopInChain DEF IInv, AwakeInv, InRunOne
  <2>3. \A v \in Workers : Top(v)' = Top(v)
    BY DEF Top
  <2> QED BY <2>1, <2>2, <2>3, <1>1 DEF ChainSettled
<1>7. ReadyHeld(home)'
  <2>1. ASSUME NEW u \in Tasks, state'[u] = "Ready", ~Fresh(u)'
        PROVE  u \in Range(local[home[u]])
    <3>1. state[u] = "Ready" /\ u # t
      BY <2>1, <1>2, <1>4
    <3>2. ~Fresh(u)
      BY <2>1, <3>1, <1>3 DEF Fresh, New
    <3> QED BY <3>1, <3>2, <1>1 DEF ReadyHeld
  <2> QED BY <2>1 DEF ReadyHeld
<1>8. WaitersSettled(home)'
  <2>1. \A u \in Tasks : \A x \in Range(waiters[u]) : state'[x] = state[x] /\ at'[x] = at[x]
    BY <1>1, <1>2, <1>3, <1>4, Listed DEF WaitersSettled
  <2> QED BY <2>1, <1>1 DEF WaitersSettled
<1>9. AwaitSettled(home)'
  <2>1. \A u \in Tasks : /\ state[u] # "unborn" => state'[u] # "unborn"
                         /\ state[u] \in {"Dead", "freed"} => state'[u] \in {"Dead", "freed"}
    BY <1>4
  <2>2. \A u \in Tasks : at'[u][1] = "awaited" => at'[u] = at[u] /\ at[u][2] \in Tasks
    BY <1>3, Listed
  <2> QED BY <2>1, <2>2, <1>1 DEF AwaitSettled
<1>10. ParentSettled(home)'
  <2>1. ASSUME NEW u \in Tasks, parent'[u] # None
        PROVE  /\ u \in Children /\ state'[u] # "unborn"
               /\ home[u] = home[parent'[u]] /\ at'[parent'[u]] # New
    <3>1. parent'[u] = parent[u] /\ parent[u] \in Tasks
      BY <2>1, Types
    <3> QED BY <2>1, <3>1, <1>1, <1>3, <1>4 DEF ParentSettled
  <2> QED BY <2>1 DEF ParentSettled, New
<1> QED BY <1>5, <1>6, <1>7, <1>8, <1>9, <1>10 DEF Settled

\* A task returns from its function and wakes whoever waits for it.
LEMMA DieSettled ==
  ASSUME IInv, NEW home \in Homes, Settled(home), NEW w \in Workers, Die(w)
  PROVE  Settled(home)'
<1> USE DEF tasks
<1> DEFINE t == Top(w)
           W == Range(waiters[t])
<1>1. /\ LocalSettled(home) /\ ChainSettled(home) /\ ReadyHeld(home)
      /\ WaitersSettled(home) /\ AwaitSettled(home) /\ ParentSettled(home)
  BY DEF Settled
<1>2. pc[w] = "run" /\ at[t][1] = "code"
  BY DEF Die, Runs, WorkerAt
<1>3. /\ t \in Tasks /\ at[t] # New /\ state[t] = "Running" /\ home[t] = w
      /\ \A v \in Workers : t \notin Range(local[v])
      /\ \A v \in Workers : v # w => t \notin Range(chain[v])
      /\ \A u \in Tasks : t \notin Range(waiters[u])
  BY <1>2, OnTop
<1>4. waiters[t] \in Seq(Tasks) /\ local[w] \in Seq(Tasks)
  BY <1>3, Types
<1>5. /\ IsInjective(waiters[t]) /\ t \notin W
      /\ \A u \in W : /\ u \in Tasks /\ at[u] = <<"awaited", t>> /\ state[u] = "Blocked"
                      /\ home[u] = w /\ ~Fresh(u)
  BY <1>1, <1>3, Listed DEF WaitersSettled
<1>6. /\ state'[t] = "Dead"
      /\ \A u \in W : state'[u] = "Ready"
      /\ \A u \in Tasks : u # t /\ u \notin W => state'[u] = state[u]
  BY <1>3, <1>5 DEF Die
<1>7. /\ local'[w] = local[w] \o waiters[t]
      /\ \A v \in Workers : v # w => local'[v] = local[v]
      /\ waiters'[t] = <<>>
      /\ \A u \in Tasks : u # t => waiters'[u] = waiters[u]
      /\ pc'[w] = "match" /\ \A v \in Workers : v # w => pc'[v] = pc[v]
      /\ UNCHANGED <<at, parent, chain>>
  BY <1>3, Types DEF Die, Enqueued, SwitchOut, WorkerTo
<1>8. t = Top(w) /\ W = Range(waiters[t])
  OBVIOUS
<1> HIDE DEF t, W
<1>9. /\ Range(local'[w]) = Range(local[w]) \cup W /\ IsInjective(local'[w])
  <2>1. Range(local[w]) \cap W = {}
    BY <1>1, <1>5 DEF LocalSettled
  <2> QED BY <2>1, <1>1, <1>4, <1>5, <1>7, <1>8, RangeConcat, InjectiveConcat
          DEF LocalSettled
<1>10. LocalSettled(home)'
  <2>1. ASSUME NEW v \in Workers, NEW u \in Range(local'[v])
        PROVE  home[u] = v /\ state'[u] = "Ready"
    <3>1. CASE u \in W
      <4>1. v = w
        <5>1. u \in Range(local[v]) => state[u] = "Ready"
          BY <1>1 DEF LocalSettled
        <5> QED BY <2>1, <3>1, <5>1, <1>5, <1>7
      <4> QED BY <3>1, <4>1, <1>5, <1>6
    <3>2. CASE u \notin W
      <4>1. u \in Range(local[v]) /\ u # t
        BY <2>1, <3>2, <1>3, <1>7, <1>9
      <4> QED BY <4>1, <3>2, <1>1, <1>6, Listed DEF LocalSettled
    <3> QED BY <3>1, <3>2
  <2>2. \A v \in Workers : IsInjective(local'[v])
    BY <1>1, <1>7, <1>9 DEF LocalSettled
  <2> QED BY <2>1, <2>2 DEF LocalSettled
<1>11. ChainSettled(home)'
  <2> SUFFICES ASSUME NEW v \in Workers
               PROVE  /\ IsInjective(chain[v])
                      /\ \A u \in Range(chain[v]) :
                           /\ home[u] = v
                           /\ pc'[v] = "run" \/ u # Top(v) => state'[u] = "Running"
                      /\ pc'[v] = "match" => state'[Top(v)] \in {"Running", "Blocked", "Dead"}
                      /\ pc'[v] = "ran" => state'[Top(v)] \in {"Ready", "Blocked", "Dead"}
    <3>1. \A v \in Workers : Top(v)' = Top(v)
      BY <1>7 DEF Top
    <3> QED BY <3>1, <1>7 DEF ChainSettled
  <2>1. CASE v # w
    <3>1. \A u \in Range(chain[v]) : home[u] = v /\ u \in Tasks /\ u # t /\ u \notin W
      BY <2>1, <1>1, <1>3, <1>5, Listed DEF ChainSettled
    <3>2. pc[v] \in {"match", "ran"} => Top(v) \in Range(chain[v])
      BY TopInChain DEF IInv, AwakeInv, InRunOne
    <3> QED BY <2>1, <3>1, <3>2, <1>1, <1>6, <1>7 DEF ChainSettled
  <2>2. CASE v = w
    <3>1. \A u \in Range(chain[w]) : state[u] = "Running" /\ u \in Tasks /\ u \notin W
      BY <1>1, <1>2, <1>5, Listed DEF ChainSettled
    <3> QED BY <2>2, <3>1, <1>1, <1>6, <1>7, <1>8 DEF ChainSettled
  <2> QED BY <2>1, <2>2
<1>12. ReadyHeld(home)'
  <2>1. ASSUME NEW u \in Tasks, state'[u] = "Ready", ~Fresh(u)'
        PROVE  u \in Range(local'[home[u]])
    <3>1. CASE u \in W
      BY <3>1, <1>5, <1>9
    <3>2. CASE u \notin W
      <4>1. state[u] = "Ready"
        BY <2>1, <3>2, <1>6
      <4>2. ~Fresh(u)
        BY <2>1, <4>1, <1>7 DEF Fresh, New
      <4>3. u \in Range(local[home[u]])
        BY <4>1, <4>2, <1>1 DEF ReadyHeld
      <4> QED BY <4>3, <1>7, <1>9 DEF Homes
    <3> QED BY <3>1, <3>2
  <2> QED BY <2>1 DEF ReadyHeld
<1>13. WaitersSettled(home)'
  <2>1. ASSUME NEW u \in Tasks
        PROVE  /\ IsInjective(waiters'[u])
               /\ \A x \in Range(waiters'[u]) :
                    at[x] = <<"awaited", u>> /\ state'[x] = "Blocked" /\ home[x] = home[u]
    <3>1. CASE u = t
      <4>1. Range(<<>>) = {} /\ IsInjective(<<>>)
        BY DEF Range, IsInjective
      <4> QED BY <3>1, <4>1, <1>7
    <3>2. CASE u # t
      <4>1. \A x \in Range(waiters[u]) :
              x \in Tasks /\ x # t /\ at[x] = <<"awaited", u>> /\ x \notin W
        BY <3>2, <1>1, <1>3, <1>5, Listed DEF WaitersSettled
      <4> QED BY <3>2, <4>1, <1>1, <1>6, <1>7 DEF WaitersSettled
    <3> QED BY <3>1, <3>2
  <2> QED BY <2>1, <1>7 DEF WaitersSettled
<1>14. AwaitSettled(home)'
  <2>1. \A u \in Tasks : state[u] # "unborn" => state'[u] # "unborn"
    BY <1>6
  <2>2. \A u \in Tasks : state[u] \in {"Dead", "freed"} => u # t /\ u \notin W
    BY <1>3, <1>5
  <2>3. ASSUME NEW x \in Tasks, at[x][1] = "awaited"
        PROVE  /\ home[at[x][2]] = home[x] /\ state'[at[x][2]] # "unborn"
               /\ x \in Range(waiters'[at[x][2]]) \/ state'[at[x][2]] \in {"Dead", "freed"}
    BY <2>1, <2>2, <2>3, <1>1, <1>6, <1>7, Listed DEF AwaitSettled
  <2> QED BY <2>3, <1>7 DEF AwaitSettled
<1>15. ParentSettled(home)'
  <2>1. \A u \in Tasks : state[u] # "unborn" => state'[u] # "unborn"
    BY <1>6
  <2> QED BY <2>1, <1>1, <1>7 DEF ParentSettled, New
<1> QED BY <1>10, <1>11, <1>12, <1>13, <1>14, <1>15 DEF Settled

\* A task spawns a child, which is at home where it is.
LEMMA SpawnSettled ==
  ASSUME IInv, NEW home \in Homes, Settled(home), NEW w \in Workers, Spawn(w)
  PROVE  \E h \in Homes : Settled(h)'
<1> DEFINE t == Top(w)
<1>1. /\ LocalSettled(home) /\ ChainSettled(home) /\ ReadyHeld(home)
      /\ WaitersSettled(home) /\ AwaitSettled(home) /\ ParentSettled(home)
  BY DEF Settled
<1>2. pc[w] = "run"
  BY DEF Spawn, Does, Runs, WorkerAt
<1>3. t \in Tasks /\ at[t] # New /\ state[t] = "Running" /\ home[t] = w
  BY <1>2, OnTop
<1>4. PICK u \in Children : /\ state[u] = "unborn"
                            /\ state' = [state EXCEPT ![u] = "Ready"]
                            /\ parent' = [parent EXCEPT ![u] = t]
                            /\ Enqueued(w, <<u>>)
  BY DEF Spawn
<1>5. /\ u \in Tasks /\ at[u] = New
      /\ state'[u] = "Ready" /\ \A x \in Tasks : x # u => state'[x] = state[x]
      /\ parent'[u] = t /\ \A x \in Tasks : x # u => parent'[x] = parent[x]
      /\ local'[w] = local[w] \o <<u>>
      /\ \A v \in Workers : v # w => local'[v] = local[v]
      /\ UNCHANGED <<at, waiters, chain, pc>>
  <2>1. u \in Tasks /\ at[u] = New
    BY <1>4, Listed
  <2>2. UNCHANGED <<at, waiters, chain, pc>>
    BY DEF Spawn, Stays
  <2>3. /\ state'[u] = "Ready" /\ \A x \in Tasks : x # u => state'[x] = state[x]
        /\ parent'[u] = t /\ \A x \in Tasks : x # u => parent'[x] = parent[x]
    BY <2>1, <1>4, Types
  <2>4. /\ local'[w] = local[w] \o <<u>>
        /\ \A v \in Workers : v # w => local'[v] = local[v]
    BY <1>4, Types DEF Enqueued
  <2> QED BY <2>1, <2>2, <2>3, <2>4
<1> HIDE DEF t
<1>6. /\ \A v \in Workers : u \notin Range(local[v]) /\ u \notin Range(chain[v])
      /\ \A y \in Tasks : u \notin Range(waiters[y])
      /\ \A x \in Tasks : at[x][1] = "awaited" => x # u /\ at[x][2] # u
      /\ \A x \in Tasks : parent[x] # None => parent[x] # u
  BY <1>1, <1>4, <1>5, Listed DEF LocalSettled, WaitersSettled, AwaitSettled, ParentSettled
<1>7. Range(local'[w]) = Range(local[w]) \cup {u} /\ IsInjective(local'[w])
  <2>1. <<u>> \in Seq(Tasks) /\ Range(<<u>>) = {u} /\ IsInjective(<<u>>)
    BY <1>5 DEF Range, IsInjective
  <2>2. local[w] \in Seq(Tasks) /\ IsInjective(local[w]) /\ u \notin Range(local[w])
    BY <1>1, <1>6, Types DEF LocalSettled
  <2>3. Range(local[w]) \cap Range(<<u>>) = {}
    BY <2>1, <2>2
  <2>4. /\ Range(local[w] \o <<u>>) = Range(local[w]) \cup {u}
        /\ IsInjective(local[w] \o <<u>>)
    <3> DEFINE r == <<u>>
    <3>1. r \in Seq(Tasks) /\ Range(r) = {u} /\ IsInjective(r)
          /\ Range(local[w]) \cap Range(r) = {}
      BY <2>1, <2>3
    <3> HIDE DEF r
    <3>2. Range(local[w] \o r) = Range(local[w]) \cup Range(r)
      BY <2>2, <3>1, RangeConcat
    <3>3. IsInjective(local[w] \o r)
      BY <2>2, <3>1, InjectiveConcat
    <3> QED BY <3>1, <3>2, <3>3 DEF r
  <2> QED BY <2>4, <1>5
<1>8. PICK h \in Homes : h[u] = w /\ \A x \in Tasks : x # u => h[x] = home[x]
  <2>1. [home EXCEPT ![u] = w] \in Homes
    BY DEF Homes
  <2> QED BY <2>1, <1>5 DEF Homes
<1>9. LocalSettled(h)'
  <2>1. ASSUME NEW v \in Workers, NEW x \in Range(local'[v])
        PROVE  h[x] = v /\ state'[x] = "Ready"
    <3>1. CASE x = u
      <4>1. v = w
        BY <2>1, <3>1, <1>5, <1>6
      <4> QED BY <3>1, <4>1, <1>5, <1>8
    <3>2. CASE x # u
      <4>1. x \in Range(local[v])
        BY <2>1, <3>2, <1>5, <1>7
      <4> QED BY <4>1, <3>2, <1>1, <1>5, <1>8, Listed DEF LocalSettled
    <3> QED BY <3>1, <3>2
  <2>2. \A v \in Workers : IsInjective(local'[v])
    BY <1>1, <1>5, <1>7 DEF LocalSettled
  <2> QED BY <2>1, <2>2 DEF LocalSettled
<1>10. ChainSettled(h)'
  <2>1. \A v \in Workers : \A x \in Range(chain[v]) : h[x] = home[x] /\ state'[x] = state[x]
    BY <1>5, <1>6, <1>8, Listed
  <2>2. \A v \in Workers : pc[v] \in {"match", "ran"} => Top(v) \in Range(chain[v])
    BY TopInChain DEF IInv, AwakeInv, InRunOne
  <2>3. \A v \in Workers : Top(v)' = Top(v)
    BY <1>5 DEF Top
  <2> QED BY <2>1, <2>2, <2>3, <1>1, <1>5 DEF ChainSettled
<1>11. ReadyHeld(h)'
  <2>1. ASSUME NEW x \in Tasks, state'[x] = "Ready", ~Fresh(x)'
        PROVE  x \in Range(local'[h[x]])
    <3>1. CASE x = u
      BY <3>1, <1>7, <1>8
    <3>2. CASE x # u
      <4>1. state[x] = "Ready" /\ ~Fresh(x) /\ h[x] = home[x]
        BY <2>1, <3>2, <1>5, <1>8 DEF Fresh, New
      <4>2. x \in Range(local[home[x]])
        BY <4>1, <1>1 DEF ReadyHeld
      <4>3. home[x] \in Workers
        BY DEF Homes
      <4>4. x \in Range(local'[home[x]])
        BY <4>2, <4>3, <1>5, <1>7
      <4> QED BY <4>1, <4>4
    <3> QED BY <3>1, <3>2
  <2> QED BY <2>1 DEF ReadyHeld
<1>12. WaitersSettled(h)'
  <2>1. ASSUME NEW y \in Tasks, NEW x \in Range(waiters[y])
        PROVE  at[x] = <<"awaited", y>> /\ state'[x] = "Blocked" /\ h[x] = h[y]
    <3>1. /\ x \in Tasks /\ x # u /\ at[x] = <<"awaited", y>> /\ state[x] = "Blocked"
          /\ home[x] = home[y]
      BY <1>1, <1>6, Listed DEF WaitersSettled
    <3>2. y # u
      BY <3>1, <1>6
    <3> QED BY <3>1, <3>2, <1>5, <1>8
  <2> QED BY <2>1, <1>1, <1>5 DEF WaitersSettled
<1>13. AwaitSettled(h)'
  <2>1. ASSUME NEW x \in Tasks, at[x][1] = "awaited"
        PROVE  /\ h[at[x][2]] = h[x] /\ state'[at[x][2]] = state[at[x][2]]
               /\ home[at[x][2]] = home[x]
    BY <2>1, <1>1, <1>5, <1>6, <1>8, Listed DEF AwaitSettled
  <2> QED BY <2>1, <1>1, <1>5 DEF AwaitSettled
<1>14. ParentSettled(h)'
  <2>1. ASSUME NEW x \in Tasks, parent'[x] # None
        PROVE  /\ x \in Children /\ state'[x] # "unborn"
               /\ h[x] = h[parent'[x]] /\ at[parent'[x]] # New
    <3>1. CASE x = u
      BY <3>1, <1>3, <1>5, <1>8
    <3>2. CASE x # u
      <4>1. /\ parent'[x] = parent[x] /\ parent[x] # None /\ parent[x] # u
            /\ parent[x] \in Tasks
        BY <2>1, <3>2, <1>5, <1>6, Types
      <4> QED BY <4>1, <3>2, <1>1, <1>5, <1>8 DEF ParentSettled
    <3> QED BY <3>1, <3>2
  <2> QED BY <2>1, <1>5 DEF ParentSettled, New
<1>15. Settled(h)'
  BY <1>9, <1>10, <1>11, <1>12, <1>13, <1>14 DEF Settled
<1> QED BY <1>15

\* A task awaits a child: it goes on if the child has died, or waits for it.
LEMMA AwaitsSettled ==
  ASSUME IInv, NEW home \in Homes, Settled(home), NEW w \in Workers, Await(w)
  PROVE  Settled(home)'
<1> DEFINE t == Top(w)
<1>1. /\ LocalSettled(home) /\ ChainSettled(home) /\ ReadyHeld(home)
      /\ WaitersSettled(home) /\ AwaitSettled(home) /\ ParentSettled(home)
  BY DEF Settled
<1>2. pc[w] = "run" /\ at[t][1] = "code"
  BY DEF Await, Does, Runs, WorkerAt
<1>3. /\ t \in Tasks /\ at[t] # New /\ state[t] = "Running" /\ home[t] = w
      /\ \A v \in Workers : t \notin Range(local[v])
      /\ \A v \in Workers : v # w => t \notin Range(chain[v])
      /\ \A u \in Tasks : t \notin Range(waiters[u])
  BY <1>2, OnTop
<1>4. PICK u \in Children :
        /\ parent[u] = t /\ Goes(t, "awaited", u)
        /\ \/ state[u] = "Dead" /\ Stays(w) /\ UNCHANGED <<state, waiters>>
           \/ /\ waiters' = [waiters EXCEPT ![u] = Append(@, t)]
              /\ state' = [state EXCEPT ![t] = "Blocked"]
              /\ SwitchOut(w)
  BY DEF Await
<1>5. t = Top(w)
  OBVIOUS
<1> HIDE DEF t
<1>6. /\ u \in Tasks /\ home[u] = w /\ state[u] # "unborn" /\ t # None
  BY <1>1, <1>3, <1>4, TasksAssumption DEF ParentSettled, Tasks
<1>7. /\ at'[t] = <<"awaited", u>> /\ at'[t] # New
      /\ \A x \in Tasks : x # t => at'[x] = at[x] /\ state'[x] = state[x]
      /\ UNCHANGED <<local, parent, chain>>
      /\ \A v \in Workers : v # w => pc'[v] = pc[v]
      /\ \A y \in Tasks : y # u => waiters'[y] = waiters[y]
      /\ \/ /\ state[u] = "Dead" /\ pc'[w] = "run" /\ state'[t] = "Running"
            /\ waiters'[u] = waiters[u]
         \/ /\ pc'[w] = "match" /\ state'[t] = "Blocked"
            /\ waiters'[u] = Append(waiters[u], t)
  <2>1. at'[t] = <<"awaited", u>> /\ \A x \in Tasks : x # t => at'[x] = at[x]
    BY <1>3, <1>4, Types DEF Goes
  <2>2. UNCHANGED <<local, parent>>
    BY DEF Await
  <2>3. CASE state[u] = "Dead" /\ Stays(w) /\ UNCHANGED <<state, waiters>>
    BY <2>1, <2>2, <2>3, <1>2, <1>3 DEF Stays, New
  <2>4. CASE /\ waiters' = [waiters EXCEPT ![u] = Append(@, t)]
             /\ state' = [state EXCEPT ![t] = "Blocked"]
             /\ SwitchOut(w)
    BY <2>1, <2>2, <2>4, <1>3, <1>6, Types DEF SwitchOut, WorkerTo, New
  <2> QED BY <2>3, <2>4, <1>4
<1>8. LocalSettled(home)'
  BY <1>1, <1>3, <1>7, Listed DEF LocalSettled
<1>9. ChainSettled(home)'
  <2>1. \A v \in Workers : Top(v)' = Top(v)
    BY <1>7 DEF Top
  <2>2. \A v \in Workers : v # w => \A x \in Range(chain[v]) : state'[x] = state[x]
    BY <1>3, <1>7, Listed
  <2>3. \A x \in Range(chain[w]) : state[x] = "Running" /\ (x # t => state'[x] = "Running")
    BY <1>1, <1>2, <1>7, Listed DEF ChainSettled
  <2>4. \A v \in Workers : pc[v] \in {"match", "ran"} => Top(v) \in Range(chain[v])
    BY TopInChain DEF IInv, AwakeInv, InRunOne
  <2> SUFFICES ASSUME NEW v \in Workers
               PROVE  /\ IsInjective(chain[v])
                      /\ \A x \in Range(chain[v]) :
                           /\ home[x] = v
                           /\ pc'[v] = "run" \/ x # Top(v) => state'[x] = "Running"
                      /\ pc'[v] = "match" => state'[Top(v)] \in {"Running", "Blocked", "Dead"}
                      /\ pc'[v] = "ran" => state'[Top(v)] \in {"Ready", "Blocked", "Dead"}
    BY <2>1, <1>7 DEF ChainSettled
  <2>5. CASE v # w
    BY <2>2, <2>4, <2>5, <1>1, <1>7 DEF ChainSettled
  <2>6. CASE v = w
    BY <2>3, <2>6, <1>1, <1>5, <1>7 DEF ChainSettled
  <2> QED BY <2>5, <2>6
<1>10. ReadyHeld(home)'
  <2>1. ASSUME NEW x \in Tasks, state'[x] = "Ready", ~Fresh(x)'
        PROVE  x \in Range(local[home[x]])
    <3>1. x # t /\ state[x] = "Ready" /\ ~Fresh(x)
      BY <2>1, <1>7 DEF Fresh, New
    <3> QED BY <3>1, <1>1 DEF ReadyHeld
  <2> QED BY <2>1, <1>7 DEF ReadyHeld
<1>11. WaitersSettled(home)'
  <2>1. /\ waiters[u] \in Seq(Tasks) /\ IsInjective(waiters[u])
        /\ Range(Append(waiters[u], t)) = Range(waiters[u]) \cup {t}
        /\ IsInjective(Append(waiters[u], t))
    BY <1>1, <1>3, <1>6, Types, RangeAppend DEF WaitersSettled
  <2>2. ASSUME NEW y \in Tasks, NEW x \in Range(waiters[y])
        PROVE  at'[x] = <<"awaited", y>> /\ state'[x] = "Blocked" /\ home[x] = home[y]
    BY <1>1, <1>3, <1>7, Listed DEF WaitersSettled
  <2>3. ASSUME NEW y \in Tasks
        PROVE  /\ IsInjective(waiters'[y])
               /\ \A x \in Range(waiters'[y]) :
                    at'[x] = <<"awaited", y>> /\ state'[x] = "Blocked" /\ home[x] = home[y]
    <3>1. CASE waiters'[y] = waiters[y]
      BY <3>1, <2>2, <1>1 DEF WaitersSettled
    <3>2. CASE y = u /\ waiters'[u] = Append(waiters[u], t) /\ state'[t] = "Blocked"
      BY <3>2, <2>1, <2>2, <1>3, <1>6, <1>7
    <3> QED BY <3>1, <3>2, <1>7
  <2> QED BY <2>3 DEF WaitersSettled
<1>12. AwaitSettled(home)'
  <2>1. ASSUME NEW x \in Tasks, at'[x][1] = "awaited"
        PROVE  /\ home[at'[x][2]] = home[x] /\ state'[at'[x][2]] # "unborn"
               /\ x \in Range(waiters'[at'[x][2]]) \/ state'[at'[x][2]] \in {"Dead", "freed"}
    <3>1. state'[u] # "unborn"
      BY <1>6, <1>7
    <3>2. t \in Range(Append(waiters[u], t)) /\ Range(waiters[u]) \subseteq Range(Append(waiters[u], t))
      BY <1>3, <1>6, Types, RangeAppend
    <3>3. CASE x = t
      <4>1. at'[x][2] = u
        BY <3>3, <1>7
      <4>2. CASE state[u] = "Dead"
        <5>1. u # t
          BY <4>2, <1>3
        <5> QED BY <3>1, <3>3, <4>1, <4>2, <5>1, <1>3, <1>6, <1>7
      <4>3. CASE waiters'[u] = Append(waiters[u], t)
        BY <3>1, <3>2, <3>3, <4>1, <4>3, <1>3, <1>6
      <4> QED BY <4>2, <4>3, <1>7
    <3>4. CASE x # t
      <4> DEFINE y == at[x][2]
      <4>1. /\ at'[x] = at[x] /\ y \in Tasks /\ home[y] = home[x] /\ state[y] # "unborn"
            /\ x \in Range(waiters[y]) \/ state[y] \in {"Dead", "freed"}
        BY <2>1, <3>4, <1>1, <1>7, Listed DEF AwaitSettled
      <4> HIDE DEF y
      <4>2. state'[y] # "unborn" /\ (state[y] \in {"Dead", "freed"} => state'[y] = state[y])
        BY <4>1, <1>3, <1>7
      <4>3. Range(waiters[y]) \subseteq Range(waiters'[y])
        BY <3>2, <4>1, <1>7
      <4> QED BY <4>1, <4>2, <4>3 DEF y
    <3> QED BY <3>3, <3>4
  <2> QED BY <2>1 DEF AwaitSettled
<1>13. ParentSettled(home)'
  <2>1. \A x \in Tasks : /\ state[x] # "unborn" => state'[x] # "unborn"
                         /\ at[x] # New => at'[x] # New
    BY <1>7
  <2>2. \A x \in Tasks : parent[x] # None => parent[x] \in Tasks
    BY Types
  <2> QED BY <2>1, <2>2, <1>1, <1>7 DEF ParentSettled, New
<1> QED BY <1>8, <1>9, <1>10, <1>11, <1>12, <1>13 DEF Settled

----------------------------------------------------------------------------
(* Every task has a home, always.                                          *)

LEMMA ClientHomes ==
  ASSUME IInv, NEW home \in Homes, Settled(home), NEW c \in Clients,
         CallStep(c) \/ ClientStep(c)
  PROVE  Settled(home)'
<1> USE DEF workers, tasks
<1>1. UNCHANGED <<local, chain, at, waiters, parent, pc>>
  BY DEF CallStep, ClientStep, Submit, Scan, Push, Unpark, CallWait, WaitReturns,
         Shutdown, WakeAll, Join
<1>2. ASSUME NEW t \in Tasks, state'[t] # state[t]
      PROVE  t \in PoolTasks /\ at[t] = New /\ (Fresh(t)' \/ state'[t] = "freed")
  <2>1. CASE Submit(c)
    <3>1. PICK u \in PoolTasks :
            state[u] = "unborn" /\ state' = [state EXCEPT ![u] = "Ready"]
      BY <2>1 DEF Submit
    <3>2. t = u /\ state'[t] = "Ready"
      BY <3>1, <1>2, Types
    <3>3. at[t] = New
      BY <3>1, <3>2, Listed
    <3> QED BY <3>2, <3>3, <1>1 DEF Fresh, New
  <2>2. CASE Join(c)
    <3>1. state'[t] = "freed" /\ \E w \in Workers : t \in Range(queues[w])
      BY <2>2, <1>2 DEF Join
    <3>2. Fresh(t)
      BY <3>1 DEF IInv, HandsHoldFresh
    <3> QED BY <3>1, <3>2 DEF Fresh
  <2>3. CASE ~(Submit(c) \/ Join(c))
    BY <2>3, <1>2 DEF CallStep, ClientStep, Scan, Push, Unpark, CallWait,
                      WaitReturns, Shutdown, WakeAll
  <2> QED BY <2>1, <2>2, <2>3
<1> QED BY <1>1, <1>2, SettledKept

LEMMA LoopHomes ==
  ASSUME IInv, ReclaimInv, NEW home \in Homes, Settled(home), NEW w \in Workers,
         LoopStep(w) \/ TimesOut(w)
  PROVE  \E h \in Homes : Settled(h)'
<1> USE DEF workers, tasks
<1>1. StacksRun /\ pc \in [Workers -> Places] /\ HandsHoldFresh
  BY Types DEF ReclaimInv, IInv
<1>2. CASE \/ Look(w) \/ NothingOwn(w) \/ Steal(w) \/ NothingThere(w)
           \/ Stash(w) \/ Unparked(w) \/ TimesOut(w)
  <2>1. UNCHANGED <<local, chain, at, waiters, parent, state>>
    BY <1>2 DEF Look, NothingOwn, Steal, NothingThere, Stash, Unparked, TimesOut
  <2>2. /\ pc[w] \notin {"run", "match", "ran"} /\ pc'[w] \notin {"match", "ran"}
        /\ \A v \in Workers : v # w => pc'[v] = pc[v]
    BY <1>2, <1>1 DEF Look, NothingOwn, Steal, NothingThere, Stash, Unparked,
                      TimesOut, Probes, WorkerAt, WorkerTo
  <2>3. chain[w] = <<>>
    BY <2>2, <1>1, NoStack
  <2>4. Settled(home)'
    BY <2>1, <2>2, <2>3, SettledKept
  <2> QED BY <2>4
<1>3. CASE TakeOwn(w)
  <2>1. PICK t : t = Head(queues[w]) /\ t \in Range(queues[w]) /\ t \in Tasks
    BY <1>3, RangeTail, Types DEF TakeOwn
  <2>2. Fresh(t) /\ state[t] = "Ready"
    BY <2>1, <1>1 DEF HandsHoldFresh, Fresh
  <2>3. PICK h \in Homes : h = [home EXCEPT ![t] = w]
    BY DEF Homes
  <2>4. pc[w] = "own" /\ RunOne(w, t) /\ UNCHANGED <<waiters, parent, local>>
    BY <1>3, <2>1 DEF TakeOwn, WorkerAt
  <2>5. Settled(h)'
    BY <2>1, <2>2, <2>3, <2>4, RunOneSettled
  <2> QED BY <2>5
<1>4. CASE TakeLocal(w)
  <2>1. Head(local[w]) \in Tasks /\ Head(local[w]) \in Range(local[w]) /\ local[w] # <<>>
    BY <1>4, RangeTail, Types DEF TakeLocal
  <2>2. state[Head(local[w])] = "Ready"
    BY <2>1 DEF Settled, LocalSettled
  <2>3. /\ pc[w] = "own" /\ RunOne(w, Head(local[w])) /\ UNCHANGED <<waiters, parent>>
        /\ local' = [local EXCEPT ![w] = Tail(@)]
    BY <1>4 DEF TakeLocal, WorkerAt
  <2>4. Settled(home)'
    BY <2>1, <2>2, <2>3, RunOneSettled
  <2> QED BY <2>4
<1> QED BY <1>2, <1>3, <1>4, MatchSettled, ReapSettled DEF LoopStep

LEMMA TaskHomes ==
  ASSUME NoListen, IInv, ReclaimInv, NobodyListens, NEW home \in Homes, Settled(home),
         NEW w \in Workers, TaskStep(w)
  PROVE  \E h \in Homes : Settled(h)'
<1> USE DEF tasks
<1>1. pc[w] = "run"
  BY TasksKeepFresh
<1>2. Top(w) \in Tasks
  BY <1>1, OnTop
<1>3. ~Listen(w) /\ ~MarkBlocked(w) /\ ~Leave(w) /\ ~Wake(w)
  BY <1>2 DEF NoListen, NobodyListens, Listen, MarkBlocked, Leave, Wake, Does, Runs
<1>4. CASE Yield(w)
  BY <1>1, <1>4, SwitchSettled DEF Yield, SwitchOut, WorkerTo
<1>5. CASE Drain(w) \/ DrainReturns(w)
  <2>1. /\ Goes(Top(w), "drain", None) \/ Goes(Top(w), "code", None)
        /\ UNCHANGED <<local, chain, pc, waiters, state, parent>>
    BY <1>5 DEF Drain, DrainReturns, Stays
  <2> QED BY <2>1, <1>1, GoesSettled
<1>6. CASE Consume(w)
  <2>1. /\ Goes(Top(w), "code", None) /\ UNCHANGED <<local, chain, pc, waiters>>
        /\ at[Top(w)][1] = "awaited"
    BY <1>6 DEF Consume, Stays, Runs
  <2>2. \A u \in Tasks : \/ state'[u] = state[u]
                         \/ u = at[Top(w)][2] /\ state'[u] = "freed"
    BY <1>6, Types DEF Consume
  <2>3. \A u \in Tasks : parent'[u] \in {parent[u], None}
    BY <1>6, Types DEF Consume
  <2> QED BY <2>1, <2>2, <2>3, <1>1, GoesSettled
<1>7. CASE DrainDispatch(w)
  <2>1. Head(local[w]) \in Tasks /\ Head(local[w]) \in Range(local[w]) /\ local[w] # <<>>
    BY <1>7, RangeTail, Types DEF DrainDispatch
  <2>2. state[Head(local[w])] = "Ready"
    BY <2>1 DEF Settled, LocalSettled
  <2>3. /\ RunOne(w, Head(local[w])) /\ UNCHANGED <<waiters, parent>>
        /\ local' = [local EXCEPT ![w] = Tail(@)]
    BY <1>7 DEF DrainDispatch
  <2>4. Settled(home)'
    BY <2>1, <2>2, <2>3, <1>1, RunOneSettled
  <2> QED BY <2>4
<1> QED BY <1>3, <1>4, <1>5, <1>6, <1>7, DieSettled, SpawnSettled, AwaitsSettled
        DEF TaskStep

\* Nobody gets onto a channel's wait list if no task listens.
LEMMA StillNobodyListens ==
  ASSUME NoListen, IInv, NobodyListens, Next
  PROVE  NobodyListens'
<1> USE DEF workers, tasks
<1>1. at \in [Tasks -> Steps] /\ local \in [Workers -> Seq(Tasks)]
      /\ queues \in [Workers -> Seq(Tasks)]
  BY Types
<1>2. ASSUME NEW t \in Tasks, NEW w \in Workers, RunOne(w, t), UNCHANGED listeners
      PROVE  NobodyListens'
  <2>1. at'[t] = Resumed(at[t]) /\ \A u \in Tasks : u # t => at'[u] = at[u]
    BY <1>1, <1>2 DEF RunOne
  <2>2. at'[t][1] \notin {"listed", "blocked"}
    BY <2>1 DEF NobodyListens, Resumed, Code
  <2> QED BY <2>1, <2>2, <1>2 DEF NobodyListens
<1>3. ASSUME NEW w \in Workers, LoopStep(w) \/ TimesOut(w) PROVE NobodyListens'
  <2>1. CASE TakeOwn(w)
    BY <2>1, <1>1, <1>2, HeadAndTail DEF TakeOwn
  <2>2. CASE TakeLocal(w)
    BY <2>2, <1>1, <1>2, HeadAndTail DEF TakeLocal
  <2>3. CASE ~(TakeOwn(w) \/ TakeLocal(w))
    <3>1. UNCHANGED <<at, listeners>>
      BY <2>3, <1>3 DEF LoopStep, Look, NothingOwn, Steal, NothingThere, Stash,
                        Unparked, Match, Reap, TimesOut
    <3> QED BY <3>1 DEF NobodyListens
  <2> QED BY <2>1, <2>2, <2>3
<1>4. ASSUME NEW c \in Clients, CallStep(c) \/ ClientStep(c) PROVE NobodyListens'
  BY <1>4 DEF NobodyListens, CallStep, ClientStep, Submit, Scan, Push, Unpark, CallWait,
              WaitReturns, Shutdown, WakeAll, Join
<1>5. ASSUME NEW w \in Workers, TaskStep(w) PROVE NobodyListens'
  <2>1. Top(w) \in Tasks
    BY <1>5, TasksKeepFresh, TopInChain DEF IInv, AwakeInv, InRunOne
  <2>2. ~Listen(w) /\ ~MarkBlocked(w) /\ ~Leave(w) /\ ~Wake(w)
    BY <2>1 DEF NoListen, NobodyListens, Listen, MarkBlocked, Leave, Wake, Does, Runs
  <2>3. CASE DrainDispatch(w)
    BY <2>3, <1>1, <1>2, HeadAndTail DEF DrainDispatch
  <2>4. CASE ~DrainDispatch(w)
    <3>1. /\ UNCHANGED listeners
          /\ at' = at \/ \E place \in {"code", "awaited", "drain"} : \E arg :
                           at' = [at EXCEPT ![Top(w)] = <<place, arg>>]
      BY <2>2, <2>4, <1>5 DEF TaskStep, Yield, Die, Spawn, Await, Consume, Drain,
                              DrainReturns, Goes
    <3>2. ASSUME NEW place \in {"code", "awaited", "drain"}, NEW arg,
                 at' = [at EXCEPT ![Top(w)] = <<place, arg>>]
          PROVE  \A t \in Tasks : at'[t] = at[t] \/ at'[t] = <<place, arg>>
      BY <3>2, <2>1, <1>1
    <3>3. \A t \in Tasks : \/ at'[t] = at[t]
                           \/ \E place \in {"code", "awaited", "drain"} : \E arg :
                                at'[t] = <<place, arg>>
      BY <3>1, <3>2
    <3> QED BY <3>1, <3>3 DEF NobodyListens
  <2> QED BY <2>3, <2>4
<1> QED BY <1>3, <1>4, <1>5 DEF Next

LEMMA InitHomes == Init => HomeInv
<1> SUFFICES ASSUME Init PROVE HomeInv
  OBVIOUS
<1> DEFINE home == [t \in Tasks |-> 0]
<1>1. home \in Homes
  BY WorkersAssumption DEF Homes, Workers
<1>2. Range(<<>>) = {} /\ IsInjective(<<>>)
  BY DEF Range, IsInjective
<1>3. LocalSettled(home) /\ ChainSettled(home) /\ ReadyHeld(home)
  BY <1>2 DEF Init, LocalSettled, ChainSettled, ReadyHeld
<1>4. WaitersSettled(home) /\ AwaitSettled(home) /\ ParentSettled(home)
  BY <1>2 DEF Init, WaitersSettled, AwaitSettled, ParentSettled, New
<1>5. NobodyListens
  BY DEF Init, NobodyListens, New
<1>6. Settled(home)
  BY <1>3, <1>4 DEF Settled
<1> QED BY <1>1, <1>5, <1>6 DEF HomeInv

\* If no task listens, every task has a home at which all that refers to it
\* is: what keeps a task that has started from being on two workers.
THEOREM AtHome ==
  ASSUME NoListen
  PROVE  Spec => [](IInv /\ ReclaimInv /\ HomeInv)
<1>1. Init => HomeInv
  BY InitHomes
<1>2. IInv /\ ReclaimInv /\ HomeInv /\ [Next]_vars => HomeInv'
  <2> SUFFICES ASSUME IInv, ReclaimInv, HomeInv, [Next]_vars PROVE HomeInv'
    OBVIOUS
  <2>1. PICK home \in Homes : Settled(home)
    BY DEF HomeInv
  <2>2. CASE UNCHANGED vars
    <3>1. Settled(home)' /\ NobodyListens'
      BY <2>1, <2>2, SettledKept DEF vars, workers, tasks, HomeInv, NobodyListens
    <3> QED BY <3>1 DEF HomeInv
  <2>3. CASE Next
    <3>1. \E h \in Homes : Settled(h)'
      BY <2>1, <2>3, ClientHomes, LoopHomes, TaskHomes DEF Next, HomeInv
    <3>2. NobodyListens'
      BY <2>3, StillNobodyListens DEF HomeInv
    <3> QED BY <3>1, <3>2 DEF HomeInv
  <2> QED BY <2>2, <2>3
<1> QED BY <1>1, <1>2, Reclaiming, PTL DEF Spec

\* Who holds a task in some lists.
LEMMA HeldIn ==
  ASSUME NEW tag, NEW lists, NEW t, NEW x
  PROVE  x \in Held(tag, lists, t) <=>
           \E w \in Workers : \E i \in DOMAIN lists[w] : x = <<tag, w, i>> /\ lists[w][i] = t
BY DEF Held

LEMMA HeldSomewhere ==
  ASSUME NEW tag, NEW lists, NEW t
  PROVE  Held(tag, lists, t) # {} <=> \E w \in Workers : t \in Range(lists[w])
<1>1. ASSUME NEW x \in Held(tag, lists, t) PROVE \E w \in Workers : t \in Range(lists[w])
  BY <1>1, HeldIn DEF Range
<1>2. ASSUME NEW w \in Workers, t \in Range(lists[w]) PROVE Held(tag, lists, t) # {}
  <2>1. PICK i \in DOMAIN lists[w] : lists[w][i] = t
    BY <1>2 DEF Range
  <2>2. <<tag, w, i>> \in Held(tag, lists, t)
    BY <2>1, HeldIn
  <2> QED BY <2>2
<1> QED BY <1>1, <1>2

LEMMA HeldTwice ==
  ASSUME NEW tag, NEW lists, NEW t,
         \A w \in Workers : IsInjective(lists[w]),
         \A v, w \in Workers : t \in Range(lists[v]) /\ t \in Range(lists[w]) => v = w,
         NEW x \in Held(tag, lists, t), NEW y \in Held(tag, lists, t)
  PROVE  x = y
<1>1. PICK v \in Workers : \E i \in DOMAIN lists[v] : x = <<tag, v, i>> /\ lists[v][i] = t
  BY HeldIn
<1>2. PICK i \in DOMAIN lists[v] : x = <<tag, v, i>> /\ lists[v][i] = t
  BY <1>1
<1>3. PICK w \in Workers : \E j \in DOMAIN lists[w] : y = <<tag, w, j>> /\ lists[w][j] = t
  BY HeldIn
<1>4. PICK j \in DOMAIN lists[w] : y = <<tag, w, j>> /\ lists[w][j] = t
  BY <1>3
<1>5. v = w
  BY <1>2, <1>4 DEF Range
<1>6. i = j
  BY <1>2, <1>4, <1>5 DEF IsInjective
<1> QED BY <1>2, <1>4, <1>5, <1>6

\* Where a task may be: new, in one hand; started, in one list or on one stack.
LEMMA HoldersOfOne ==
  ASSUME IInv, ReclaimInv, NEW home \in Homes, Settled(home), NEW t \in Tasks
  PROVE  /\ \A x, y \in Holders(t) : x = y
         /\ state[t] \in {"Ready", "Running"} => Holders(t) # {}
<1> DEFINE Q == Held("queue", queues, t)
           S == Held("stolen", stolen, t)
           L == Held("local", local, t)
           C == Held("chain", OnCpu, t)
           K == {<<"client", c>> : c \in {d \in Clients : client[d].task = t}}
<1>1. Holders(t) = Q \cup S \cup L \cup C \cup K
  BY Zenon DEF Holders
<1>2. /\ LocalSettled(home) /\ ChainSettled(home) /\ ReadyHeld(home)
      /\ OneHand /\ HandsHoldFresh /\ StacksRun /\ FreshHeld
  BY DEF Settled, IInv, ReclaimInv
<1>3. t # None
  BY TasksAssumption
<1>4. \A w \in Workers : OnCpu[w] = IF pc[w] = "ran" THEN <<>> ELSE chain[w]
  BY DEF OnCpu
<1>5. Range(<<>>) = {} /\ IsInjective(<<>>)
  BY DEF Range, IsInjective
<1>6. \A w \in Workers : /\ Range(OnCpu[w]) \subseteq Range(chain[w]) /\ IsInjective(OnCpu[w])
                         /\ pc[w] # "ran" => Range(OnCpu[w]) = Range(chain[w])
  BY <1>2, <1>4, <1>5 DEF ChainSettled
<1>7. \A w \in Workers : t \in Range(OnCpu[w]) => state[t] \in {"Running", "Blocked", "Dead"}
  <2>1. ASSUME NEW w \in Workers, t \in Range(OnCpu[w])
        PROVE  state[t] \in {"Running", "Blocked", "Dead"}
    <3>1. t \in Range(chain[w]) /\ pc[w] # "ran"
      BY <2>1, <1>4, <1>5
    <3>2. chain[w] # <<>>
      BY <3>1, <1>5
    <3>3. pc[w] \in {"run", "match"}
      BY <3>1, <3>2, <1>2 DEF StacksRun
    <3> QED BY <3>1, <3>3, <1>2 DEF ChainSettled
  <2> QED BY <2>1
<1>8. /\ Q # {} => \E w \in Workers : t \in Range(queues[w])
      /\ S # {} => \E w \in Workers : t \in Range(stolen[w])
      /\ L # {} => \E w \in Workers : t \in Range(local[w])
      /\ C # {} => \E w \in Workers : t \in Range(OnCpu[w])
      /\ K # {} => \E c \in Clients : client[c].task = t
  BY HeldSomewhere
<1>9. /\ (\E w \in Workers : t \in Range(queues[w])) => Q # {}
      /\ (\E w \in Workers : t \in Range(stolen[w])) => S # {}
      /\ (\E w \in Workers : t \in Range(local[w])) => L # {}
      /\ (\E w \in Workers : t \in Range(OnCpu[w])) => C # {}
      /\ (\E c \in Clients : client[c].task = t) => K # {}
  BY HeldSomewhere
<1>10. /\ \A x, y \in Q : x = y
       /\ \A x, y \in S : x = y
       /\ \A x, y \in L : x = y
       /\ \A x, y \in C : x = y
       /\ \A x, y \in K : x = y
  <2>1. \A x, y \in Q : x = y
    <3>1. /\ \A w \in Workers : IsInjective(queues[w])
          /\ \A v, w \in Workers : t \in Range(queues[v]) /\ t \in Range(queues[w]) => v = w
      BY <1>2 DEF OneHand
    <3> QED BY <3>1, HeldTwice
  <2>2. \A x, y \in S : x = y
    <3>1. /\ \A w \in Workers : IsInjective(stolen[w])
          /\ \A v, w \in Workers : t \in Range(stolen[v]) /\ t \in Range(stolen[w]) => v = w
      BY <1>2 DEF OneHand
    <3> QED BY <3>1, HeldTwice
  <2>3. \A x, y \in L : x = y
    <3>1. /\ \A w \in Workers : IsInjective(local[w])
          /\ \A v, w \in Workers : t \in Range(local[v]) /\ t \in Range(local[w]) => v = w
      BY <1>2 DEF LocalSettled
    <3> QED BY <3>1, HeldTwice
  <2>4. \A x, y \in C : x = y
    <3>1. /\ \A w \in Workers : IsInjective(OnCpu[w])
          /\ \A v, w \in Workers : t \in Range(OnCpu[v]) /\ t \in Range(OnCpu[w]) => v = w
      BY <1>2, <1>6 DEF ChainSettled
    <3> QED BY <3>1, HeldTwice
  <2>5. \A x, y \in K : x = y
    <3>1. \A c, d \in Clients : client[c].task = t /\ client[d].task = t => c = d
      BY <1>2, <1>3 DEF OneHand
    <3> QED BY <3>1
  <2> QED BY <2>1, <2>2, <2>3, <2>4, <2>5
<1> HIDE DEF Q, S, L, C, K
<1>11. CASE Fresh(t)
  <2>1. L = {} /\ C = {}
    <3>1. \A w \in Workers : t \notin Range(local[w]) /\ t \notin Range(OnCpu[w])
      BY <1>6, <1>11, Listed
    <3> QED BY <3>1, <1>8
  <2>2. /\ Q # {} => S = {} /\ K = {}
        /\ S # {} => K = {}
    BY <1>2, <1>8 DEF OneHand
  <2>3. \A x, y \in Holders(t) : x = y
    BY <1>1, <1>10, <2>1, <2>2
  <2>4. InHand(t)
    BY <1>2, <1>11 DEF FreshHeld, Fresh
  <2>5. Holders(t) # {}
    BY <1>1, <1>9, <2>4 DEF InHand
  <2> QED BY <2>3, <2>5
<1>12. CASE ~Fresh(t)
  <2>1. Q = {} /\ S = {} /\ K = {}
    BY <1>2, <1>3, <1>8, <1>12 DEF HandsHoldFresh
  <2>2. L # {} => C = {}
    <3>1. L # {} => state[t] = "Ready"
      BY <1>2, <1>8 DEF LocalSettled
    <3>2. C # {} => state[t] # "Ready"
      BY <1>7, <1>8
    <3> QED BY <3>1, <3>2
  <2>3. \A x, y \in Holders(t) : x = y
    BY <1>1, <1>10, <2>1, <2>2
  <2>4. state[t] = "Ready" => L # {}
    BY <1>2, <1>9, <1>12 DEF ReadyHeld, Homes
  <2>5. state[t] = "Running" => C # {}
    BY <1>2, <1>6, <1>9 DEF StacksRun
  <2> QED BY <1>1, <2>3, <2>4, <2>5
<1> QED BY <1>11, <1>12

\* "Only one worker holds it at a time" (pool.rs:46): if no task listens on a
\* channel, a task that can run is held once, by a queue, a thief, a client or
\* a CPU, through stealing, yielding, spawning, awaiting and draining.
THEOREM OneHolder ==
  ASSUME NoListen
  PROVE  Spec => []HeldByOne
<1>1. IInv /\ ReclaimInv /\ HomeInv => HeldByOne
  <2> SUFFICES ASSUME IInv, ReclaimInv, HomeInv, NEW t \in Tasks
               PROVE  IF state[t] \in {"Ready", "Running"} THEN Cardinality(Holders(t)) = 1
                                                           ELSE Cardinality(Holders(t)) <= 1
    BY DEF HeldByOne
  <2>1. PICK home \in Homes : Settled(home)
    BY DEF HomeInv
  <2>2. /\ \A x, y \in Holders(t) : x = y
        /\ state[t] \in {"Ready", "Running"} => Holders(t) # {}
    BY <2>1, HoldersOfOne
  <2>3. Cardinality(Holders(t)) = IF Holders(t) = {} THEN 0 ELSE 1
    BY <2>2, CountOfOne
  <2> QED BY <2>2, <2>3
<1> QED BY <1>1, AtHome, PTL

----------------------------------------------------------------------------
(* No undefined behaviour.                                                 *)

\* A task that can run, and is in a hand or in a local queue, is on no stack,
\* and can be entered.
LEMMA CanBeEntered ==
  ASSUME IInv, ReclaimInv, NEW home \in Homes, Settled(home), NEW t \in Tasks,
         state[t] = "Ready"
  PROVE  Entered(t) = fault
<1>1. /\ ChainSettled(home) /\ StacksRun /\ chain \in [Workers -> Seq(Tasks)]
  BY Types DEF Settled, ReclaimInv
<1>2. ASSUME NEW v \in Workers, OnStack(t, v) PROVE FALSE
  <2>1. PICK i \in DOMAIN chain[v] :
          /\ chain[v][i] = t
          /\ ~(pc[v] \in {"match", "ran"} /\ i = Len(chain[v]))
    BY <1>2 DEF OnStack
  <2>2. t \in Range(chain[v]) /\ chain[v] # <<>> /\ chain[v] \in Seq(Tasks)
    BY <2>1, <1>1 DEF Range
  <2>3. pc[v] \in {"run", "match", "ran"}
    BY <2>2, <1>1 DEF StacksRun
  <2>4. pc[v] # "run" /\ t = Top(v)
    BY <2>2, <1>1 DEF ChainSettled
  <2>5. Len(chain[v]) \in DOMAIN chain[v]
    <3>1. Len(chain[v]) \in Nat \ {0} /\ DOMAIN chain[v] = 1..Len(chain[v])
      BY <2>2, EmptySeq, LenProperties
    <3> QED BY <3>1
  <2>6. i = Len(chain[v])
    BY <2>1, <2>4, <2>5, <1>1 DEF ChainSettled, IsInjective, Top
  <2> QED BY <2>1, <2>3, <2>4, <2>6
<1> QED BY <1>2 DEF Entered

LEMMA OnlyAwaitsFault ==
  ASSUME NoListen, IInv, ReclaimInv, NobodyListens, NEW home \in Homes, Settled(home),
         Next
  PROVE  \/ fault' = fault
         \/ /\ \E w \in Workers : Await(w) \/ Consume(w)
            /\ fault' \in {"use after free", "double free"}
<1> USE DEF tasks, PoolUnchanged
<1>1. LocalSettled(home) /\ ChainSettled(home) /\ HandsHoldFresh
  BY DEF Settled, IInv
<1>2. ASSUME NEW w \in Workers, NEW t \in Tasks, RunOne(w, t), state[t] = "Ready"
      PROVE  fault' = fault
  BY <1>2, CanBeEntered DEF RunOne
<1>3. ASSUME NEW w \in Workers, LoopStep(w) \/ TimesOut(w) PROVE fault' = fault
  <2>1. CASE TakeOwn(w)
    <3>1. Head(queues[w]) \in Range(queues[w]) /\ Head(queues[w]) \in Tasks
      BY <2>1, RangeTail, Types DEF TakeOwn
    <3>2. state[Head(queues[w])] = "Ready"
      BY <3>1, <1>1 DEF HandsHoldFresh, Fresh
    <3> QED BY <2>1, <3>1, <3>2, <1>2 DEF TakeOwn
  <2>2. CASE TakeLocal(w)
    <3>1. Head(local[w]) \in Range(local[w]) /\ Head(local[w]) \in Tasks
      BY <2>2, RangeTail, Types DEF TakeLocal
    <3>2. state[Head(local[w])] = "Ready"
      BY <3>1, <1>1 DEF LocalSettled
    <3> QED BY <2>2, <3>1, <3>2, <1>2 DEF TakeLocal
  <2>3. CASE Match(w) \/ Reap(w)
    BY <2>3, <1>1 DEF Match, Reap, WorkerAt, ChainSettled
  <2>4. CASE ~(TakeOwn(w) \/ TakeLocal(w) \/ Match(w) \/ Reap(w))
    BY <2>4, <1>3 DEF LoopStep, Look, NothingOwn, Steal, NothingThere, Stash,
                      Unparked, TimesOut
  <2> QED BY <2>1, <2>2, <2>3, <2>4
<1>4. ASSUME NEW c \in Clients, CallStep(c) \/ ClientStep(c) PROVE fault' = fault
  BY <1>4 DEF CallStep, ClientStep, Submit, Scan, Push, Unpark, CallWait,
              WaitReturns, Shutdown, WakeAll, Join
<1>5. ASSUME NEW w \in Workers, TaskStep(w)
      PROVE  \/ fault' = fault
             \/ /\ Await(w) \/ Consume(w)
                /\ fault' \in {"use after free", "double free"}
  <2>1. Top(w) \in Tasks
    BY <1>5, TasksKeepFresh, OnTop
  <2>2. ~Listen(w) /\ ~MarkBlocked(w) /\ ~Leave(w) /\ ~Wake(w)
    BY <2>1 DEF NoListen, NobodyListens, Listen, MarkBlocked, Leave, Wake, Does, Runs
  <2>3. CASE DrainDispatch(w)
    <3>1. Head(local[w]) \in Range(local[w]) /\ Head(local[w]) \in Tasks
      BY <2>3, RangeTail, Types DEF DrainDispatch
    <3>2. state[Head(local[w])] = "Ready"
      BY <3>1, <1>1 DEF LocalSettled
    <3> QED BY <2>3, <3>1, <3>2, <1>2 DEF DrainDispatch
  <2>4. CASE Await(w)
    BY <2>4 DEF Await
  <2>5. CASE Consume(w)
    BY <2>5 DEF Consume
  <2>6. CASE ~(DrainDispatch(w) \/ Await(w) \/ Consume(w))
    BY <2>2, <2>6, <1>5 DEF TaskStep, Yield, Die, Spawn, Drain, DrainReturns
  <2> QED BY <2>3, <2>4, <2>5, <2>6
<1> QED BY <1>3, <1>4, <1>5 DEF Next

\* If no task listens, no worker ever enters a task that another worker still
\* executes (run_one, pool.rs:46).
OneRunner == fault # "two runners"

THEOREM NeverTwoRunners ==
  ASSUME NoListen
  PROVE  Spec => []OneRunner
<1>1. Init => OneRunner
  BY DEF Init, OneRunner
<1>2. IInv /\ ReclaimInv /\ HomeInv /\ OneRunner /\ [Next]_vars => OneRunner'
  <2> SUFFICES ASSUME IInv, ReclaimInv, HomeInv, OneRunner, [Next]_vars
               PROVE  OneRunner'
    OBVIOUS
  <2>1. PICK home \in Homes : Settled(home)
    BY DEF HomeInv
  <2>2. CASE Next
    BY <2>1, <2>2, OnlyAwaitsFault DEF HomeInv, OneRunner
  <2>3. CASE UNCHANGED vars
    BY <2>3 DEF vars, OneRunner
  <2> QED BY <2>2, <2>3
<1> QED BY <1>1, <1>2, AtHome, PTL DEF Spec

\* Without tasks that spawn, or without tasks that await, nobody is ever in
\* an await: only an await of a spawned task touches what the pool has freed.
NoSpawn == \A t \in Tasks : "spawn" \notin Deeds[t]
NoAwait == \A t \in Tasks : "await" \notin Deeds[t]
AwaitFree ==
  /\ \A t \in Tasks : at[t][1] # "awaited"
  /\ NoAwait \/ \A t \in Tasks : parent[t] = None

LEMMA StillAwaitFree ==
  ASSUME NoSpawn \/ NoAwait, IInv, AwaitFree, Next
  PROVE  /\ AwaitFree'
         /\ \A w \in Workers : ~Await(w) /\ ~Consume(w)
<1> USE DEF workers, tasks
<1>1. at \in [Tasks -> Steps] /\ local \in [Workers -> Seq(Tasks)]
      /\ queues \in [Workers -> Seq(Tasks)]
  BY Types
<1>2. ASSUME NEW t \in Tasks, NEW w \in Workers, RunOne(w, t), UNCHANGED parent
      PROVE  AwaitFree'
  <2>1. at'[t] = Resumed(at[t]) /\ \A u \in Tasks : u # t => at'[u] = at[u]
    BY <1>1, <1>2 DEF RunOne
  <2>2. at'[t][1] # "awaited"
    BY <2>1 DEF AwaitFree, Resumed, Code
  <2> QED BY <2>1, <2>2, <1>2 DEF AwaitFree
<1>3. ASSUME NEW w \in Workers, LoopStep(w) \/ TimesOut(w) PROVE AwaitFree'
  <2>1. CASE TakeOwn(w)
    BY <2>1, <1>1, <1>2, HeadAndTail DEF TakeOwn
  <2>2. CASE TakeLocal(w)
    BY <2>2, <1>1, <1>2, HeadAndTail DEF TakeLocal
  <2>3. CASE ~(TakeOwn(w) \/ TakeLocal(w))
    <3>1. UNCHANGED <<at, parent>>
      BY <2>3, <1>3 DEF LoopStep, Look, NothingOwn, Steal, NothingThere, Stash,
                        Unparked, Match, Reap, TimesOut
    <3> QED BY <3>1 DEF AwaitFree
  <2> QED BY <2>1, <2>2, <2>3
<1>4. ASSUME NEW c \in Clients, CallStep(c) \/ ClientStep(c) PROVE AwaitFree'
  BY <1>4 DEF AwaitFree, CallStep, ClientStep, Submit, Scan, Push, Unpark, CallWait,
              WaitReturns, Shutdown, WakeAll, Join
<1>5. ASSUME NEW w \in Workers, pc[w] = "run"
      PROVE  /\ Top(w) \in Tasks /\ ~Await(w) /\ ~Consume(w)
             /\ NoSpawn => ~Spawn(w)
  <2>1. Top(w) \in Tasks
    BY <1>5, TopInChain DEF IInv, AwakeInv, InRunOne
  <2>2. ~Consume(w)
    BY <2>1 DEF AwaitFree, Consume, Runs
  <2>3. ~Await(w)
    <3>1. CASE NoAwait
      BY <2>1, <3>1 DEF NoAwait, Await, Does
    <3>2. CASE \A t \in Tasks : parent[t] = None
      BY <2>1, <3>2, TasksAssumption DEF Await, Tasks
    <3> QED BY <3>1, <3>2 DEF AwaitFree
  <2>4. NoSpawn => ~Spawn(w)
    BY <2>1 DEF NoSpawn, Spawn, Does
  <2> QED BY <2>1, <2>2, <2>3, <2>4
<1>6. ASSUME NEW w \in Workers, TaskStep(w) PROVE AwaitFree'
  <2>1. Top(w) \in Tasks /\ ~Await(w) /\ ~Consume(w) /\ (NoSpawn => ~Spawn(w))
    BY <1>5, <1>6, TasksKeepFresh
  <2>2. CASE DrainDispatch(w)
    BY <2>2, <1>1, <1>2, HeadAndTail DEF DrainDispatch
  <2>3. CASE ~DrainDispatch(w)
    <3>1. \/ at' = at
          \/ \E place \in {"code", "drain", "listed", "blocked"} : \E arg :
               at' = [at EXCEPT ![Top(w)] = <<place, arg>>]
      BY <2>1, <2>3, <1>6 DEF TaskStep, Yield, Die, Spawn, Drain, DrainReturns,
                              Listen, MarkBlocked, Leave, Wake, Goes
    <3>2. ASSUME NEW place \in {"code", "drain", "listed", "blocked"}, NEW arg,
                 at' = [at EXCEPT ![Top(w)] = <<place, arg>>]
          PROVE  \A t \in Tasks : at'[t] = at[t] \/ at'[t] = <<place, arg>>
      BY <3>2, <2>1, <1>1
    <3>3. \A t \in Tasks : \/ at'[t] = at[t]
                           \/ \E place \in {"code", "drain", "listed", "blocked"} : \E arg :
                                at'[t] = <<place, arg>>
      BY <3>1, <3>2
    <3>4. \A t \in Tasks : at'[t][1] # "awaited"
      BY <3>3 DEF AwaitFree
    <3>5. parent' = parent \/ ~NoSpawn
      BY <2>1, <2>3, <1>6 DEF TaskStep, Yield, Die, Spawn, Drain, DrainReturns,
                              Listen, MarkBlocked, Leave, Wake
    <3> QED BY <3>4, <3>5 DEF AwaitFree
  <2> QED BY <2>2, <2>3
<1>7. \A w \in Workers : Await(w) \/ Consume(w) => pc[w] = "run"
  BY DEF Await, Consume, Does, Runs, WorkerAt
<1> QED BY <1>3, <1>4, <1>5, <1>6, <1>7 DEF Next

Defined == fault = "none" /\ AwaitFree

LEMMA StillDefined ==
  ASSUME NoListen, NoSpawn \/ NoAwait, IInv, ReclaimInv, HomeInv, Defined, [Next]_vars
  PROVE  Defined'
<1>1. PICK home \in Homes : Settled(home)
  BY DEF HomeInv
<1>2. CASE Next
  <2>1. AwaitFree' /\ \A w \in Workers : ~Await(w) /\ ~Consume(w)
    BY <1>2, StillAwaitFree DEF Defined
  <2>2. fault' = fault
    BY <1>1, <1>2, <2>1, OnlyAwaitsFault DEF HomeInv
  <2> QED BY <2>1, <2>2 DEF Defined
<1>3. CASE UNCHANGED vars
  BY <1>3 DEF vars, tasks, Defined, AwaitFree
<1> QED BY <1>2, <1>3

\* If no task listens, and no task awaits or none spawns, the pool touches no
\* memory that it has freed and runs no task twice: what goes wrong in the
\* pool goes wrong through a wait list or an await.
THEOREM NoUndefinedBehaviour ==
  ASSUME NoListen, NoSpawn \/ NoAwait
  PROVE  Spec => []Defined
<1>1. Init => Defined
  BY DEF Init, AwaitFree, New, Defined
<1>2. IInv /\ ReclaimInv /\ HomeInv /\ Defined /\ [Next]_vars => Defined'
  BY StillDefined
<1> QED BY <1>1, <1>2, AtHome, PTL DEF Spec

----------------------------------------------------------------------------
(* The count of pending tasks.                                             *)

\* What the count is between: the tasks that are there, and all that were
\* ever submitted.  It exceeds the first by the tasks that have died in
\* another task's nursery, which nobody counts off.
Live == {t \in PoolTasks : state[t] \notin {"unborn", "freed"}}
Born == {t \in PoolTasks : state[t] # "unborn"}
CountInv ==
  /\ \A u \in Children : state[u] = "unborn"
  /\ Cardinality(Live) <= pending
  /\ pending <= Cardinality(Born)

LEMMA FinitelyMany ==
  /\ \A S \in SUBSET PoolTasks :
       IsFiniteSet(S) /\ Cardinality(S) \in Nat
       /\ Cardinality(S) <= Cardinality(PoolTasks)
  /\ Live \in SUBSET PoolTasks /\ Born \in SUBSET PoolTasks
  /\ Live' \in SUBSET PoolTasks /\ Born' \in SUBSET PoolTasks
<1>1. IsFiniteSet(PoolTasks)
  BY TasksAssumption, FS_Subset DEF Tasks
<1>2. ASSUME NEW S \in SUBSET PoolTasks
      PROVE  IsFiniteSet(S) /\ Cardinality(S) \in Nat
             /\ Cardinality(S) <= Cardinality(PoolTasks)
  BY <1>1, FS_Subset, FS_CardinalityType
<1> QED BY <1>2 DEF Live, Born

\* A step that creates no task, and frees none that is there, or several.
StatesKept ==
  \A t \in Tasks :
    /\ state'[t] = "unborn" <=> state[t] = "unborn"
    /\ state[t] = "freed" => state'[t] = "freed"

LEMMA CountKept ==
  ASSUME CountInv, StatesKept, pending' = pending, pending \in Nat
  PROVE  CountInv'
<1>1. Born' = Born /\ Live' \in SUBSET Live
  BY DEF StatesKept, Born, Live, Tasks
<1>2. Cardinality(Live') <= Cardinality(Live)
  BY <1>1, FinitelyMany, FS_Subset
<1>3. Cardinality(Live') \in Nat /\ Cardinality(Live) \in Nat
  BY FinitelyMany
<1>4. \A u \in Children : state'[u] = "unborn"
  BY DEF StatesKept, CountInv, Tasks
<1>5. Cardinality(Live') <= pending'
  BY <1>2, <1>3 DEF CountInv
<1>6. pending' <= Cardinality(Born')
  BY <1>1 DEF CountInv
<1> HIDE DEF Live, Born
<1> QED BY <1>4, <1>5, <1>6 DEF CountInv

LEMMA SubmitCounts ==
  ASSUME IInv, CountInv, NEW c \in Clients, Submit(c)
  PROVE  CountInv'
<1>1. PICK t \in PoolTasks :
        state[t] = "unborn" /\ state' = [state EXCEPT ![t] = "Ready"]
  BY DEF Submit
<1>2. state \in [Tasks -> States] /\ t \in Tasks /\ t \notin Children
  BY Types, TasksAssumption DEF Tasks
<1>3. state'[t] = "Ready" /\ \A u \in Tasks : u # t => state'[u] = state[u]
  BY <1>1, <1>2
<1>4. Live' = Live \cup {t} /\ t \notin Live
  BY <1>1, <1>3 DEF Live, Tasks
<1>5. Born' = Born \cup {t} /\ t \notin Born
  BY <1>1, <1>3 DEF Born, Tasks
<1>6. /\ Cardinality(Live') = Cardinality(Live) + 1
      /\ Cardinality(Born') = Cardinality(Born) + 1
  BY <1>4, <1>5, FinitelyMany, FS_AddElement
<1>7. /\ Cardinality(Live) \in Nat /\ Cardinality(Born) \in Nat /\ pending \in Nat
      /\ Cardinality(Born) < UsizeMax /\ UsizeMax \in Nat
  <2>1. Cardinality(Born) \in Nat /\ Cardinality(Born) <= Cardinality(PoolTasks)
        /\ Cardinality(PoolTasks) \in Nat /\ Cardinality(Live) \in Nat
    BY FinitelyMany
  <2> QED BY <2>1, Types, BoundsAssumption
<1>8. pending' = pending + 1
  BY <1>7 DEF CountInv, Submit, Incremented
<1>9. Cardinality(Live') <= pending' /\ pending' <= Cardinality(Born')
  BY <1>6, <1>7, <1>8 DEF CountInv
<1>10. \A u \in Children : state'[u] = "unborn"
  BY <1>2, <1>3 DEF CountInv, Tasks
<1> QED BY <1>9, <1>10 DEF CountInv

LEMMA ReapCounts ==
  ASSUME IInv, ReclaimInv, CountInv, NEW w \in Workers, Reap(w)
  PROVE  CountInv'
<1>1. Top(w) \in Tasks
  BY TopInChain DEF IInv, AwakeInv, InRunOne, Reap, WorkerAt
<1>2. PICK t \in Tasks : t = Top(w)
  BY <1>1
<1>3. /\ state' = [state EXCEPT ![t] = IF @ = "Dead" THEN "freed" ELSE @]
      /\ pending' = IF state[t] = "Dead" THEN Decremented(pending) ELSE pending
  BY <1>2 DEF Reap, Counted
<1>4. state \in [Tasks -> States] /\ pending \in Nat
  BY Types, BoundsAssumption
<1>5. /\ state'[t] = IF state[t] = "Dead" THEN "freed" ELSE state[t]
      /\ \A u \in Tasks : u # t => state'[u] = state[u]
  BY <1>3, <1>4
<1>6. CASE state[t] # "Dead"
  BY <1>3, <1>4, <1>5, <1>6, CountKept DEF StatesKept
<1>7. CASE state[t] = "Dead"
  <2>1. t \in PoolTasks /\ t \in Live
    BY <1>7 DEF CountInv, Live, Tasks
  <2>2. Live' = Live \ {t} /\ Born' = Born
    BY <1>5, <1>7, <2>1 DEF Live, Born, Tasks
  <2>3. Cardinality(Live') = Cardinality(Live) - 1
    BY <2>1, <2>2, FinitelyMany, FS_RemoveElement
  <2>4. Cardinality(Live) \in Nat /\ Cardinality(Live') \in Nat
        /\ Cardinality(Born) \in Nat
    BY FinitelyMany
  <2>5. pending' = pending - 1
    BY <1>3, <1>4, <1>7, <2>3, <2>4 DEF Decremented, CountInv
  <2>6. Cardinality(Live') <= pending' /\ pending' <= Cardinality(Born')
    BY <1>4, <2>2, <2>3, <2>4, <2>5 DEF CountInv
  <2>7. \A u \in Children : state'[u] = "unborn"
    BY <1>5, <1>7 DEF CountInv, Tasks
  <2> QED BY <2>6, <2>7 DEF CountInv
<1> QED BY <1>6, <1>7

\* No other step creates a task or brings one back that was freed.
LEMMA ReadyRuns ==
  ASSUME IInv, NEW t \in Tasks, state[t] = "Ready", NEW w \in Workers, RunOne(w, t)
  PROVE  StatesKept
<1>1. state'[t] = "Running" /\ \A u \in Tasks : u # t => state'[u] = state[u]
  BY Types DEF RunOne
<1> QED BY <1>1 DEF StatesKept

LEMMA LocalRunKeeps ==
  ASSUME IInv, NEW home, Settled(home), NEW w \in Workers, local[w] # <<>>,
         RunOne(w, Head(local[w]))
  PROVE  StatesKept
<1>1. local[w] \in Seq(Tasks)
  BY Types
<1>2. Head(local[w]) \in Range(local[w]) /\ Head(local[w]) \in Tasks
  BY <1>1, RangeTail, HeadAndTail
<1>3. PICK t \in Tasks : t = Head(local[w])
  BY <1>2
<1>4. state[t] = "Ready"
  BY <1>2, <1>3 DEF Settled, LocalSettled
<1> QED BY <1>3, <1>4, ReadyRuns

LEMMA LoopCounts ==
  ASSUME IInv, ReclaimInv, CountInv, NEW home, Settled(home), NEW w \in Workers,
         LoopStep(w) \/ TimesOut(w)
  PROVE  CountInv'
<1> USE DEF tasks, workers
<1>1. pending \in Nat
  BY Types, BoundsAssumption
<1>2. CASE Reap(w)
  BY <1>2, ReapCounts
<1>3. CASE TakeOwn(w)
  <2>1. queues[w] \in Seq(Tasks) /\ queues[w] # <<>>
    BY <1>3, Types DEF TakeOwn
  <2>2. Head(queues[w]) \in Range(queues[w]) /\ Head(queues[w]) \in Tasks
    BY <2>1, RangeTail, HeadAndTail
  <2>3. PICK t \in Tasks : t = Head(queues[w])
    BY <2>2
  <2>4. state[t] = "Ready"
    BY <2>2, <2>3 DEF IInv, HandsHoldFresh, Fresh
  <2> QED BY <1>1, <1>3, <2>3, <2>4, ReadyRuns, CountKept DEF TakeOwn
<1>4. CASE TakeLocal(w)
  BY <1>1, <1>4, LocalRunKeeps, CountKept DEF TakeLocal
<1>5. CASE Match(w)
  <2>1. Top(w) \in Tasks
    BY <1>5, TopInChain DEF IInv, AwakeInv, InRunOne, Match, WorkerAt
  <2>2. PICK t \in Tasks : t = Top(w)
    BY <2>1
  <2>3. \/ state' = state
        \/ state[t] \in {"Running", "Ready"} /\ state' = [state EXCEPT ![t] = "Ready"]
    BY <1>5, <2>2, Types DEF Match
  <2>4. StatesKept
    BY <2>3, Types DEF StatesKept
  <2> QED BY <1>1, <1>5, <2>4, CountKept DEF Match
<1>6. CASE ~(Reap(w) \/ TakeOwn(w) \/ TakeLocal(w) \/ Match(w))
  <2>1. state' = state /\ pending' = pending
    BY <1>6 DEF LoopStep, Look, NothingOwn, Steal, NothingThere, Stash, Unparked,
                TimesOut
  <2> QED BY <1>1, <2>1, CountKept DEF StatesKept
<1> QED BY <1>2, <1>3, <1>4, <1>5, <1>6

LEMMA ClientCounts ==
  ASSUME IInv, CountInv, NEW c \in Clients, CallStep(c) \/ ClientStep(c)
  PROVE  CountInv'
<1> USE DEF tasks, workers
<1>1. pending \in Nat
  BY Types, BoundsAssumption
<1>2. CASE Submit(c)
  BY <1>2, SubmitCounts
<1>3. CASE Join(c)
  <2>1. \A t \in Tasks :
          state'[t] = IF \E w \in Workers : t \in Range(queues[w]) THEN "freed"
                                                                   ELSE state[t]
    BY <1>3 DEF Join
  <2>2. \A w \in Workers : \A t \in Range(queues[w]) : state[t] = "Ready"
    BY DEF IInv, HandsHoldFresh, Fresh
  <2>3. StatesKept
    BY <2>1, <2>2 DEF StatesKept
  <2> QED BY <1>1, <1>3, <2>3, CountKept DEF Join
<1>4. CASE ~(Submit(c) \/ Join(c))
  <2>1. state' = state /\ pending' = pending
    BY <1>4, <1>2 DEF CallStep, ClientStep, Scan, Push, Unpark, CallWait,
                      WaitReturns, Shutdown, WakeAll
  <2> QED BY <1>1, <2>1, CountKept DEF StatesKept
<1> QED BY <1>2, <1>3, <1>4

LEMMA TaskCounts ==
  ASSUME NoListen, NoSpawn, IInv, ReclaimInv, NobodyListens, CountInv, AwaitFree,
         fault = "none", NEW home, Settled(home), NEW w \in Workers, TaskStep(w)
  PROVE  CountInv'
<1> USE DEF tasks, workers, PoolUnchanged
<1>1. pending \in Nat
  BY Types, BoundsAssumption
<1>2. pc[w] = "run"
  BY TasksKeepFresh
<1>3. /\ Top(w) \in Tasks /\ state[Top(w)] = "Running"
      /\ state \in [Tasks -> States]
  BY <1>2, OnTop, Types
<1>4. /\ ~Listen(w) /\ ~MarkBlocked(w) /\ ~Leave(w) /\ ~Wake(w)
      /\ ~Spawn(w) /\ ~Await(w) /\ ~Consume(w)
  <2>1. ~Listen(w) /\ ~MarkBlocked(w) /\ ~Leave(w) /\ ~Wake(w)
    BY <1>3 DEF NoListen, NobodyListens, Listen, MarkBlocked, Leave, Wake, Does, Runs
  <2>2. ~Spawn(w)
    BY <1>3 DEF NoSpawn, Spawn, Does
  <2>3. ~Await(w) /\ ~Consume(w)
    <3>1. Next
      BY DEF Next
    <3> QED BY <3>1, StillAwaitFree
  <2> QED BY <2>1, <2>2, <2>3
<1>5. CASE DrainDispatch(w)
  BY <1>1, <1>5, LocalRunKeeps, CountKept DEF DrainDispatch
<1>6. CASE Die(w)
  <2>1. PICK t \in Tasks : t = Top(w)
    BY <1>3
  <2>2. \A u \in Tasks : state'[u] = CASE u = t -> "Dead"
                                       [] u \in Range(waiters[t]) -> "Ready"
                                       [] OTHER -> state[u]
    BY <1>6, <2>1 DEF Die
  <2>3. \A u \in Range(waiters[t]) : state[u] = "Blocked"
    BY DEF Settled, WaitersSettled
  <2>4. StatesKept
    BY <1>3, <2>1, <2>2, <2>3 DEF StatesKept
  <2> QED BY <1>1, <1>6, <2>4, CountKept DEF Die
<1>7. CASE ~(DrainDispatch(w) \/ Die(w))
  <2>1. state' = state /\ pending' = pending
    BY <1>4, <1>7 DEF TaskStep, Yield, Drain, DrainReturns
  <2> QED BY <1>1, <2>1, CountKept DEF StatesKept
<1> QED BY <1>5, <1>6, <1>7

LEMMA InitCounts == Init => CountInv
<1> SUFFICES ASSUME Init PROVE CountInv
  OBVIOUS
<1>1. \A t \in Tasks : state[t] = "unborn"
  BY DEF Init
<1>2. Live = {} /\ Born = {}
  BY <1>1 DEF Live, Born, Tasks
<1>3. Cardinality(Live) = 0 /\ Cardinality(Born) = 0
  BY <1>2, FS_EmptySet
<1> QED BY <1>1, <1>3 DEF CountInv, Init, Tasks

\* If no task listens and none spawns, the count never falls below the number
\* of submitted tasks that are there, and never wraps.
THEOREM Counting ==
  ASSUME NoListen, NoSpawn
  PROVE  Spec => []CountInv
<1>1. Init => CountInv
  BY InitCounts
<1>2. IInv /\ ReclaimInv /\ HomeInv /\ Defined /\ CountInv /\ [Next]_vars => CountInv'
  <2> SUFFICES ASSUME IInv, ReclaimInv, HomeInv, Defined, CountInv, [Next]_vars
               PROVE  CountInv'
    OBVIOUS
  <2>1. PICK home \in Homes : Settled(home)
    BY DEF HomeInv
  <2>2. CASE Next
    BY <2>1, <2>2, LoopCounts, ClientCounts, TaskCounts DEF Next, HomeInv, Defined
  <2>3. CASE UNCHANGED vars
    BY <2>3 DEF vars, CountInv, Live, Born
  <2> QED BY <2>2, <2>3
<1>3. Spec => []Defined
  BY NoUndefinedBehaviour
<1> QED BY <1>1, <1>2, <1>3, AtHome, PTL DEF Spec

\* wait_idle returns only when no submitted task can still run (pool.rs): if
\* no task listens or spawns.  One that spawns can have its children counted
\* off as if they had been submitted.
THEOREM CountedDown ==
  ASSUME NoListen, NoSpawn
  PROVE  Spec => []IdleMeansDone
<1>1. CountInv => IdleMeansDone
  <2> SUFFICES ASSUME CountInv, pending = 0, NEW t \in PoolTasks,
                      state[t] \in {"Ready", "Running"}
               PROVE  FALSE
    BY DEF IdleMeansDone
  <2>1. t \in Live
    BY DEF Live
  <2>2. Cardinality(Live) = 0
    BY FinitelyMany DEF CountInv
  <2> QED BY <2>1, <2>2, FinitelyMany, FS_EmptySet
<1> QED BY <1>1, Counting, PTL
=============================================================================
