-------------------------------- MODULE Pool --------------------------------
(***************************************************************************)
(* The work-stealing pool, pool.rs, between the threads that submit to it  *)
(* and its workers: one step per lock section or atomic access.  A task    *)
(* that runs on a worker may yield, spawn, await and drain on the worker's *)
(* own scheduler, and park on a channel until another task wakes it.       *)
(***************************************************************************)
EXTENDS Integers, Sequences, FiniteSets, Functions

CONSTANTS
  N,           \* workers
  PoolTasks,   \* tasks that are submitted to the pool
  Children,    \* tasks that tasks spawn
  Clients,     \* threads that use the pool
  ClientCalls, \* what they call
  Owner,       \* the client that shuts it down
  Reused,      \* bound: those whose address the allocator gives away again
  None,        \* no task
  Deeds,       \* what each task may do before it ends
  MaxDeeds,    \* bound: how many of them, yields apart
  UsizeMax     \* usize::MAX

Tasks == PoolTasks \cup Children
Workers == 0..N - 1
DeedNames == {"yield", "spawn", "await", "drain", "listen", "wake"}

ASSUME WorkersAssumption == N \in Nat \ {0}
ASSUME TasksAssumption ==
  IsFiniteSet(Tasks) /\ PoolTasks \cap Children = {} /\ None \notin Tasks
ASSUME ReusedAssumption == Reused \subseteq PoolTasks
ASSUME ClientsAssumption == Owner \in Clients /\ IsFiniteSet(Clients)
ASSUME BoundsAssumption ==
  /\ Deeds \in [Tasks -> SUBSET DeedNames]
  /\ ClientCalls \subseteq {"spawn", "wait_idle", "shutdown"}
  /\ MaxDeeds \in Nat
  /\ UsizeMax \in Nat /\ Cardinality(PoolTasks) < UsizeMax

VARIABLES
  queues,    \* Pool.queues: the shared queue of each worker
  notified,  \* Pool.parks: the latch of each worker's park
  shutdown,  \* Pool.shutdown_flag
  pending,   \* Pool.pending
  client,    \* where each client is in spawn, wait_idle or shutdown
  pc,        \* where each worker is in its loop
  probe,     \* offset of the next victim of a steal
  stolen,    \* tasks a thief carries from one lock to the other
  local,     \* the thread-local run queue of each worker
  chain,     \* tasks on the call stack of each worker, the innermost last
  state,     \* ZoTask.state, or "unborn", or "freed"
  at,        \* where each task is in its code: <<place, task>>
  waiters,   \* ZoTask.waiters
  parent,    \* who spawned each task
  listeners, \* tasks on the channel's wait list
  done,      \* how many deeds each task has done
  fault      \* undefined behaviour that has occurred

tasks == <<at, waiters, parent, listeners, done>>
workers == <<pc, probe, stolen, local, chain>>
vars == <<queues, notified, shutdown, pending, client, workers, state, tasks,
          fault>>

Idle == [at |-> "idle", task |-> None, i |-> 0, best |-> 0, len |-> UsizeMax]
New == <<"new", None>>
Code == <<"code", None>>

Init ==
  /\ queues = [w \in Workers |-> <<>>]
  /\ notified = [w \in Workers |-> FALSE]
  /\ shutdown = FALSE
  /\ pending = 0
  /\ client = [c \in Clients |-> Idle]
  /\ pc = [w \in Workers |-> "loop"]
  /\ probe = [w \in Workers |-> 1]
  /\ stolen = [w \in Workers |-> <<>>]
  /\ local = [w \in Workers |-> <<>>]
  /\ chain = [w \in Workers |-> <<>>]
  /\ state = [t \in Tasks |-> "unborn"]
  /\ at = [t \in Tasks |-> New]
  /\ waiters = [t \in Tasks |-> <<>>]
  /\ parent = [t \in Tasks |-> None]
  /\ listeners = <<>>
  /\ done = [t \in Tasks |-> 0]
  /\ fault = "none"

----------------------------------------------------------------------------
(* Clients: spawn, wait_idle, shutdown.                                    *)

ClientAt(c, place) == client[c].at = place

\* shutdown consumes the pool: no call begins once the owner is in it.
Open == client[Owner].at \notin {"wakeAll", "join", "gone"}

\* fetch_add and fetch_sub wrap.
Incremented(n) == IF n = UsizeMax THEN 0 ELSE n + 1
Decremented(n) == IF n = 0 THEN UsizeMax ELSE n - 1

\* spawn and the first line of enqueue.
Submit(c) ==
  /\ "spawn" \in ClientCalls
  /\ ClientAt(c, "idle")
  /\ Open
  /\ \E t \in PoolTasks :
       /\ state[t] = "unborn"
       /\ state' = [state EXCEPT ![t] = "Ready"]
       /\ client' = [client EXCEPT ![c] = [Idle EXCEPT !.at = "scan",
                                                       !.task = t]]
  /\ pending' = Incremented(pending)
  /\ UNCHANGED <<queues, notified, shutdown, workers, tasks, fault>>

\* emptiest_worker looks at one queue at a time.
Scan(c) ==
  LET me == client[c]
      shorter == Len(queues[me.i]) < me.len
  IN  /\ me.at = "scan"
      /\ client' = [client EXCEPT
           ![c].best = IF shorter THEN me.i ELSE @,
           ![c].len = IF shorter THEN Len(queues[me.i]) ELSE @,
           ![c].at = IF me.i = N - 1 THEN "push" ELSE @,
           ![c].i = (me.i + 1) % N]
      /\ UNCHANGED <<queues, notified, shutdown, pending, workers, state,
                     tasks, fault>>

\* Mutant: whoever submits does not wake the worker.
Push_NoUnpark(c) ==
  /\ ClientAt(c, "push")
  /\ queues' = [queues EXCEPT ![client[c].best] = Append(@, client[c].task)]
  /\ client' = [client EXCEPT ![c] = Idle]
  /\ UNCHANGED <<notified, shutdown, pending, workers, state, tasks, fault>>

Push(c) ==
  /\ ClientAt(c, "push")
  /\ queues' = [queues EXCEPT ![client[c].best] = Append(@, client[c].task)]
  /\ client' = [client EXCEPT ![c].at = "unpark", ![c].task = None]
  /\ UNCHANGED <<notified, shutdown, pending, workers, state, tasks, fault>>

Unpark(c) ==
  /\ ClientAt(c, "unpark")
  /\ notified' = [notified EXCEPT ![client[c].best] = TRUE]
  /\ client' = [client EXCEPT ![c] = Idle]
  /\ UNCHANGED <<queues, shutdown, pending, workers, state, tasks, fault>>

CallWait(c) ==
  /\ "wait_idle" \in ClientCalls
  /\ ClientAt(c, "idle")
  /\ Open
  /\ client' = [client EXCEPT ![c].at = "waiting"]
  /\ UNCHANGED <<queues, notified, shutdown, pending, workers, state, tasks,
                 fault>>

WaitReturns(c) ==
  /\ ClientAt(c, "waiting")
  /\ pending = 0
  /\ client' = [client EXCEPT ![c] = Idle]
  /\ UNCHANGED <<queues, notified, shutdown, pending, workers, state, tasks,
                 fault>>

Shutdown(c) ==
  /\ "shutdown" \in ClientCalls
  /\ c = Owner
  /\ \A d \in Clients : ClientAt(d, "idle")
  /\ shutdown' = TRUE
  /\ client' = [client EXCEPT ![c].at = "wakeAll"]
  /\ UNCHANGED <<queues, notified, pending, workers, state, tasks, fault>>

\* Mutant: only the first worker is woken.
WakeAll_First(c) ==
  /\ ClientAt(c, "wakeAll")
  /\ notified' = [notified EXCEPT ![0] = TRUE]
  /\ client' = [client EXCEPT ![c].at = "join"]
  /\ UNCHANGED <<queues, shutdown, pending, workers, state, tasks, fault>>

WakeAll(c) ==
  LET w == client[c].i
  IN  /\ ClientAt(c, "wakeAll")
      /\ notified' = [notified EXCEPT ![w] = TRUE]
      /\ client' = [client EXCEPT ![c].at = IF w = N - 1 THEN "join" ELSE @,
                                  ![c].i = (w + 1) % N]
      /\ UNCHANGED <<queues, shutdown, pending, workers, state, tasks, fault>>

\* Mutant: what is left in the queues is forgotten.
Join_Leaks(c) ==
  /\ ClientAt(c, "join")
  /\ \A w \in Workers : pc[w] = "gone"
  /\ client' = [client EXCEPT ![c].at = "gone"]
  /\ queues' = [w \in Workers |-> <<>>]
  /\ UNCHANGED <<notified, shutdown, pending, workers, state, tasks, fault>>

\* Joins the workers and frees what is left in the shared queues.
Join(c) ==
  /\ ClientAt(c, "join")
  /\ \A w \in Workers : pc[w] = "gone"
  /\ client' = [client EXCEPT ![c].at = "gone"]
  /\ state' = [t \in Tasks |->
                 IF \E w \in Workers : t \in Range(queues[w]) THEN "freed"
                                                              ELSE state[t]]
  /\ queues' = [w \in Workers |-> <<>>]
  /\ UNCHANGED <<notified, shutdown, pending, workers, tasks, fault>>

----------------------------------------------------------------------------
(* A worker's loop.                                                        *)

WorkerAt(w, place) == pc[w] = place
WorkerTo(w, place) == pc' = [pc EXCEPT ![w] = place]

Look(w) ==
  /\ WorkerAt(w, "loop")
  /\ WorkerTo(w, IF shutdown THEN "gone" ELSE "own")
  /\ UNCHANGED <<queues, notified, shutdown, pending, client, probe, stolen,
                 local, chain, state, tasks, fault>>

Top(w) == chain[w][Len(chain[w])]
Below(w) == SubSeq(chain[w], 1, Len(chain[w]) - 1)

\* The task is running on some worker's CPU, or driving a nursery there.
OnStack(t, w) ==
  \E i \in DOMAIN chain[w] :
    /\ chain[w][i] = t
    /\ ~(pc[w] \in {"match", "ran"} /\ i = Len(chain[w]))

\* What running t does to memory that is no longer, or not yet, t's.
Entered(t) == IF state[t] = "freed" THEN "use after free"
              ELSE IF \E v \in Workers : OnStack(t, v) THEN "two runners"
              ELSE fault

Resumed(place) == IF place[1] = "awaited" THEN place ELSE Code

\* run_one up to the switch into t.
RunOne(w, t) ==
  /\ chain' = [chain EXCEPT ![w] = Append(@, t)]
  /\ state' = [state EXCEPT ![t] = "Running"]
  /\ at' = [at EXCEPT ![t] = Resumed(@)]
  /\ fault' = Entered(t)
  /\ WorkerTo(w, "run")

TakeOwn(w) ==
  /\ WorkerAt(w, "own")
  /\ queues[w] # <<>>
  /\ queues' = [queues EXCEPT ![w] = Tail(@)]
  /\ RunOne(w, Head(queues[w]))
  /\ UNCHANGED <<notified, shutdown, pending, client, probe, stolen, local,
                 waiters, parent, listeners, done>>

\* Nobody else has access to the local queue, so that looking at it is part
\* of the step that found the shared one empty.
TakeLocal(w) ==
  /\ WorkerAt(w, "own")
  /\ queues[w] = <<>>
  /\ local[w] # <<>>
  /\ local' = [local EXCEPT ![w] = Tail(@)]
  /\ RunOne(w, Head(local[w]))
  /\ UNCHANGED <<queues, notified, shutdown, pending, client, probe, stolen,
                 waiters, parent, listeners, done>>

\* Where a thief goes after a victim with nothing to steal.
Probes(w, offset) ==
  /\ probe' = [probe EXCEPT ![w] = offset]
  /\ WorkerTo(w, IF offset < N THEN "steal" ELSE "park")

\* Mutant: a worker goes stealing, and to sleep, with local work left.
NothingOwn_IgnoresLocal(w) ==
  /\ WorkerAt(w, "own")
  /\ queues[w] = <<>>
  /\ Probes(w, 1)
  /\ UNCHANGED <<queues, notified, shutdown, pending, client, stolen, local,
                 chain, state, tasks, fault>>

NothingOwn(w) ==
  /\ WorkerAt(w, "own")
  /\ queues[w] = <<>> /\ local[w] = <<>>
  /\ Probes(w, 1)
  /\ UNCHANGED <<queues, notified, shutdown, pending, client, stolen, local,
                 chain, state, tasks, fault>>

Victim(w) == (w + probe[w]) % N
Half(n) == (n + 1) \div 2                            \* len().div_ceil(2)

\* Mutant: the victim keeps what is stolen.
Steal_Copies(w) ==
  LET q == queues[Victim(w)]
  IN  /\ WorkerAt(w, "steal")
      /\ q # <<>>
      /\ stolen' = [stolen EXCEPT ![w] = SubSeq(q, 1, Half(Len(q)))]
      /\ WorkerTo(w, "stash")
      /\ UNCHANGED <<queues, notified, shutdown, pending, client, probe, local,
                     chain, state, tasks, fault>>

Steal(w) ==
  LET q == queues[Victim(w)]
      half == Half(Len(q))
  IN  /\ WorkerAt(w, "steal")
      /\ q # <<>>
      /\ stolen' = [stolen EXCEPT ![w] = SubSeq(q, 1, half)]
      /\ queues' = [queues EXCEPT ![Victim(w)] = SubSeq(q, half + 1, Len(q))]
      /\ WorkerTo(w, "stash")
      /\ UNCHANGED <<notified, shutdown, pending, client, probe, local, chain,
                     state, tasks, fault>>

NothingThere(w) ==
  /\ WorkerAt(w, "steal")
  /\ queues[Victim(w)] = <<>>
  /\ Probes(w, probe[w] + 1)
  /\ UNCHANGED <<queues, notified, shutdown, pending, client, stolen, local,
                 chain, state, tasks, fault>>

Stash(w) ==
  /\ WorkerAt(w, "stash")
  /\ queues' = [queues EXCEPT ![w] = @ \o stolen[w]]
  /\ stolen' = [stolen EXCEPT ![w] = <<>>]
  /\ WorkerTo(w, "loop")
  /\ UNCHANGED <<notified, shutdown, pending, client, probe, local, chain,
                 state, tasks, fault>>

\* park_with_timeout returns because of the latch, which it resets ...
Unparked(w) ==
  /\ WorkerAt(w, "park")
  /\ notified[w]
  /\ notified' = [notified EXCEPT ![w] = FALSE]
  /\ WorkerTo(w, "loop")
  /\ UNCHANGED <<queues, shutdown, pending, client, probe, stolen, local,
                 chain, state, tasks, fault>>

\* ... or after 5 ms.
TimesOut(w) ==
  /\ WorkerAt(w, "park")
  /\ ~notified[w]
  /\ WorkerTo(w, "loop")
  /\ UNCHANGED <<queues, notified, shutdown, pending, client, probe, stolen,
                 local, chain, state, tasks, fault>>

\* Mutant: a task that yielded goes back to the shared queue.
Match_Shared(w) ==
  LET t == Top(w)
      runs == state[t] \in {"Running", "Ready"}
  IN  /\ WorkerAt(w, "match")
      /\ state' = [state EXCEPT ![t] = IF runs THEN "Ready" ELSE @]
      /\ queues' = [queues EXCEPT ![w] = IF runs THEN Append(@, t) ELSE @]
      /\ IF Len(chain[w]) = 1
         THEN WorkerTo(w, "ran") /\ UNCHANGED chain
         ELSE WorkerTo(w, "run") /\ chain' = [chain EXCEPT ![w] = Below(w)]
      /\ UNCHANGED <<notified, shutdown, pending, client, probe, stolen, local,
                     tasks, fault>>

\* run_one from the switch back on: it reads the task's state and puts it in
\* the local queue if it can run.  The caller, run_task or a task that drains,
\* goes on.
Match(w) ==
  LET t == Top(w)
      runs == state[t] \in {"Running", "Ready"}
  IN  /\ WorkerAt(w, "match")
      /\ state' = [state EXCEPT ![t] = IF runs THEN "Ready" ELSE @]
      /\ local' = [local EXCEPT ![w] = IF runs THEN Append(@, t) ELSE @]
      /\ IF Len(chain[w]) = 1
         THEN WorkerTo(w, "ran") /\ UNCHANGED chain
         ELSE WorkerTo(w, "run") /\ chain' = [chain EXCEPT ![w] = Below(w)]
      /\ fault' = IF state[t] = "freed" THEN "use after free" ELSE fault
      /\ UNCHANGED <<queues, notified, shutdown, pending, client, probe,
                     stolen, tasks>>

\* Mutant: a task that yielded is counted off like one that ended.
Counted_Yielded(t) == state[t] # "Blocked"
Counted(t) == state[t] = "Dead"

\* run_task reads the state once more, counts a dead task off and frees it.
Reap(w) ==
  LET t == Top(w)
  IN  /\ WorkerAt(w, "ran")
      /\ chain' = [chain EXCEPT ![w] = <<>>]
      /\ WorkerTo(w, "loop")
      /\ pending' = IF Counted(t) THEN Decremented(pending) ELSE pending
      /\ state' = [state EXCEPT ![t] = IF @ = "Dead" THEN "freed" ELSE @]
      /\ fault' = IF state[t] = "freed" THEN "use after free" ELSE fault
      /\ UNCHANGED <<queues, notified, shutdown, client, probe, stolen, local,
                     tasks>>

----------------------------------------------------------------------------
(* What the task on top of a worker's stack does.                          *)

Runs(w, place) == WorkerAt(w, "run") /\ at[Top(w)][1] = place
Does(w, deed) ==
  /\ Runs(w, "code")
  /\ deed \in Deeds[Top(w)]
  /\ done[Top(w)] < MaxDeeds
  /\ done' = [done EXCEPT ![Top(w)] = @ + 1]

Enqueued(w, ts) == local' = [local EXCEPT ![w] = @ \o ts]
Goes(t, place, arg) == at' = [at EXCEPT ![t] = <<place, arg>>]
SwitchOut(w) == WorkerTo(w, "match") /\ UNCHANGED <<probe, stolen, chain>>
Stays(w) == UNCHANGED <<pc, probe, stolen, chain>>
PoolUnchanged == UNCHANGED <<queues, notified, shutdown, pending, client>>

Yield(w) ==
  /\ Runs(w, "code")
  /\ "yield" \in Deeds[Top(w)]
  /\ SwitchOut(w)
  /\ PoolUnchanged
  /\ UNCHANGED <<local, state, tasks, fault>>

\* The task's function returns: exit_current.
Die(w) ==
  LET t == Top(w)
  IN  /\ Runs(w, "code")
      /\ state' = [u \in Tasks |-> CASE u = t -> "Dead"
                                     [] u \in Range(waiters[t]) -> "Ready"
                                     [] OTHER -> state[u]]
      /\ Enqueued(w, waiters[t])
      /\ waiters' = [waiters EXCEPT ![t] = <<>>]
      /\ SwitchOut(w)
      /\ PoolUnchanged
      /\ UNCHANGED <<at, parent, listeners, done, fault>>

Spawn(w) ==
  /\ Does(w, "spawn")
  /\ \E t \in Children :
       /\ state[t] = "unborn"
       /\ state' = [state EXCEPT ![t] = "Ready"]
       /\ parent' = [parent EXCEPT ![t] = Top(w)]
       /\ Enqueued(w, <<t>>)
  /\ Stays(w)
  /\ PoolUnchanged
  /\ UNCHANGED <<at, waiters, listeners, fault>>

\* await_task of a child whose handle t still has: it is freed if dead.
Await(w) ==
  LET t == Top(w)
  IN  /\ Does(w, "await")
      /\ \E u \in Children :
           /\ parent[u] = t
           /\ IF state[u] = "Dead"
              THEN Goes(t, "awaited", u) /\ Stays(w)
                   /\ UNCHANGED <<state, waiters, fault>>
              ELSE /\ Goes(t, "awaited", u)
                   /\ waiters' = [waiters EXCEPT ![u] = Append(@, t)]
                   /\ state' = [state EXCEPT ![t] = "Blocked"]
                   /\ fault' = IF state[u] = "freed" THEN "use after free"
                                                     ELSE fault
                   /\ SwitchOut(w)
      /\ PoolUnchanged
      /\ UNCHANGED <<local, parent, listeners>>

\* The rest of await_task: the target is freed, and its handle is gone.
Consume(w) ==
  LET u == at[Top(w)][2]
  IN  /\ Runs(w, "awaited")
      /\ state' = [state EXCEPT ![u] = "freed"]
      /\ fault' = IF state[u] = "freed" THEN "double free" ELSE fault
      /\ parent' = [parent EXCEPT ![u] = None]
      /\ Goes(Top(w), "code", None)
      /\ Stays(w)
      /\ PoolUnchanged
      /\ UNCHANGED <<local, waiters, listeners, done>>

Drain(w) ==
  /\ Does(w, "drain")
  /\ Goes(Top(w), "drain", None)
  /\ Stays(w)
  /\ PoolUnchanged
  /\ UNCHANGED <<local, state, waiters, parent, listeners, fault>>

DrainDispatch(w) ==
  /\ Runs(w, "drain")
  /\ local[w] # <<>>
  /\ local' = [local EXCEPT ![w] = Tail(@)]
  /\ RunOne(w, Head(local[w]))
  /\ PoolUnchanged
  /\ UNCHANGED <<probe, stolen, waiters, parent, listeners, done>>

DrainReturns(w) ==
  /\ Runs(w, "drain")
  /\ local[w] = <<>>
  /\ Goes(Top(w), "code", None)
  /\ Stays(w)
  /\ PoolUnchanged
  /\ UNCHANGED <<local, state, waiters, parent, listeners, done, fault>>

\* A receive on an empty channel: the task puts itself on the wait list while
\* it holds the channel's mutex, marks itself blocked after releasing it, and
\* only then switches out.
Listen(w) ==
  LET t == Top(w)
  IN  /\ Does(w, "listen")
      /\ listeners' = Append(listeners, t)
      /\ Goes(t, "listed", None)
      /\ Stays(w)
      /\ PoolUnchanged
      /\ UNCHANGED <<local, state, waiters, parent, fault>>

MarkBlocked(w) ==
  /\ Runs(w, "listed")
  /\ state' = [state EXCEPT ![Top(w)] = "Blocked"]
  /\ Goes(Top(w), "blocked", None)
  /\ Stays(w)
  /\ PoolUnchanged
  /\ UNCHANGED <<local, waiters, parent, listeners, done, fault>>

Leave(w) ==
  /\ Runs(w, "blocked")
  /\ SwitchOut(w)
  /\ PoolUnchanged
  /\ UNCHANGED <<local, state, tasks, fault>>

\* A send of a task to the first that waits: wake puts it in the sender's own
\* local queue.
Wake(w) ==
  LET u == Head(listeners)
  IN  /\ Does(w, "wake")
      /\ listeners # <<>>
      /\ listeners' = Tail(listeners)
      /\ state' = [state EXCEPT ![u] = "Ready"]
      /\ fault' = IF state[u] = "freed" THEN "use after free" ELSE fault
      /\ Enqueued(w, <<u>>)
      /\ Stays(w)
      /\ PoolUnchanged
      /\ UNCHANGED <<at, waiters, parent>>

----------------------------------------------------------------------------
TaskStep(w) ==
  \/ Yield(w) \/ Die(w) \/ Spawn(w) \/ Await(w) \/ Consume(w)
  \/ Drain(w) \/ DrainDispatch(w) \/ DrainReturns(w)
  \/ Listen(w) \/ MarkBlocked(w) \/ Leave(w) \/ Wake(w)

LoopStep(w) ==
  \/ Look(w) \/ TakeOwn(w) \/ TakeLocal(w) \/ NothingOwn(w)
  \/ Steal(w) \/ NothingThere(w) \/ Stash(w) \/ Unparked(w)
  \/ Match(w) \/ Reap(w)

CallStep(c) == Submit(c) \/ CallWait(c) \/ Shutdown(c)
ClientStep(c) ==
  Scan(c) \/ Push(c) \/ Unpark(c) \/ WaitReturns(c) \/ WakeAll(c) \/ Join(c)

\* After undefined behaviour the code promises nothing.
Next ==
  /\ fault = "none"
  /\ \/ \E w \in Workers : LoopStep(w) \/ TaskStep(w) \/ TimesOut(w)
     \/ \E c \in Clients : CallStep(c) \/ ClientStep(c)

Spec == Init /\ [][Next]_vars

\* A task that has been freed leaves its address to the next that is made, so
\* that clients can go on submitting for ever.
Recycle(t) ==
  /\ t \in Reused /\ state[t] = "freed" /\ Open
  /\ state' = [state EXCEPT ![t] = "unborn"]
  /\ at' = [at EXCEPT ![t] = New]
  /\ done' = [done EXCEPT ![t] = 0]
  /\ PoolUnchanged
  /\ UNCHANGED <<workers, waiters, parent, listeners, fault>>
RecyclingNext == Next \/ \E t \in PoolTasks : Recycle(t)

\* Threads keep running, and a task on a CPU gets on.  The 5 ms after which a
\* parked worker looks again may pass, but nothing relies on them.
Fairness ==
  /\ \A w \in Workers : WF_vars(fault = "none" /\ (LoopStep(w) \/ TaskStep(w)))
  /\ \A c \in Clients : WF_vars(fault = "none" /\ ClientStep(c))
EndlessSpec == Init /\ [][RecyclingNext]_vars /\ Fairness

----------------------------------------------------------------------------
(* Properties                                                              *)

\* Every variable of the pool keeps its type: a shared queue, a thief's hands,
\* a local queue and a call stack hold tasks; the count fits its word.
TypeOK ==
  /\ queues \in [Workers -> Seq(Tasks)]
  /\ notified \in [Workers -> BOOLEAN]
  /\ shutdown \in BOOLEAN
  /\ pending \in 0..UsizeMax
  /\ client \in [Clients -> [at : {"idle", "scan", "push", "unpark", "waiting",
                                   "wakeAll", "join", "gone"},
                             task : PoolTasks \cup {None},
                             i : Workers, best : Workers, len : 0..UsizeMax]]
  /\ pc \in [Workers -> {"loop", "own", "steal", "stash", "park", "run",
                         "match", "ran", "gone"}]
  /\ probe \in [Workers -> 1..N]
  /\ stolen \in [Workers -> Seq(Tasks)]
  /\ local \in [Workers -> Seq(Tasks)]
  /\ chain \in [Workers -> Seq(Tasks)]
  /\ state \in [Tasks -> {"unborn", "Ready", "Running", "Blocked", "Dead",
                          "freed"}]
  /\ fault \in {"none", "use after free", "double free", "two runners"}

\* A task that some worker's queue or a thief holds has not run yet: "Stealing
\* only relocates newly-spawned work, not in-flight tasks" (pool.rs:20).
OnlyNewWorkMoves ==
  \A w \in Workers :
    \A t \in Range(queues[w]) \cup Range(stolen[w]) :
      at[t] = New /\ state[t] = "Ready"

\* A worker that has found its queue empty, and may be asleep, is owed a
\* wake-up for whatever has come into it since: its latch is set, or the
\* client that pushed is about to set it (enqueue, park_with_timeout).
SleepersOwedWake ==
  \A w \in Workers :
    (queues[w] # <<>> /\ pc[w] \in {"steal", "park"}) =>
      \/ notified[w]
      \/ \E c \in Clients : ClientAt(c, "unpark") /\ client[c].best = w

\* What the proof of SleepersOwedWake needs besides: the types of what the
\* tasks do, a client that is going to push and a worker inside run_one have a
\* task, a thief has a victim left.
TasksTyped ==
  /\ at \in [Tasks -> {"new", "code", "awaited", "drain", "listed", "blocked"}
                      \X (Tasks \cup {None})]
  /\ waiters \in [Tasks -> Seq(Tasks)]
  /\ parent \in [Tasks -> Tasks \cup {None}]
  /\ listeners \in Seq(Tasks)
  /\ done \in [Tasks -> Nat]
CarriesTask ==
  \A c \in Clients : client[c].at \in {"scan", "push"} => client[c].task # None
InRunOne ==
  \A w \in Workers : pc[w] \in {"run", "match", "ran"} => chain[w] # <<>>
VictimLeft == \A w \in Workers : pc[w] = "steal" => probe[w] < N

AwakeInv ==
  /\ TypeOK /\ TasksTyped
  /\ CarriesTask /\ InRunOne /\ VictimLeft /\ SleepersOwedWake

\* What the proof of OnlyNewWorkMoves needs: what clients, shared queues and
\* thieves hold are tasks of the pool that never ran, each in one hand, and
\* whatever else refers to a task refers to none of these.
Fresh(t) == t \in PoolTasks /\ at[t] = New /\ state[t] = "Ready"
HandsHoldFresh ==
  /\ \A w \in Workers : \A t \in Range(queues[w]) \cup Range(stolen[w]) : Fresh(t)
  /\ \A c \in Clients : client[c].task # None => Fresh(client[c].task)
OneHand ==
  /\ \A w \in Workers : IsInjective(queues[w]) /\ IsInjective(stolen[w])
  /\ \A v, w \in Workers : Range(queues[v]) \cap Range(stolen[w]) = {}
  /\ \A v, w \in Workers : v # w =>
       /\ Range(queues[v]) \cap Range(queues[w]) = {}
       /\ Range(stolen[v]) \cap Range(stolen[w]) = {}
  /\ \A c \in Clients, w \in Workers :
       client[c].task \notin Range(queues[w]) \cup Range(stolen[w])
  /\ \A c, d \in Clients :
       c # d /\ client[c].task = client[d].task => client[c].task = None
Started(t) == t \in Children \/ at[t] # New
RestStarted ==
  /\ \A w \in Workers : \A t \in Range(chain[w]) : at[t] # New
  /\ \A w \in Workers : \A t \in Range(local[w]) : Started(t)
  /\ \A t \in Range(listeners) : Started(t)
  /\ \A u \in Tasks : \A t \in Range(waiters[u]) : Started(t)
  /\ \A t \in Tasks : at[t][1] = "awaited" => at[t][2] \in Children
  /\ \A t \in Tasks : state[t] = "unborn" => at[t] = New

IInv == AwakeInv /\ HandsHoldFresh /\ OneHand /\ RestStarted

\* Where a task is held: in a queue, by a thief, by a client, on a CPU.
Held(tag, lists, t) ==
  UNION {{<<tag, w, i>> : i \in {j \in DOMAIN lists[w] : lists[w][j] = t}} :
           w \in Workers}
OnCpu == [w \in Workers |-> IF pc[w] = "ran" THEN <<>> ELSE chain[w]]
Holders(t) ==
  Held("queue", queues, t) \cup Held("stolen", stolen, t) \cup
  Held("local", local, t) \cup Held("chain", OnCpu, t) \cup
  {<<"client", c>> : c \in {d \in Clients : client[d].task = t}}

\* "only one worker holds it at a time" (pool.rs:46): a task that can run is
\* held once, through stealing and yielding, and any other at most once.
HeldByOne ==
  \A t \in Tasks :
    IF state[t] \in {"Ready", "Running"} THEN Cardinality(Holders(t)) = 1
                                         ELSE Cardinality(Holders(t)) <= 1

\* wait_idle returns only when no submitted task can still run: the count is
\* never zero before (pending, fetch_add and fetch_sub).
IdleMeansDone ==
  pending = 0 => \A t \in PoolTasks : state[t] \notin {"Ready", "Running"}

\* After a shutdown nothing runs, and what was submitted and never ran has
\* been freed, wherever it was when the flag was set (Pool::shutdown).
ShutdownReclaims ==
  ClientAt(Owner, "gone") =>
    \A t \in PoolTasks :
      /\ state[t] # "Running"
      /\ state[t] = "Ready" => at[t] # New

\* A shutdown ends even if no 5 ms ever pass: no worker sleeps through it.
ShutdownEnds == shutdown ~> ClientAt(Owner, "gone")

\* A task that yielded runs again, whatever the other tasks and workers do, if
\* its worker's shared queue, which worker_main tries first, is empty from some
\* time on.
YieldedRuns ==
  \A w \in Workers :
    <>[](queues[w] = <<>>) =>
      \A t \in Tasks : t \in Range(local[w]) ~> (t \notin Range(local[w]) \/ shutdown)

----------------------------------------------------------------------------
(* What the comments say, and the model refutes.                           *)

\* "task is Dead - no outstanding references (waiters were flushed in
\* exit_current, the pool is the last owner of the handle)" (pool.rs:350):
\* nobody still waits for a task that was freed.
LastOwner ==
  \A t, u \in Tasks : at[t] = <<"awaited", u>> => state[u] # "freed"

\* Of a task that yielded nothing more than YieldedRuns holds: clients that go
\* on submitting keep the worker at its shared queue for ever.
YieldedAlwaysRuns ==
  \A w \in Workers : \A t \in Tasks :
    t \in Range(local[w]) ~> (t \notin Range(local[w]) \/ shutdown)
=============================================================================
