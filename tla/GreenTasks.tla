----------------------------- MODULE GreenTasks -----------------------------
(***************************************************************************)
(* The cooperative scheduler of zo-runtime on one OS thread: scheduler.rs, *)
(* the green half of task.rs, and the callers that park in it, channel.rs, *)
(* select.rs and net.rs.  One agent has the CPU at a time; the choices are *)
(* what its code calls next, when data arrives on an fd, and which of the  *)
(* ready fds the kernel reports first.                                     *)
(***************************************************************************)
EXTENDS Integers, Sequences, FiniteSets, Functions

CONSTANTS
  Tasks,         \* green tasks, a name for each ZoTask ever allocated
  Main,          \* the code that runs on the OS thread itself
  None,          \* no task, no context
  Chans,         \* channels
  TimedChans,    \* those that are received from with a deadline
  Arms,          \* the channels of a select, in the order of its arms
  Capacity,      \* the capacity every channel was made with
  Calls,         \* the calls each agent's code may make
  MaxCalls,      \* bound: calls each agent's code makes before it ends
  PollInterval,  \* SELECTOR_POLL_INTERVAL
  PanicUnwinds   \* TRUE: a panic unwinds to the task's shim; FALSE: it aborts

Agents == Tasks \cup {Main}
CallNames == {"spawn", "await", "send", "recv", "timed", "close", "select",
              "read", "drain", "fail"}

ASSUME NamesAssumption == Main \notin Tasks /\ None \notin Agents
ASSUME TasksAssumption == IsFiniteSet(Tasks)
ASSUME ArmsAssumption == Arms \in Seq(Chans) /\ TimedChans \subseteq Chans
ASSUME CallsAssumption == Calls \in [Agents -> SUBSET CallNames]
ASSUME NumbersAssumption ==
  /\ Capacity \in Nat
  /\ MaxCalls \in [Agents -> Nat]
  /\ PollInterval \in Nat \ {0}
ASSUME BuildAssumption == PanicUnwinds \in BOOLEAN

VARIABLES
  cpu,       \* the agent whose stack the thread runs on
  pc,        \* where each agent is: <<place, argument>>
  left,      \* calls each agent's code may still make
  frame,     \* the locals of the run_one on each agent's stack, if any
  current,   \* SchedulerState.current
  schCtx,    \* SchedulerState.ctx: whose stack a yield switches to
  runQueue,  \* SchedulerState.run_queue
  tick,      \* SchedulerState.tick, modulo PollInterval
  ioWait,    \* Selector.waiters: tasks parked on their fd
  readable,  \* agents on whose fd data is waiting
  state,     \* ZoTask.state, or "unborn", or "freed"
  outcome,   \* ZoTask.outcome
  waiters,   \* ZoTask.waiters
  parent,    \* who spawned each task
  chan,      \* the channels
  notified,  \* the latch of Main's PthreadPark
  halted     \* how the process ended, if it has

sched == <<frame, current, schCtx, tick>>
vars == <<cpu, pc, left, frame, current, schCtx, runQueue, tick, ioWait,
          readable, state, outcome, waiters, parent, chan, notified, halted>>

Bound == IF Capacity = 0 THEN 1 ELSE Capacity     \* capacity.max(1)
NoFrame == [task |-> None, current |-> None, ctx |-> None]
Code == <<"code", None>>
\* Who the runtime takes its caller for.
Caller == IF current = None THEN Main ELSE current

Init ==
  /\ cpu = Main
  /\ pc = [a \in Agents |-> Code]
  /\ left = MaxCalls
  /\ frame = [a \in Agents |-> NoFrame]
  /\ current = None
  /\ schCtx = None
  /\ runQueue = <<>>
  /\ tick = 0
  /\ ioWait = {}
  /\ readable = {}
  /\ state = [t \in Tasks |-> "unborn"]
  /\ outcome = [t \in Tasks |-> "Running"]
  /\ waiters = [t \in Tasks |-> <<>>]
  /\ parent = [t \in Tasks |-> None]
  /\ chan = [c \in Chans |-> [count |-> 0, closed |-> FALSE,
                              poisoned |-> FALSE,
                              senders |-> <<>>, receivers |-> <<>>]]
  /\ notified = FALSE
  /\ halted = "no"

----------------------------------------------------------------------------
(* Switching between stacks: run_one and yield_now.                        *)

At(a, place) == halted = "no" /\ cpu = a /\ pc[a][1] = place

Goto(a, place, arg) == pc' = [pc EXCEPT ![a] = <<place, arg>>]

\* The orders in which the kernel may report a set of ready fds.
Orders(S) == {s \in [1..Cardinality(S) -> S] : IsInjective(s)}

\* run_one, first half: d, which holds the CPU, switches into the head of
\* the run queue and keeps what it must restore in its own frame.
Dispatch(d) ==
  LET t == Head(runQueue)
  IN  /\ runQueue # <<>>
      /\ runQueue' = Tail(runQueue)
      /\ state' = [state EXCEPT ![t] = "Running"]
      /\ frame' = [frame EXCEPT ![d] = [task |-> t, current |-> current,
                                        ctx |-> schCtx]]
      /\ current' = t
      /\ schCtx' = d
      /\ cpu' = t
      /\ UNCHANGED <<left, tick, ioWait, readable, outcome, waiters, parent,
                     chan, notified, halted>>

\* What the loop that called run_one does once it returns: whether it counts
\* a tick, and whether it then polls the fds.
Ticks(d) == pc[d][1] \in {"drain", "sendParked", "recvParked"}
NextTick(d) == IF Ticks(d) THEN (tick + 1) % PollInterval ELSE tick
\* Mutant: only the loop of an await looks at the fds.
Polls_AwaitOnly(d) == pc[d][1] = "await"
Polls(d) == (Ticks(d) /\ NextTick(d) = 0) \/ pc[d][1] = "await"

\* Mutant: a nested run_one leaves the context of its own stack behind.
RestoredCtx_Never(f) == schCtx
\* The context is put back only under a task; Main's is still its own.
RestoredCtx(f) == IF f.current # None THEN f.ctx ELSE schCtx

\* Mutant: a task that yields goes to the front.
Requeued_Front(q, t) == <<t>> \o q
Requeued(q, t) == Append(q, t)

\* yield_now and run_one, second half: the agent on the CPU, which leaves the
\* task states `st`, the run queue `q` and the parked set `io`, switches to
\* schCtx; there the frame is restored, the task requeued if it can run, and
\* the fds are polled where that loop does so.
SwitchOut(st, q, io) ==
  LET d == schCtx
      f == frame[d]
      canRun == st[f.task] \in {"Running", "Ready"}
      st1 == IF canRun THEN [st EXCEPT ![f.task] = "Ready"] ELSE st
      q1 == IF canRun THEN Requeued(q, f.task) ELSE q
  IN  /\ cpu' = d
      /\ current' = f.current
      /\ schCtx' = RestoredCtx(f)
      /\ frame' = [frame EXCEPT ![d] = NoFrame]
      /\ tick' = NextTick(d)
      /\ \E woken \in Orders(IF Polls(d) THEN io \cap readable ELSE {}) :
           /\ runQueue' = q1 \o woken
           /\ ioWait' = io \ Range(woken)
           /\ state' = [t \in Tasks |->
                          IF t \in Range(woken) THEN "Ready" ELSE st1[t]]

\* A list without Main, which is on it once at most (IInv).
WithoutMain(list) ==
  IF Main \in Range(list)
  THEN LET i == CHOOSE i \in DOMAIN list : list[i] = Main
       IN  SubSeq(list, 1, i - 1) \o SubSeq(list, i + 1, Len(list))
  ELSE list

\* Tasks woken by the agent on the CPU, which keeps running.  Main is woken
\* through its latch.
Wake(ws) ==
  LET green == WithoutMain(ws)
  IN  /\ runQueue' = runQueue \o green
      /\ state' = [t \in Tasks |->
                     IF t \in Range(green) THEN "Ready" ELSE state[t]]
      /\ notified' = (notified \/ Main \in Range(ws))

\* drain_ready with nothing left to run: some parked tasks are woken, or
\* none is.  A poll that blocks comes back empty only if nobody waits.
PollWakes ==
  \E woken \in Orders(ioWait \cap readable) :
    /\ woken # <<>>
    /\ Wake(woken)
    /\ ioWait' = ioWait \ Range(woken)
PollWakesNone(blocking) ==
  \/ ioWait = {}
  \/ ~blocking /\ ioWait \cap readable = {}

----------------------------------------------------------------------------
(* The code of an agent: what it calls next.                               *)

Enters(a, call) ==
  /\ At(a, "code")
  /\ call \in Calls[a]
  /\ left[a] > 0
  /\ left' = [left EXCEPT ![a] = @ - 1]
Call(a, call, arg) ==
  /\ Enters(a, call)
  /\ Goto(a, call, arg)
  /\ UNCHANGED <<cpu, sched, runQueue, ioWait, readable, state, outcome,
                 waiters, parent, chan, notified, halted>>

CallSend(a) == \E c \in Chans : Call(a, "send", c)
CallRecv(a) == \E c \in Chans : Call(a, "recv", c)
CallTimed(a) == \E c \in TimedChans : Call(a, "timed", c)
CallSelect(a) == Call(a, "select", None)
CallRead(a) == Call(a, "read", None)
\* drain_all looks once, at its start, at whether a task is current.
CallDrain(a) == Call(a, "drain", current # None)

\* A handle is awaited by one agent, once: the contract of zo_task_await.
CallAwait(a) ==
  \E t \in Tasks \ {a} :
    /\ state[t] \notin {"unborn", "freed"}
    /\ \A b \in Agents : pc[b] \notin {<<"await", t>>, <<"awaited", t>>}
    /\ Call(a, "await", t)

Spawn(a) ==
  /\ Enters(a, "spawn")
  /\ \E t \in Tasks :
       /\ state[t] = "unborn"
       /\ state' = [state EXCEPT ![t] = "Ready"]
       /\ parent' = [parent EXCEPT ![t] = a]
       /\ runQueue' = Append(runQueue, t)
  /\ UNCHANGED <<cpu, pc, sched, ioWait, readable, outcome, waiters, chan,
                 notified, halted>>

----------------------------------------------------------------------------
(* The end of a task, and of the process.                                  *)

\* exit_current: the waiters are made ready before the task is left.
Die(t, how) ==
  LET ws == waiters[t]
  IN  /\ outcome' = [outcome EXCEPT ![t] = how]
      /\ waiters' = [waiters EXCEPT ![t] = <<>>]
      /\ SwitchOut([u \in Tasks |-> IF u = t THEN "Dead"
                                    ELSE IF u \in Range(ws) THEN "Ready"
                                    ELSE state[u]],
                   runQueue \o ws, ioWait)
      /\ UNCHANGED <<pc, left, readable, parent, chan, notified, halted>>

Halt(how) ==
  /\ halted' = how
  /\ UNCHANGED <<cpu, pc, left, sched, runQueue, ioWait, readable, state,
                 outcome, waiters, parent, chan, notified>>

Return(a) ==
  /\ At(a, "code")
  /\ IF a = Main THEN Halt("exited") ELSE Die(a, "Completed")

\* zo_check_fail: a task dies without unwinding, main ends the process.
CheckFail(a) ==
  /\ At(a, "code")
  /\ "fail" \in Calls[a]
  /\ IF a = Main THEN Halt("failed") ELSE Die(a, "Panicked")

\* A panic of the runtime on a's stack: caught by the task's shim, or not.
Panics(a) ==
  /\ At(a, "panics")
  /\ IF PanicUnwinds /\ a # Main THEN Die(a, "Panicked") ELSE Halt("aborted")

----------------------------------------------------------------------------
(* await_task                                                              *)

\* The struct is freed and a panic is raised again on the awaiter's stack.
Consume(a, t) ==
  /\ state' = [state EXCEPT ![t] = "freed"]
  /\ IF outcome[t] = "Panicked" THEN Goto(a, "panics", None)
                                ELSE pc' = [pc EXCEPT ![a] = Code]
  /\ UNCHANGED <<cpu, left, sched, runQueue, ioWait, readable, outcome,
                 waiters, parent, chan, notified, halted>>

AwaitDead(a) ==
  /\ At(a, "await")
  /\ state[pc[a][2]] = "Dead"
  /\ Consume(a, pc[a][2])

\* Mutant: the awaiter yields but is not marked as blocked.
AwaitPark_StaysRunning(a) ==
  LET t == pc[a][2]
  IN  /\ At(a, "await")
      /\ current # None
      /\ state[t] # "Dead"
      /\ waiters' = [waiters EXCEPT ![t] = Append(@, current)]
      /\ Goto(a, "awaited", t)
      /\ SwitchOut(state, runQueue, ioWait)
      /\ UNCHANGED <<left, readable, outcome, parent, chan, notified, halted>>

AwaitPark(a) ==
  LET t == pc[a][2]
  IN  /\ At(a, "await")
      /\ current # None
      /\ state[t] # "Dead"
      /\ waiters' = [waiters EXCEPT ![t] = Append(@, current)]
      /\ Goto(a, "awaited", t)
      /\ SwitchOut([state EXCEPT ![current] = "Blocked"], runQueue, ioWait)
      /\ UNCHANGED <<left, readable, outcome, parent, chan, notified, halted>>

\* The task resumes and consumes its target without another look at it.
AwaitResumed(a) == At(a, "awaited") /\ Consume(a, pc[a][2])

\* drain_until_dead, for an awaiter that is not a task.
Awaiting == At(Main, "await") /\ current = None /\ state[pc[Main][2]] # "Dead"
AwaitDispatch == Awaiting /\ Dispatch(Main) /\ UNCHANGED pc
\* Mutant: an empty run queue is taken for a deadlock at once.
AwaitIdle_NoPoll ==
  /\ Awaiting
  /\ runQueue = <<>>
  /\ Halt("deadlock")

AwaitIdle ==
  /\ Awaiting
  /\ runQueue = <<>>
  /\ \/ /\ PollWakes
        /\ UNCHANGED <<cpu, pc, left, sched, readable, outcome, waiters,
                       parent, chan, halted>>
     \/ PollWakesNone(TRUE) /\ Halt("deadlock")

----------------------------------------------------------------------------
(* drain_all, at the end of a nursery                                      *)

DrainDispatch(a) == At(a, "drain") /\ Dispatch(a) /\ UNCHANGED pc
\* Mutant: the loop never blocks for the fds, as if always nested.
DrainIdle_NeverBlocks(a) ==
  /\ At(a, "drain")
  /\ runQueue = <<>>
  /\ \/ PollWakes /\ UNCHANGED pc
     \/ /\ PollWakesNone(FALSE)
        /\ pc' = [pc EXCEPT ![a] = Code]
        /\ UNCHANGED <<runQueue, ioWait, state, notified>>
  /\ UNCHANGED <<cpu, left, sched, readable, outcome, waiters, parent, chan,
                 halted>>

DrainIdle(a) ==
  LET nested == pc[a][2]
  IN  /\ At(a, "drain")
      /\ runQueue = <<>>
      /\ \/ PollWakes /\ UNCHANGED pc
         \/ /\ PollWakesNone(~nested)
            /\ pc' = [pc EXCEPT ![a] = Code]
            /\ UNCHANGED <<runQueue, ioWait, state, notified>>
      /\ UNCHANGED <<cpu, left, sched, readable, outcome, waiters, parent,
                     chan, halted>>

----------------------------------------------------------------------------
(* Channels: the buffer's values are only counted, Channel has their order *)

Locked(a, place) == At(a, place) /\ ~chan[pc[a][2]].poisoned
PoisonedLock(a) ==
  /\ \E place \in {"send", "recv", "timed", "expired"} : At(a, place)
  /\ chan[pc[a][2]].poisoned
  /\ Goto(a, "panics", None)
  /\ UNCHANGED <<cpu, left, sched, runQueue, ioWait, readable, state, outcome,
                 waiters, parent, chan, notified, halted>>

FirstOf(list) == IF list = <<>> THEN <<>> ELSE <<Head(list)>>
RestOf(list) == IF list = <<>> THEN <<>> ELSE Tail(list)

Send(a) ==
  LET c == pc[a][2]
  IN  /\ Locked(a, "send")
      /\ ~chan[c].closed
      /\ chan[c].count < Bound
      /\ chan' = [chan EXCEPT ![c].count = @ + 1,
                              ![c].receivers = RestOf(@)]
      /\ Wake(FirstOf(chan[c].receivers))
      /\ pc' = [pc EXCEPT ![a] = Code]
      /\ UNCHANGED <<cpu, left, sched, ioWait, readable, outcome, waiters,
                     parent, halted>>

\* "send on closed zo-chan", raised with the channel locked.
SendClosed(a) ==
  LET c == pc[a][2]
  IN  /\ Locked(a, "send")
      /\ chan[c].closed
      /\ chan' = [chan EXCEPT ![c].poisoned = PanicUnwinds]
      /\ Goto(a, "panics", None)
      /\ UNCHANGED <<cpu, left, sched, runQueue, ioWait, readable, state,
                     outcome, waiters, parent, notified, halted>>

\* The caller has put itself on a wait list (chan' says which): a task blocks
\* and tries again once resumed; Main clears its latch and drives the queue.
Park(a, parked) ==
  IF current # None
  THEN /\ SwitchOut([state EXCEPT ![current] = "Blocked"], runQueue, ioWait)
       /\ UNCHANGED <<pc, left, readable, outcome, waiters, parent, notified,
                      halted>>
  ELSE /\ notified' = FALSE
       /\ Goto(a, parked, pc[a][2])
       /\ UNCHANGED <<cpu, left, sched, runQueue, ioWait, readable, state,
                      outcome, waiters, parent, halted>>

SendPark(a) ==
  LET c == pc[a][2]
  IN  /\ Locked(a, "send")
      /\ ~chan[c].closed
      /\ chan[c].count >= Bound
      /\ chan' = [chan EXCEPT ![c].senders = Append(@, Caller)]
      /\ Park(a, "sendParked")

\* Mutant: no parked sender is woken.
Pop_NoWake(a, c) ==
  /\ chan' = [chan EXCEPT ![c].count = @ - 1]
  /\ pc' = [pc EXCEPT ![a] = Code]
  /\ UNCHANGED <<cpu, left, sched, runQueue, ioWait, readable, state, outcome,
                 waiters, parent, notified, halted>>

\* Mutant: the woken sender stays on the wait list.
Pop_KeepsSender(a, c) ==
  /\ chan' = [chan EXCEPT ![c].count = @ - 1]
  /\ Wake(FirstOf(chan[c].senders))
  /\ pc' = [pc EXCEPT ![a] = Code]
  /\ UNCHANGED <<cpu, left, sched, ioWait, readable, outcome, waiters,
                 parent, halted>>

\* A value is popped from c and one parked sender is woken.
Pop(a, c) ==
  /\ chan' = [chan EXCEPT ![c].count = @ - 1, ![c].senders = RestOf(@)]
  /\ Wake(FirstOf(chan[c].senders))
  /\ pc' = [pc EXCEPT ![a] = Code]
  /\ UNCHANGED <<cpu, left, sched, ioWait, readable, outcome, waiters,
                 parent, halted>>

Recv(a) ==
  /\ Locked(a, "recv") \/ Locked(a, "timed")
  /\ chan[pc[a][2]].count > 0
  /\ Pop(a, pc[a][2])

\* Closed and drained, or past the deadline: the caller returns empty-handed.
RecvNothing(a) ==
  LET c == pc[a][2]
  IN  /\ \/ Locked(a, "recv") /\ chan[c].closed
         \/ Locked(a, "timed")
      /\ chan[c].count = 0
      /\ pc' = [pc EXCEPT ![a] = Code]
      /\ UNCHANGED <<cpu, left, sched, runQueue, ioWait, readable, state,
                     outcome, waiters, parent, chan, notified, halted>>

RecvPark(a) ==
  LET c == pc[a][2]
  IN  /\ Locked(a, "recv") \/ Locked(a, "timed")
      /\ chan[c].count = 0
      /\ ~chan[c].closed
      /\ chan' = [chan EXCEPT ![c].receivers = Append(@, Caller)]
      /\ Park(a, IF pc[a][1] = "recv" THEN "recvParked" ELSE "timedParked")

Close(a) ==
  \E c \in Chans :
    /\ Enters(a, "close")
    /\ IF chan[c].poisoned THEN Goto(a, "panics", None) ELSE UNCHANGED pc
    /\ IF chan[c].poisoned \/ chan[c].closed
       THEN UNCHANGED <<chan, runQueue, state, notified>>
       ELSE /\ chan' = [chan EXCEPT ![c].closed = TRUE,
                                    ![c].senders = <<>>, ![c].receivers = <<>>]
            /\ Wake(chan[c].senders \o chan[c].receivers)
    /\ UNCHANGED <<cpu, sched, ioWait, readable, outcome, waiters, parent,
                   halted>>

----------------------------------------------------------------------------
(* park_thread_cooperative: Main drives the queue until its latch is set.  *)

Parked == At(Main, "sendParked") \/ At(Main, "recvParked")
Retry == CASE pc[Main][1] = "sendParked" -> "send"
           [] pc[Main][1] = "recvParked" -> "recv"
           [] pc[Main][1] = "timedParked" -> "timed"
Notified ==
  /\ Parked \/ At(Main, "timedParked")
  /\ notified
  /\ Goto(Main, Retry, pc[Main][2])
  /\ UNCHANGED <<cpu, left, sched, runQueue, ioWait, readable, state, outcome,
                 waiters, parent, chan, notified, halted>>
ParkDispatch == Parked /\ ~notified /\ Dispatch(Main) /\ UNCHANGED pc
ParkIdle ==
  /\ Parked /\ ~notified
  /\ runQueue = <<>>
  /\ PollWakes
  /\ UNCHANGED <<cpu, pc, left, sched, readable, outcome, waiters, parent,
                 chan, halted>>

\* The loop of zo_chan_recv_timeout: it never polls the fds, and looks at the
\* clock after the task it ran, before it looks at its latch again.
TimedDispatch ==
  /\ At(Main, "timedParked") /\ ~notified
  /\ Dispatch(Main)
  /\ Goto(Main, "timedRan", pc[Main][2])
TimedAgain ==
  /\ At(Main, "timedRan")
  /\ Goto(Main, "timedParked", pc[Main][2])
  /\ UNCHANGED <<cpu, left, sched, runQueue, ioWait, readable, state, outcome,
                 waiters, parent, chan, notified, halted>>
TimedOut ==
  /\ \/ At(Main, "timedRan")
     \/ At(Main, "timedParked") /\ ~notified /\ runQueue = <<>>
  /\ Goto(Main, "expired", pc[Main][2])
  /\ UNCHANGED <<cpu, left, sched, runQueue, ioWait, readable, state, outcome,
                 waiters, parent, chan, notified, halted>>
TimedExpired ==
  LET c == pc[Main][2]
  IN  /\ Locked(Main, "expired")
      /\ chan' = [chan EXCEPT ![c].receivers = WithoutMain(@)]
      /\ pc' = [pc EXCEPT ![Main] = Code]
      /\ UNCHANGED <<cpu, left, sched, runQueue, ioWait, readable, state,
                     outcome, waiters, parent, notified, halted>>

----------------------------------------------------------------------------
(* zo_select_wait                                                          *)

Fires(i) == chan[Arms[i]].count > 0 \/ chan[Arms[i]].poisoned
Selects(a) == {i \in DOMAIN Arms : Fires(i) /\ \A j \in 1..i-1 : ~Fires(j)}

SelectFires(a) ==
  /\ At(a, "select")
  /\ \E i \in Selects(a) :
       IF chan[Arms[i]].poisoned
       THEN /\ Goto(a, "panics", None)
            /\ UNCHANGED <<cpu, left, sched, runQueue, ioWait, readable, state,
                           outcome, waiters, parent, chan, notified, halted>>
       ELSE Pop(a, Arms[i])

SelectYield(a) ==
  /\ At(a, "select")
  /\ Selects(a) = {}
  /\ current # None
  /\ SwitchOut(state, runQueue, ioWait)
  /\ UNCHANGED <<pc, left, readable, outcome, waiters, parent, chan, notified,
                 halted>>

SelectDispatch ==
  /\ At(Main, "select") /\ Selects(Main) = {} /\ current = None
  /\ Dispatch(Main)
  /\ UNCHANGED pc

SelectIdle ==
  /\ At(Main, "select") /\ Selects(Main) = {} /\ current = None
  /\ runQueue = <<>>
  /\ PollWakes
  /\ UNCHANGED <<cpu, pc, left, sched, readable, outcome, waiters, parent,
                 chan, halted>>

----------------------------------------------------------------------------
(* I/O: each agent has an fd of its own.                                   *)

\* A read takes what is there; outside a task it waits in the kernel for it.
Read(a) ==
  /\ At(a, "read")
  /\ a \in readable
  /\ readable' = readable \ {a}
  /\ pc' = [pc EXCEPT ![a] = Code]
  /\ UNCHANGED <<cpu, left, sched, runQueue, ioWait, state, outcome, waiters,
                 parent, chan, notified, halted>>

ReadPark(a) ==
  /\ At(a, "read")
  /\ a \notin readable
  /\ current # None
  /\ SwitchOut([state EXCEPT ![current] = "Blocked"], runQueue,
               ioWait \cup {current})
  /\ UNCHANGED <<pc, left, readable, outcome, waiters, parent, chan, notified,
                 halted>>

\* Data arrives from outside the process.
Arrive(a) ==
  /\ halted = "no"
  /\ "read" \in Calls[a]
  /\ readable' = readable \cup {a}
  /\ UNCHANGED <<cpu, pc, left, sched, runQueue, ioWait, state, outcome,
                 waiters, parent, chan, notified, halted>>

----------------------------------------------------------------------------
CallStep(a) ==
  \/ CallSend(a) \/ CallRecv(a) \/ CallTimed(a) \/ CallSelect(a)
  \/ CallRead(a) \/ CallDrain(a) \/ CallAwait(a) \/ Spawn(a) \/ Close(a)

RunStep(a) ==
  \/ Return(a) \/ CheckFail(a) \/ Panics(a)
  \/ AwaitDead(a) \/ AwaitPark(a) \/ AwaitResumed(a)
  \/ DrainDispatch(a) \/ DrainIdle(a)
  \/ PoisonedLock(a) \/ Send(a) \/ SendClosed(a) \/ SendPark(a)
  \/ Recv(a) \/ RecvNothing(a) \/ RecvPark(a)
  \/ SelectFires(a) \/ SelectYield(a) \/ Read(a) \/ ReadPark(a)

MainStep ==
  \/ AwaitDispatch \/ AwaitIdle \/ Notified \/ ParkDispatch \/ ParkIdle
  \/ TimedDispatch \/ TimedAgain \/ TimedOut \/ TimedExpired
  \/ SelectDispatch \/ SelectIdle

ThreadStep == MainStep \/ \E a \in Agents : CallStep(a) \/ RunStep(a)

Next == ThreadStep \/ \E a \in Agents : Arrive(a)

Spec == Init /\ [][Next]_vars

\* The OS runs the thread; nothing is promised of the outside world.
FairSpec == Spec /\ WF_vars(ThreadStep)
----------------------------------------------------------------------------
(* Properties                                                              *)

\* Where an agent can be, and for which channel, task or kind of nursery.
Nodes ==
  ({"code", "panics", "select", "read"} \X {None})
  \cup ({"send", "recv", "timed", "sendParked", "recvParked", "timedParked",
         "timedRan", "expired"} \X Chans)
  \cup ({"await", "awaited"} \X Tasks)
  \cup ({"drain"} \X BOOLEAN)

\* Every variable keeps its type: the shape of SchedulerState, ZoTask and
\* ChannelInner.
TypeOK ==
  /\ cpu \in Agents
  /\ pc \in [Agents -> Nodes]
  /\ left \in [Agents -> Nat]
  /\ frame \in [Agents -> [task : Tasks \cup {None}, current : Tasks \cup {None},
                           ctx : Agents \cup {None}]]
  /\ current \in Tasks \cup {None}
  /\ schCtx \in Agents \cup {None}
  /\ runQueue \in Seq(Tasks)
  /\ tick \in 0..PollInterval - 1
  /\ ioWait \subseteq Tasks
  /\ readable \subseteq Agents
  /\ state \in [Tasks -> {"unborn", "Ready", "Running", "Blocked", "Dead",
                          "freed"}]
  /\ outcome \in [Tasks -> {"Running", "Completed", "Panicked"}]
  /\ waiters \in [Tasks -> Seq(Tasks)]
  /\ parent \in [Tasks -> Agents \cup {None}]
  /\ chan \in [Chans -> [count : 0..Bound, closed : BOOLEAN, poisoned : BOOLEAN,
                         senders : Seq(Agents), receivers : Seq(Agents)]]
  /\ notified \in BOOLEAN
  /\ halted \in {"no", "exited", "failed", "aborted", "deadlock"}

\* The agents that are inside run_one: they dispatched a task and wait, on
\* their own stack, for it to be switched out.
Driving == {d \in Agents : frame[d] # NoFrame}

\* Re-entrant dispatch keeps its books: whoever runs is the current task, a
\* yield goes to the run_one that dispatched it, and every suspended run_one
\* will put back the current task and the context of its own caller, down to
\* Main (run_one, scheduler.rs).
ChainSound ==
  /\ current = IF cpu = Main THEN None ELSE cpu
  /\ cpu \notin Driving
  /\ cpu # Main => schCtx \in Driving /\ frame[schCtx].task = cpu
  /\ \A d \in Driving :
       IF d = Main THEN frame[d].current = None
       ELSE /\ frame[d].current = d
            /\ frame[d].ctx \in Driving
            /\ frame[frame[d].ctx].task = d

\* Where a task is parked: its places on wait lists.
Spots(list, t, tag) == {<<tag, i>> : i \in {j \in DOMAIN list : list[j] = t}}
ParkedAt(t) ==
  (UNION {Spots(chan[c].senders, t, <<"send", c>>) : c \in Chans}) \cup
  (UNION {Spots(chan[c].receivers, t, <<"recv", c>>) : c \in Chans}) \cup
  (UNION {Spots(waiters[u], t, <<"await", u>>) : u \in Tasks}) \cup
  (IF t \in ioWait THEN {<<<<"read", t>>, 1>>} ELSE {})

\* A task is where its state says and nowhere else: a ready one is once in
\* the run queue, a running one on the chain of dispatches, a blocked one on
\* exactly one wait list; a dead or freed one is referred to by none of them.
OnePlace ==
  \A t \in Tasks :
    /\ Cardinality(Spots(runQueue, t, "ready")) =
         IF state[t] = "Ready" THEN 1 ELSE 0
    /\ Cardinality({d \in Driving : frame[d].task = t}) =
         IF state[t] = "Running" THEN 1 ELSE 0
    /\ Cardinality(ParkedAt(t)) = IF state[t] = "Blocked" THEN 1 ELSE 0

\* A task that waits for another runs again only once that one is dead, and
\* nobody waits for a task whose struct is gone: await_task frees its target
\* on resuming, without another look at it.
AwaitedIsDead ==
  \A a \in Agents :
    /\ pc[a][1] \in {"await", "awaited"} =>
         state[pc[a][2]] \notin {"unborn", "freed"}
    /\ (pc[a][1] = "awaited" /\ a \in Tasks /\ state[a] # "Blocked") =>
         state[pc[a][2]] = "Dead"

\* Agents on their way back to a channel: calling, or popped from its list.
Coming(c, calls, list) ==
  {a \in Agents : pc[a] \in {<<p, c>> : p \in calls} /\ a \notin Range(list)}

\* Nobody oversleeps on a channel: while a receiver is parked every value has
\* a receiver of its own coming for it, while a sender is parked every free
\* slot has its sender, and a closed channel has nobody parked.  The part of
\* the receivers needs that none of them gives up at a deadline.
NobodyOversleeps ==
  \A c \in Chans :
    LET ch == chan[c]
    IN  /\ (ch.receivers # <<>> /\ c \notin TimedChans) =>
             ch.count <= Cardinality(Coming(c, {"recv", "recvParked"},
                                            ch.receivers))
        /\ ch.senders # <<>> =>
             Bound - ch.count <= Cardinality(Coming(c, {"send", "sendParked"},
                                                    ch.senders))
        /\ ch.closed => ch.senders = <<>> /\ ch.receivers = <<>>

\* "deadlock: awaited task is Blocked" is said only when nothing can run and
\* nothing waits for its fd (drain_until_dead).
DeadlockIsGenuine ==
  halted = "deadlock" =>
    ioWait = {} /\ \A t \in Tasks : state[t] \notin {"Ready", "Running"}

Done(t) == state[t] \in {"unborn", "Dead", "freed"}
DrainReturns(a) == pc[a][1] = "drain" /\ pc'[a] = Code

\* What Main's nursery leaves behind when it is left are tasks that wait for
\* another task or on a channel, never one that could run or wait for its fd.
NurseryRunsAllItCan ==
  [][DrainReturns(Main) =>
       \A t \in Tasks : Done(t) \/ (state[t] = "Blocked" /\ t \notin ioWait)]_vars

\* A ready task gets the CPU: the run queue is round-robin whoever drives it.
ReadyRuns ==
  \A t \in Tasks : (state[t] = "Ready") ~> (state[t] # "Ready" \/ halted # "no")

\* A task whose fd has become ready is put back in the run queue even if the
\* queue is never empty.
ArrivalsServed ==
  \A t \in Tasks :
    (t \in ioWait /\ t \in readable) ~> (t \notin ioWait \/ halted # "no")

----------------------------------------------------------------------------
(* What the documentation says, and the model refutes.                     *)

\* "The execution block cannot exit until every spawned green thread unwinds
\* completely" (023-concurrency.md:7): the tasks an agent spawned are dead
\* once its nursery is left.
NurseryWaits ==
  [][\A a \in Agents : DrainReturns(a) =>
       \A t \in Tasks : parent[t] = a => Done(t)]_vars

\* A select lets "any producer on the arm channels" progress (select.rs:85):
\* a driver whose children are all dead gets out of its nursery.
DriversProgress ==
  \A a \in Tasks :
    (pc[a][1] = "drain" /\ \A t \in Tasks : parent[t] = a => Done(t))
      ~> (pc[a][1] # "drain" \/ halted # "no")

----------------------------------------------------------------------------
(* The inductive invariant.                                                *)

\* The chain of dispatches is a chain: each driver runs a task that drives the
\* next or has the CPU, and no drivers run each other in a circle.
ChainOK ==
  /\ ChainSound
  /\ \A d \in Driving : frame[d].task \in Tasks
                        /\ (frame[d].task = cpu \/ frame[d].task \in Driving)
  /\ \A d, e \in Driving : frame[d].task = frame[e].task => d = e
  /\ \A D \in SUBSET Driving : (\A d \in D : frame[d].task \in D) => D = {}

\* The run queue holds the ready tasks, the frames the running ones.
QueueOK ==
  /\ IsInjective(runQueue)
  /\ \A t \in Tasks :
       /\ t \in Range(runQueue) <=> state[t] = "Ready"
       /\ state[t] = "Running" <=> \E d \in Driving : frame[d].task = t

\* A blocked task is on the list for which it stopped, and nobody else is.
Waits(t) ==
  \/ t \in ioWait
  \/ \E u \in Tasks : t \in Range(waiters[u])
  \/ \E c \in Chans : t \in Range(chan[c].senders) \cup Range(chan[c].receivers)
ParkOK ==
  /\ \A c \in Chans : IsInjective(chan[c].senders) /\ IsInjective(chan[c].receivers)
  /\ \A u \in Tasks : IsInjective(waiters[u])
  /\ \A t \in Tasks : state[t] = "Blocked" <=> Waits(t)
  /\ \A t \in ioWait : pc[t] = <<"read", None>>
  /\ \A u \in Tasks : \A t \in Range(waiters[u]) : pc[t] = <<"awaited", u>>
  /\ \A c \in Chans :
       /\ \A t \in Range(chan[c].senders) \ {Main} : pc[t] = <<"send", c>>
       /\ \A t \in Range(chan[c].receivers) \ {Main} :
            pc[t] \in {<<"recv", c>>, <<"timed", c>>}

\* Main is on a list while it is parked there, or has died of a poisoned lock.
MainOK ==
  /\ pc[Main] # <<"drain", TRUE>> /\ pc[Main][1] # "awaited"
  /\ \A c \in Chans :
       /\ Main \in Range(chan[c].senders) =>
            ~notified /\ pc[Main] = <<"sendParked", c>>
       /\ Main \in Range(chan[c].receivers) =>
            /\ pc[Main] \in {<<"panics", None>>} \cup
                 ({"recvParked", "timedParked", "timedRan", "expired"} \X {c})
            /\ pc[Main][1] \in {"recvParked", "timedParked", "timedRan"} => ~notified

\* One agent has a handle, another than the task itself; while the task is
\* alive an agent that waits for it is on its list.
AwaitOK ==
  /\ \A a, b \in Agents :
       pc[a][1] \in {"await", "awaited"} /\ pc[b][1] \in {"await", "awaited"}
         /\ pc[a][2] = pc[b][2] => a = b
  /\ \A a \in Agents :
       pc[a][1] \in {"await", "awaited"} =>
         pc[a][2] # a /\ state[pc[a][2]] \notin {"unborn", "freed"}
  /\ \A a \in Tasks :
       pc[a][1] = "awaited" /\ state[a] # "Blocked" => state[pc[a][2]] = "Dead"
  /\ \A u \in Tasks : state[u] \in {"Dead", "freed"} => waiters[u] = <<>>

\* A process that ends in a deadlock has nothing to run.
HaltOK == halted = "deadlock" => cpu = Main /\ runQueue = <<>> /\ ioWait = {}

IInv == TypeOK /\ ChainOK /\ QueueOK /\ ParkOK /\ MainOK /\ AwaitOK /\ HaltOK
=============================================================================
