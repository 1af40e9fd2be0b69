------------------------------ MODULE Channel ------------------------------
(***************************************************************************)
(* The bounded channel of zo-runtime (channel.rs) as OS threads use it.    *)
(* A section of code that runs under the channel's mutex is one step; the  *)
(* wake-ups it owes happen after the unlock, in steps of their own, so     *)
(* every interleaving of waiters, wakers, barging callers, close, and      *)
(* deadlines is explored.  Green tasks of one scheduler are in GreenTasks. *)
(***************************************************************************)
EXTENDS Integers, Sequences, FiniteSets, Functions

CONSTANTS
  Threads,         \* OS threads holding the channel's handle
  Senders,         \* threads that call zo_chan_send
  Receivers,       \* threads that call zo_chan_recv
  TimedReceivers,  \* threads that call zo_chan_recv_timeout
  Pollers,         \* threads that call try_recv_nonblocking
  Closers,         \* threads that call zo_chan_close
  Slots,           \* bound: names for the PthreadParks a thread allocates
  NoPark,          \* "this thread has no PthreadPark"
  Capacity,        \* the capacity given to zo_chan_new
  MaxSends,        \* bound: sends a thread starts
  PanicUnwinds     \* TRUE: a panic unwinds (dev build); FALSE: it aborts

ASSUME RolesAssumption ==
  /\ Senders \subseteq Threads
  /\ Receivers \subseteq Threads
  /\ TimedReceivers \subseteq Threads
  /\ Pollers \subseteq Threads
  /\ Closers \subseteq Threads
  /\ IsFiniteSet(Threads)
ASSUME ParksAssumption == NoPark \notin Threads \X Slots
ASSUME NumbersAssumption == Capacity \in Nat /\ MaxSends \in Nat
ASSUME PanicAssumption == PanicUnwinds \in BOOLEAN

VARIABLES
  queue,      \* ChannelInner.queue: messages, oldest first
  closed,     \* ChannelInner.closed
  senders,    \* ChannelInner.senders: parks of the callers waiting for room
  receivers,  \* ChannelInner.receivers: parks of those waiting for a value
  notified,   \* the parks whose latch is set
  pc,         \* where each thread is
  park,       \* the park each thread holds while it waits
  waking,     \* parks a thread popped under the lock and has still to wake
  sent,       \* sends each thread has started
  delivered,  \* every value popped so far, in pop order
  fault       \* what the first panic did: poison the mutex, or abort

vars == <<queue, closed, senders, receivers, notified, pc, park, waking,
          sent, delivered, fault>>

Bound == IF Capacity = 0 THEN 1 ELSE Capacity     \* capacity.max(1)
\* A park is named after the thread that allocates it; a slot is used again
\* once neither its thread nor a waker refers to the park.
Parks == Threads \X Slots
Messages == Senders \X (1..MaxSends)

\* The points at which a thread is about to take the channel's mutex.
LockPoints == {"send", "recv", "timed", "timedExpired", "try", "close"}
Waits == {"sendParked", "recvParked", "timedParked"}
Places == {"idle", "waking", "panicked"} \cup LockPoints \cup Waits

Init ==
  /\ queue = <<>> /\ closed = FALSE
  /\ senders = <<>> /\ receivers = <<>>
  /\ notified = {}
  /\ pc = [t \in Threads |-> "idle"]
  /\ park = [t \in Threads |-> NoPark]
  /\ waking = [t \in Threads |-> <<>>]
  /\ sent = [t \in Threads |-> 0]
  /\ delivered = <<>>
  /\ fault = "none"

----------------------------------------------------------------------------
(* Entering a call.                                                        *)

Call(t, op, role) ==
  /\ t \in role
  /\ pc[t] = "idle"
  /\ pc' = [pc EXCEPT ![t] = op]
  /\ UNCHANGED <<queue, closed, senders, receivers, notified, park, waking,
                 delivered, fault>>

CallSend(t) ==
  /\ Call(t, "send", Senders)
  /\ sent[t] < MaxSends
  /\ sent' = [sent EXCEPT ![t] = @ + 1]
CallRecv(t) == Call(t, "recv", Receivers) /\ UNCHANGED sent
CallTimed(t) == Call(t, "timed", TimedReceivers) /\ UNCHANGED sent
CallTry(t) == Call(t, "try", Pollers) /\ UNCHANGED sent
CallClose(t) == Call(t, "close", Closers) /\ UNCHANGED sent

----------------------------------------------------------------------------
(* Pieces of the critical sections.                                        *)

\* The mutex is taken: some thread panicked while holding it, or none did.
Locks(t, at) == pc[t] = at /\ fault = "none"

\* The parks no thread or waker still refers to.
FreeParks ==
  {p \in Parks : /\ \A t \in Threads : park[t] # p
                 /\ \A t \in Threads : p \notin Range(waking[t])}

\* A fresh park p for thread t, which waits at `place` once it unlocks.
ParkAt(t, p, place) ==
  /\ p[1] = t
  /\ p \in FreeParks
  /\ park' = [park EXCEPT ![t] = p]
  /\ notified' = notified \ {p}
  /\ pc' = [pc EXCEPT ![t] = place]

\* The thread unlocks owing the wake-ups `ws`; with none it returns.
Unlock(t, ws) ==
  /\ waking' = [waking EXCEPT ![t] = ws]
  /\ pc' = [pc EXCEPT ![t] = IF ws = <<>> THEN "idle" ELSE "waking"]

\* At most the first waiter of a list: what pop_front gives.
FirstOf(list) == IF list = <<>> THEN <<>> ELSE <<Head(list)>>
RestOf(list) == IF list = <<>> THEN <<>> ELSE Tail(list)

\* A list without one park: a park is registered at most once.
Without(list, p) ==
  IF p \in Range(list)
  THEN LET i == CHOOSE i \in 1..Len(list) : list[i] = p
       IN  SubSeq(list, 1, i - 1) \o SubSeq(list, i + 1, Len(list))
  ELSE list

Return(t) ==
  /\ pc' = [pc EXCEPT ![t] = "idle"]
  /\ UNCHANGED waking

----------------------------------------------------------------------------
(* zo_chan_send                                                            *)

\* Mutant: only the send that finds the buffer empty wakes a receiver.
SendPush_WakeIfEmpty(t) ==
  /\ Locks(t, "send")
  /\ ~closed
  /\ Len(queue) < Bound
  /\ queue' = Append(queue, <<t, sent[t]>>)
  /\ receivers' = IF queue = <<>> THEN RestOf(receivers) ELSE receivers
  /\ Unlock(t, IF queue = <<>> THEN FirstOf(receivers) ELSE <<>>)
  /\ UNCHANGED <<closed, senders, notified, park, sent, delivered, fault>>

\* Mutant: a send wakes nobody.
SendPush_NoWake(t) ==
  /\ Locks(t, "send")
  /\ ~closed
  /\ Len(queue) < Bound
  /\ queue' = Append(queue, <<t, sent[t]>>)
  /\ Return(t)
  /\ UNCHANGED <<closed, senders, receivers, notified, park, sent, delivered,
                 fault>>

SendPush(t) ==
  /\ Locks(t, "send")
  /\ ~closed
  /\ Len(queue) < Bound
  /\ queue' = Append(queue, <<t, sent[t]>>)
  /\ receivers' = RestOf(receivers)
  /\ Unlock(t, FirstOf(receivers))
  /\ UNCHANGED <<closed, senders, notified, park, sent, delivered, fault>>

SendPark(t) ==
  /\ Locks(t, "send")
  /\ ~closed
  /\ Len(queue) >= Bound
  /\ \E p \in Parks :
       /\ ParkAt(t, p, "sendParked")
       /\ senders' = Append(senders, p)
  /\ UNCHANGED <<queue, closed, receivers, waking, sent, delivered, fault>>

\* "send on closed zo-chan": the panic is raised with the guard alive, so
\* unwinding poisons the mutex; without unwinding the process ends.
SendClosed(t) ==
  /\ Locks(t, "send")
  /\ closed
  /\ fault' = IF PanicUnwinds THEN "poisoned" ELSE "aborted"
  /\ pc' = [pc EXCEPT ![t] = "panicked"]
  /\ UNCHANGED <<queue, closed, senders, receivers, notified, park, waking,
                 sent, delivered>>

----------------------------------------------------------------------------
(* zo_chan_recv, zo_chan_recv_timeout and try_recv_nonblocking             *)

\* Mutant: only the receive that finds the buffer full wakes a sender.
Pop_WakeIfFull(t, at) ==
  /\ Locks(t, at)
  /\ queue # <<>>
  /\ queue' = Tail(queue)
  /\ delivered' = Append(delivered, Head(queue))
  /\ senders' = IF Len(queue) = Bound THEN RestOf(senders) ELSE senders
  /\ Unlock(t, IF Len(queue) = Bound THEN FirstOf(senders) ELSE <<>>)
  /\ UNCHANGED <<closed, receivers, notified, park, sent, fault>>

\* Mutant: the youngest value is popped.
Pop_Back(t, at) ==
  /\ Locks(t, at)
  /\ queue # <<>>
  /\ queue' = SubSeq(queue, 1, Len(queue) - 1)
  /\ delivered' = Append(delivered, queue[Len(queue)])
  /\ senders' = RestOf(senders)
  /\ Unlock(t, FirstOf(senders))
  /\ UNCHANGED <<closed, receivers, notified, park, sent, fault>>

\* Pop the oldest value and owe one parked sender its wake-up.
Pop(t, at) ==
  /\ Locks(t, at)
  /\ queue # <<>>
  /\ queue' = Tail(queue)
  /\ delivered' = Append(delivered, Head(queue))
  /\ senders' = RestOf(senders)
  /\ Unlock(t, FirstOf(senders))
  /\ UNCHANGED <<closed, receivers, notified, park, sent, fault>>

\* Closed and drained: the destination is zero-filled, nothing is popped.
ZeroFill(t, at) ==
  /\ Locks(t, at)
  /\ queue = <<>>
  /\ closed
  /\ Return(t)
  /\ UNCHANGED <<queue, closed, senders, receivers, notified, park, sent,
                 delivered, fault>>

\* Mutant: a receiver parks without looking at the closed flag.
RecvParkAt_EvenClosed(t, at, place) ==
  /\ Locks(t, at)
  /\ queue = <<>>
  /\ \E p \in Parks :
       /\ ParkAt(t, p, place)
       /\ receivers' = Append(receivers, p)
  /\ UNCHANGED <<queue, closed, senders, waking, sent, delivered, fault>>

RecvParkAt(t, at, place) ==
  /\ Locks(t, at)
  /\ queue = <<>>
  /\ ~closed
  /\ \E p \in Parks :
       /\ ParkAt(t, p, place)
       /\ receivers' = Append(receivers, p)
  /\ UNCHANGED <<queue, closed, senders, waking, sent, delivered, fault>>

RecvPop(t) == Pop(t, "recv")
RecvClosed(t) == ZeroFill(t, "recv")
RecvPark(t) == RecvParkAt(t, "recv", "recvParked")

TryPop(t) == Pop(t, "try")
TryEmpty(t) ==      \* empty: false, whether or not the channel is closed
  /\ Locks(t, "try")
  /\ queue = <<>>
  /\ Return(t)
  /\ UNCHANGED <<queue, closed, senders, receivers, notified, park, sent,
                 delivered, fault>>

TimedPop(t) == Pop(t, "timed")
TimedClosed(t) == ZeroFill(t, "timed")
TimedPark(t) == RecvParkAt(t, "timed", "timedParked")

\* The deadline has passed when the lock is retaken: time is not modelled,
\* so any retry may be the late one.
TimedLate(t) ==
  /\ Locks(t, "timed")
  /\ queue = <<>>
  /\ ~closed
  /\ Return(t)
  /\ UNCHANGED <<queue, closed, senders, receivers, notified, park, sent,
                 delivered, fault>>

\* The latch was read unset and the deadline then found to have passed; the
\* lock that removes the waiter is taken in a later step.
TimedGiveUp(t) ==
  /\ pc[t] = "timedParked"
  /\ park[t] \notin notified
  /\ pc' = [pc EXCEPT ![t] = "timedExpired"]
  /\ UNCHANGED <<queue, closed, senders, receivers, notified, park, waking,
                 sent, delivered, fault>>

\* Mutant: the waiter that gives up stays registered.
TimedExpired_StaysRegistered(t) ==
  /\ Locks(t, "timedExpired")
  /\ notified' = notified \ {park[t]}
  /\ park' = [park EXCEPT ![t] = NoPark]
  /\ Return(t)
  /\ UNCHANGED <<queue, closed, senders, receivers, sent, delivered, fault>>

TimedExpired(t) ==
  /\ Locks(t, "timedExpired")
  /\ receivers' = Without(receivers, park[t])
  /\ notified' = notified \ {park[t]}
  /\ park' = [park EXCEPT ![t] = NoPark]
  /\ Return(t)
  /\ UNCHANGED <<queue, closed, senders, sent, delivered, fault>>

----------------------------------------------------------------------------
(* zo_chan_close                                                           *)

\* Mutant: the parked senders are dropped from their list but not woken.
Close_WakeReceiversOnly(t) ==
  /\ Locks(t, "close")
  /\ ~closed
  /\ closed' = TRUE
  /\ senders' = <<>>
  /\ receivers' = <<>>
  /\ Unlock(t, receivers)
  /\ UNCHANGED <<queue, notified, park, sent, delivered, fault>>

\* Mutant: only the first waiter of each list is woken.
Close_WakeOne(t) ==
  /\ Locks(t, "close")
  /\ ~closed
  /\ closed' = TRUE
  /\ senders' = RestOf(senders)
  /\ receivers' = RestOf(receivers)
  /\ Unlock(t, FirstOf(senders) \o FirstOf(receivers))
  /\ UNCHANGED <<queue, notified, park, sent, delivered, fault>>

Close(t) ==
  /\ Locks(t, "close")
  /\ ~closed
  /\ closed' = TRUE
  /\ senders' = <<>>
  /\ receivers' = <<>>
  /\ Unlock(t, senders \o receivers)
  /\ UNCHANGED <<queue, notified, park, sent, delivered, fault>>

CloseAgain(t) ==
  /\ Locks(t, "close")
  /\ closed
  /\ Return(t)
  /\ UNCHANGED <<queue, closed, senders, receivers, notified, park, sent,
                 delivered, fault>>

----------------------------------------------------------------------------
(* Waking and being woken, outside the channel's mutex.                    *)

Wake(t) ==
  /\ pc[t] = "waking"
  /\ notified' = notified \cup {Head(waking[t])}
  /\ Unlock(t, Tail(waking[t]))
  /\ UNCHANGED <<queue, closed, senders, receivers, park, sent, delivered,
                 fault>>

Retry(place) == CASE place = "sendParked" -> "send"
                  [] place = "recvParked" -> "recv"
                  [] place = "timedParked" -> "timed"

\* park_thread_cooperative (or the timed loop) reads the latch set, drops
\* the park, and the caller goes round its loop.
Resume(t) ==
  /\ pc[t] \in Waits
  /\ park[t] \in notified
  /\ notified' = notified \ {park[t]}
  /\ park' = [park EXCEPT ![t] = NoPark]
  /\ pc' = [pc EXCEPT ![t] = Retry(pc[t])]
  /\ UNCHANGED <<queue, closed, senders, receivers, waking, sent, delivered,
                 fault>>

\* lock().expect("zo-chan poisoned") on a poisoned mutex: the thread unwinds
\* and drops the park it may still hold.
PoisonedLock(t) ==
  /\ fault = "poisoned"
  /\ pc[t] \in LockPoints
  /\ pc' = [pc EXCEPT ![t] = "panicked"]
  /\ notified' = notified \ {park[t]}
  /\ park' = [park EXCEPT ![t] = NoPark]
  /\ UNCHANGED <<queue, closed, senders, receivers, waking, sent, delivered,
                 fault>>

----------------------------------------------------------------------------
CallStep(t) ==
  CallSend(t) \/ CallRecv(t) \/ CallTimed(t) \/ CallTry(t) \/ CallClose(t)

RunStep(t) ==
  \/ SendPush(t) \/ SendPark(t) \/ SendClosed(t)
  \/ RecvPop(t) \/ RecvClosed(t) \/ RecvPark(t)
  \/ TryPop(t) \/ TryEmpty(t)
  \/ TimedPop(t) \/ TimedClosed(t) \/ TimedPark(t) \/ TimedLate(t)
  \/ TimedGiveUp(t) \/ TimedExpired(t)
  \/ Close(t) \/ CloseAgain(t)
  \/ Wake(t) \/ Resume(t) \/ PoisonedLock(t)

Next ==
  /\ fault # "aborted"
  /\ \E t \in Threads : CallStep(t) \/ RunStep(t)

Spec == Init /\ [][Next]_vars

\* A thread inside a call keeps running: its lock is granted, its wake-ups
\* are delivered, and a parked thread re-reads its latch every 50 ms.
Fairness == \A t \in Threads : WF_vars(fault # "aborted" /\ RunStep(t))
FairSpec == Spec /\ Fairness

----------------------------------------------------------------------------
(* Properties                                                              *)

\* Every variable keeps its type: the shape of ChannelInner, whose buffer
\* never outgrows its bound, and of the callers' states.
TypeOK ==
  /\ queue \in Seq(Messages) /\ Len(queue) <= Bound
  /\ closed \in BOOLEAN
  /\ senders \in Seq(Parks)
  /\ receivers \in Seq(Parks)
  /\ notified \subseteq Parks
  /\ pc \in [Threads -> Places]
  /\ park \in [Threads -> Parks \cup {NoPark}]
  /\ waking \in [Threads -> Seq(Parks)]
  /\ sent \in [Threads -> 0..MaxSends]
  /\ delivered \in Seq(Messages)
  /\ fault \in {"none", "poisoned", "aborted"}

\* Receivers (senders) that are on their way to the lock: calling, or parked
\* but already popped from the wait list, so owed or given a wake-up.
RecvsInFlight ==
  {t \in Threads : \/ pc[t] = "recv"
                   \/ pc[t] = "recvParked" /\ park[t] \notin Range(receivers)}
SendsInFlight ==
  {t \in Threads : \/ pc[t] = "send"
                   \/ pc[t] = "sendParked" /\ park[t] \notin Range(senders)}

\* As long as a receiver is parked, every buffered value has its own
\* receiver on the way to it: barging callers and late wake-ups never leave
\* a value in the buffer with everybody asleep (channel.rs, send and recv).
ValuesHaveTakers ==
  receivers # <<>> => Len(queue) <= Cardinality(RecvsInFlight)

\* Dually, as long as a sender is parked, every free slot of the buffer has
\* its own sender on the way to it.
SlotsHaveFillers ==
  senders # <<>> => Bound - Len(queue) <= Cardinality(SendsInFlight)

\* A waiter that left the wait list is never forgotten: its latch is set or
\* some thread still holds it to wake it.
PoppedIsWoken ==
  \A t \in Threads :
    pc[t] \in Waits =>
      \/ park[t] \in Range(senders) \cup Range(receivers)
      \/ park[t] \in notified
      \/ \E u \in Threads : park[t] \in Range(waking[u])

\* Nothing is lost, duplicated, invented or overtaken: the values of one
\* sender come out of (and sit in) the channel in the order it sent them,
\* without a gap.
PerSenderFifo ==
  LET all == delivered \o queue
  IN  \A t \in Senders :
        LET mine == {i \in DOMAIN all : all[i][1] = t}
            numbers == {all[i][2] : i \in mine}
        IN  /\ \A i, j \in mine : i < j => all[i][2] < all[j][2]
            /\ CASE pc[t] \in {"send", "sendParked"} -> numbers = 1..sent[t] - 1
                 [] pc[t] = "panicked" -> numbers \in {1..sent[t] - 1, 1..sent[t]}
                 [] OTHER -> numbers = 1..sent[t]

\* Once the channel is closed nobody is left on a wait list or joins one.
CloseReleasesAll == closed => senders = <<>> /\ receivers = <<>>

\* A thread parked when the channel is closed, or at any later time, gets
\* going again.
CloseWakesAll ==
  \A t \in Threads :
    (closed /\ pc[t] \in Waits) ~> (pc[t] \notin Waits \/ fault = "aborted")

----------------------------------------------------------------------------
(* The strengthening that makes the safety properties inductive.           *)

\* A thread is where its role allows, and a sender there has a message.
RolesRespected ==
  \A t \in Threads :
    /\ pc[t] \in {"send", "sendParked"} => t \in Senders /\ sent[t] > 0
    /\ pc[t] \in {"timed", "timedParked", "timedExpired"} =>
         t \in TimedReceivers

\* A thread holds a park of its own exactly while it waits, and has parks to
\* wake exactly while it does so.
HoldsWhileWaiting ==
  \A t \in Threads :
    /\ park[t] # NoPark <=> pc[t] \in Waits \cup {"timedExpired"}
    /\ park[t] # NoPark => park[t][1] = t
    /\ waking[t] # <<>> <=> pc[t] = "waking"

\* A registered park is held by a thread waiting for that very thing, is not
\* notified, is nobody's to wake, and is registered once.
Registered(list, places) ==
  /\ IsInjective(list)
  /\ \A p \in Range(list) :
       /\ pc[p[1]] \in places
       /\ park[p[1]] = p
       /\ p \notin notified
       /\ \A u \in Threads : p \notin Range(waking[u])

ListsRegistered ==
  /\ Registered(senders, {"sendParked"})
  /\ Registered(receivers, {"recvParked", "timedParked", "timedExpired"})

\* The mutex is poisoned (or the process gone) only after a close, and which
\* of the two follows from how the program was built.
FaultMeansClosed ==
  /\ fault # "none" => closed
  /\ fault = "poisoned" => PanicUnwinds

\* The inductive invariant of the channel: every safety property above but
\* the order of the values.
IInv ==
  /\ TypeOK
  /\ RolesRespected
  /\ HoldsWhileWaiting
  /\ ListsRegistered
  /\ FaultMeansClosed
  /\ CloseReleasesAll
  /\ PoppedIsWoken
  /\ SlotsHaveFillers
  /\ TimedReceivers = {} => ValuesHaveTakers

----------------------------------------------------------------------------
(* What the documentation says, and the model refutes.                     *)

\* channel.rs:61 "Receivers parked on buffer empty": with nobody on the way
\* to the lock and no wake-up pending, a receiver is parked only on an empty
\* buffer.
ParkedOnlyOnEmpty ==
  (/\ receivers # <<>>
   /\ \A t \in Threads : \/ pc[t] = "idle"
                          \/ (pc[t] \in Waits /\ park[t] \notin notified))
  => queue = <<>>

----------------------------------------------------------------------------
(* The promise.                                                            *)

\* What each thread is asking for, seen from outside the lock.
Mode(p) ==
  CASE p \in {"send", "sendParked"} -> "sending"
    [] p \in {"recv", "recvParked"} -> "receiving"
    [] p \in {"timed", "timedParked", "timedExpired"} -> "timed"
    [] p = "try" -> "polling"
    [] p = "close" -> "closing"
    [] p = "waking" -> "returning"
    [] OTHER -> p

Fifo == INSTANCE BlockingFifo WITH
  mode <- [t \in Threads |-> Mode(pc[t])],
  aborted <- fault = "aborted"

\* The channel implements the blocking bounded FIFO: every critical section
\* is one of its steps or invisible, and no call the buffer allows for good
\* is left asleep by the parking and waking done around the lock.
ImplementsFifo == Fifo!Spec
=============================================================================
