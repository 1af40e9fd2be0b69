---------------------------- MODULE BlockingFifo ----------------------------
(***************************************************************************)
(* What a channel promises its callers, with no mutex, wait list, latch or *)
(* wake-up in sight: a bounded first-in first-out buffer.  A blocked call  *)
(* takes effect in one step as soon as the buffer allows it; closing lets  *)
(* the buffered values out and then releases every receiver.  Channel is   *)
(* shown to implement it, liveness included.                               *)
(***************************************************************************)
EXTENDS Integers, Sequences

CONSTANTS Threads, Senders, Receivers, TimedReceivers, Pollers, Closers,
          Bound, MaxSends

VARIABLES
  queue,      \* the buffered messages, oldest first
  closed,     \* the channel was closed
  mode,       \* what each thread is asking of the channel
  sent,       \* sends each thread has started
  delivered,  \* the values received, in order
  aborted     \* a send on the closed channel ended the process

vars == <<queue, closed, mode, sent, delivered, aborted>>

Init ==
  /\ queue = <<>> /\ closed = FALSE
  /\ mode = [t \in Threads |-> "idle"]
  /\ sent = [t \in Threads |-> 0]
  /\ delivered = <<>>
  /\ aborted = FALSE

Becomes(t, m) == mode' = [mode EXCEPT ![t] = m]

\* A call returns at once, or has bookkeeping left that nobody can see.
Ends(t) == Becomes(t, "idle") \/ Becomes(t, "returning")

Ask(t, m, role) ==
  /\ t \in role
  /\ mode[t] = "idle"
  /\ Becomes(t, m)
  /\ UNCHANGED <<queue, closed, delivered, aborted>>

Start(t) ==
  \/ /\ Ask(t, "sending", Senders)
     /\ sent[t] < MaxSends
     /\ sent' = [sent EXCEPT ![t] = @ + 1]
  \/ Ask(t, "receiving", Receivers) /\ UNCHANGED sent
  \/ Ask(t, "timed", TimedReceivers) /\ UNCHANGED sent
  \/ Ask(t, "polling", Pollers) /\ UNCHANGED sent
  \/ Ask(t, "closing", Closers) /\ UNCHANGED sent

Put(t) ==
  /\ mode[t] = "sending"
  /\ ~closed
  /\ Len(queue) < Bound
  /\ queue' = Append(queue, <<t, sent[t]>>)
  /\ Ends(t)
  /\ UNCHANGED <<closed, sent, delivered, aborted>>

Take(t) ==
  /\ mode[t] \in {"receiving", "timed", "polling"}
  /\ queue # <<>>
  /\ queue' = Tail(queue)
  /\ delivered' = Append(delivered, Head(queue))
  /\ Ends(t)
  /\ UNCHANGED <<closed, sent, aborted>>

\* Nothing to take: a receiver gets a zero once the channel is closed, a
\* poll answers "nothing", a timed receive may give up.
TakeNothing(t) ==
  /\ \/ mode[t] = "receiving" /\ closed /\ queue = <<>>
     \/ mode[t] = "polling" /\ queue = <<>>
     \/ mode[t] = "timed"
  /\ Becomes(t, "idle")
  /\ UNCHANGED <<queue, closed, sent, delivered, aborted>>

Shut(t) ==
  /\ mode[t] = "closing"
  /\ closed' = TRUE
  /\ Ends(t)
  /\ UNCHANGED <<queue, sent, delivered, aborted>>

SendOnClosed(t) ==
  /\ mode[t] = "sending"
  /\ closed
  /\ aborted' = TRUE
  /\ Becomes(t, "panicked")
  /\ UNCHANGED <<queue, closed, sent, delivered>>

Finish(t) ==
  /\ mode[t] = "returning"
  /\ Becomes(t, "idle")
  /\ UNCHANGED <<queue, closed, sent, delivered, aborted>>

\* What a thread inside a call is owed.
Serve(t) ==
  \/ Put(t) \/ Take(t) \/ TakeNothing(t)
  \/ Shut(t) \/ SendOnClosed(t) \/ Finish(t)

Next == ~aborted /\ \E t \in Threads : Start(t) \/ Serve(t)

\* A call that the buffer allows for good is eventually served.
Fairness == \A t \in Threads : WF_vars(~aborted /\ Serve(t))

SafeSpec == Init /\ [][Next]_vars
Spec == SafeSpec /\ Fairness
=============================================================================
