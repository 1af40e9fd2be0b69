\* Two senders, two receivers, and a thread that polls and closes; a panic
\* ends the process.
SPECIFICATION FairSpec
CONSTANTS
  s1 = s1
  s2 = s2
  r1 = r1
  r2 = r2
  x = x
  Threads = {s1, s2, r1, r2, x}
  Senders = {s1, s2}
  Receivers = {r1, r2}
  TimedReceivers = {}
  Pollers = {x}
  Closers = {x}
  Slots = {1}
  NoPark = NoPark
  Capacity = 2
  MaxSends = 2
  PanicUnwinds = FALSE
CHECK_DEADLOCK FALSE
INVARIANTS
  ValuesHaveTakers
PROPERTIES
  ImplementsFifo
  CloseWakesAll
