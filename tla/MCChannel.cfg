\* Two senders, a plain receiver and one with a deadline, and a thread that
\* polls and closes; panics unwind.
SPECIFICATION Spec
CONSTANTS
  s1 = s1
  s2 = s2
  r1 = r1
  r2 = r2
  x = x
  Threads = {s1, s2, r1, r2, x}
  Senders = {s1, s2}
  Receivers = {r1}
  TimedReceivers = {r2}
  Pollers = {x}
  Closers = {x}
  Slots = {1, 2}
  NoPark = NoPark
  Capacity = 2
  MaxSends = 2
  PanicUnwinds = TRUE
CHECK_DEADLOCK FALSE
SYMMETRY Symmetry
INVARIANTS
  SlotsHaveFillers
  PoppedIsWoken
  PerSenderFifo
  CloseReleasesAll
  IInv
