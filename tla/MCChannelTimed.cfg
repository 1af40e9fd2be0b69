\* A receiver with a deadline beside a plain one.
SPECIFICATION Spec
CONSTANTS
  s1 = s1
  s2 = s2
  r1 = r1
  r2 = r2
  x = x
  Threads = {s1, r1, r2}
  Senders = {s1}
  Receivers = {r1}
  TimedReceivers = {r2}
  Pollers = {}
  Closers = {}
  Slots = {1, 2}
  NoPark = NoPark
  Capacity = 1
  MaxSends = 2
  PanicUnwinds = TRUE
CHECK_DEADLOCK FALSE
INVARIANTS
  ParkedOnlyOnEmpty
