SPECIFICATION Spec
CONSTANTS
  t1 = t1
  t2 = t2
  m = m
  c1 = c1
  c2 = c2
  Tasks = {t1, t2}
  Main = m
  None = None
  Chans = {c1, c2}
  TimedChans = {c2}
  Arms <- TwoArms
  Capacity = 1
  Calls <- AllCalls
  MaxCalls <- ThreeTwo
  PollInterval = 2
  PanicUnwinds = TRUE
SYMMETRY TaskNames
INVARIANTS
  ChainSound
  OnePlace
  AwaitedIsDead
  NobodyOversleeps
  DeadlockIsGenuine
PROPERTIES
  NurseryRunsAllItCan
CHECK_DEADLOCK FALSE
