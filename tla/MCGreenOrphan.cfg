SPECIFICATION Spec
CONSTANTS
  t1 = t1
  t2 = t2
  m = m
  c1 = c1
  c2 = c2
  Tasks = {t1, t2}
  Main = m
  None = None
  Chans = {c1}
  TimedChans = {}
  Arms <- OneArm
  Capacity = 1
  Calls <- OrphanCalls
  MaxCalls <- ThreeEach
  PollInterval = 2
  PanicUnwinds = TRUE
PROPERTIES
  NurseryWaits
CHECK_DEADLOCK FALSE
