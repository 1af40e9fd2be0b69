SPECIFICATION EndlessSpec
CONSTANTS
  p1 = p1
  p2 = p2
  k1 = k1
  a = a
  b = b
  N = 2
  PoolTasks = {p1, p2}
  Children = {}
  Clients = {a, b}
  Owner = a
  Reused = {p1}
  None = None
  Deeds <- Leaves
  MaxDeeds = 2
  ClientCalls = {"spawn", "shutdown"}
  UsizeMax = 9
INVARIANTS
  HeldByOne
  IdleMeansDone
  ShutdownReclaims
PROPERTIES
  ShutdownEnds
  YieldedRuns
CHECK_DEADLOCK FALSE
