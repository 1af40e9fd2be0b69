SPECIFICATION Spec
CONSTANTS
  p1 = p1
  p2 = p2
  k1 = k1
  a = a
  b = b
  N = 2
  PoolTasks = {p1}
  Children = {k1}
  Clients = {a}
  Owner = a
  Reused = {}
  None = None
  Deeds <- Parents
  MaxDeeds = 2
  ClientCalls = {"spawn", "wait_idle", "shutdown"}
  UsizeMax = 9
INVARIANTS
  LastOwner
CHECK_DEADLOCK FALSE
