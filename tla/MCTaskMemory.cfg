\* Two threads, two tasks, one slot in the arena and two mappings.
SPECIFICATION Spec
CONSTANTS
  Threads = {t1, t2}
  Boxes = {b1, b2}
  Slots = {a1}
  Maps = {m1, m2}
  None = None
  PoolCap = 1
  Pages = 3
  Moves = FALSE
CHECK_DEADLOCK FALSE
SYMMETRY Symmetry
INVARIANTS
  StacksHaveOnePlace
  RegistryIsSafe
  LowIsCommitted
  StorageIsOwn
PROPERTIES
  HandlerProgresses
