\* Four keys that collide, in tables of four and eight slots.
SPECIFICATION Spec
CONSTANTS
  a = a
  b = b
  c = c
  d = d
  Keys = {a, b, c, d}
  Values = {1, 2}
  Hash <- Hashes
  InitialCapacity = 4
  MaxCapacity = 8
  Empty = Empty
  Tombstone = Tombstone
  None = None
  NoValue = NoValue
  NoCall = NoCall
INVARIANTS
  CountsAreExact
  ChainsAreWhole
  AnEmptySlotIsLeft
PROPERTIES
  ActsAsDictionary
