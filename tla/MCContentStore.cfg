SPECIFICATION Spec
CONSTANTS
  Clients = {c1, c2, c3}
  Kinds = {"edit", "schedule"}
  MaxVersion = 3
CHECK_DEADLOCK FALSE
INVARIANTS
  TypeOK
  NoLostUpdate
  EqualVersionEqualItem
  ScheduledIsQueued
PROPERTIES
  ImplementsAtomicItem
