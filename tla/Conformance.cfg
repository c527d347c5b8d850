\* The session suite of storage/conformance.rs, as written, over MemoryStore.
SPECIFICATION Spec
CONSTANTS
  Bits = 3
  None = None
  Kinds = {"memory"}
  Ids = {i1}
  Tasks = {t1}
  NewSessions <- MCNewSessions
  Touches <- MCTouches
  Scripts = {"sessions"}
  SeedHashes = {""}
INVARIANT SessionSuitePasses
CHECK_DEADLOCK FALSE
