\* Every store: two sessions, two extensions in progress, and every suite.
SPECIFICATION Spec
CONSTANTS
  Bits = 3
  None = None
  Kinds = {"memory", "adapter", "sqlite_demo", "sqlx"}
  Ids = {i1, i2}
  Tasks = {t1, t2}
  NewSessions <- MCNewSessions
  Touches <- MCTouches
  Scripts = {"app", "users", "passwords", "sessions", "sessions_meant", "engine", "adapter_main"}
  SeedHashes = {"", "hash"}
INVARIANTS
  RevivedOnlyByOverlap
  OwnerKept
  SuitesPassCorrectStores
PROPERTIES
  ImplementsContract
  OnlyLateTouchDiffers
CHECK_DEADLOCK FALSE
