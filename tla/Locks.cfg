\* All methods of three threads; calls can block each other and then stop.
SPECIFICATION Spec
CONSTANTS
  Threads = {t1, t2, t3}
  Calls <- Methods
  WritersFirst = TRUE
  MaxInserts = 3
  MaxCalls = 5
  None = None
INVARIANTS
  TypeOK
  PairConsistent
PROPERTY OnlyCrossingBlocks
CHECK_DEADLOCK FALSE
