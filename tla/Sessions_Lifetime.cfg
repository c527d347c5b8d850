\* The find-then-save default of touch_session_if_present.
SPECIFICATION Spec
CONSTANTS
  Procs = {p1, p2}
  Tokens = {t1}
  Users = {u1}
  None = None
  Ttl = 3
  IdleTimeout = 2
  SingleActive = FALSE
  AtomicTouch = FALSE
  AuthHashBound = TRUE
  Deactivatable = {}
  ClockMayStepBack = FALSE
  WordSize = 6
  MaxClock = 4
  MaxHash = 1
  MaxFaults = 0
SYMMETRY Symmetry
INVARIANT NoPanic
PROPERTIES
  AcceptedWithinTtl
  StaleHashNeverAccepted
