\* Revocation against concurrent validations, store with an atomic touch.
SPECIFICATION Spec
CONSTANTS
  Procs = {p1, p2}
  Tokens = {t1, t2}
  Users = {u1}
  None = None
  Ttl = 1
  IdleTimeout = None
  SingleActive = FALSE
  AtomicTouch = TRUE
  AuthHashBound = TRUE
  Deactivatable = {u1}
  ClockMayStepBack = FALSE
  WordSize = 16
  MaxClock = 1
  MaxHash = 0
  MaxFaults = 1
SYMMETRY Symmetry
INVARIANT TypeOK
PROPERTIES
  NoResurrection
  RevokeEndsSession
  RevokeAllEndsSessions
  LogoutEndsSession
  ImplementsLifecycle
