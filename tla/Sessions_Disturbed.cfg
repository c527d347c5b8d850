\* Single-active-session logins, a clock that steps back, users that come and go.
SPECIFICATION Spec
CONSTANTS
  Procs = {p1, p2}
  Tokens = {t1, t2}
  Users = {u1}
  None = None
  Ttl = 1
  IdleTimeout = 1
  SingleActive = TRUE
  AtomicTouch = TRUE
  AuthHashBound = TRUE
  Deactivatable = {u1}
  ClockMayStepBack = TRUE
  WordSize = 16
  MaxClock = 1
  MaxHash = 0
  MaxFaults = 0
SYMMETRY Symmetry
PROPERTIES
  LoginSupersedes
  RejectionIsFinal
  ImplementsLifecycle
