\* Two spellings of one identifier and a second identifier, two logins, a
\* wall clock that may be set back.
SPECIFICATION Spec
CONSTANTS
  Procs = {p1, p2}
  Identifiers <- MCIdentifiers
  Keys <- MCKeys
  LimiterKey <- MCLimiterKey
  MaxAttempts = 2
  Window = 2
  MaxClock = 2
  MaxFailures = 2
  None = None
SYMMETRY Symmetry
INVARIANTS
  TypeOK
  OvershootBounded
PROPERTIES
  AdmittedBelowLimit
  RefusedAtLimit
