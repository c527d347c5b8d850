\* Two requests in flight, two tokens, every middleware.
SPECIFICATION Spec
CONSTANTS
  Requests = {r1, r2}
  Tokens = {t1, t2}
  None = None
  Configs <- StrictConfig
  Jars <- WithTheme
  Operations <- MCOperations
  Layers <- MCLayers
SYMMETRY Symmetry
INVARIANTS
  TypeOK
  LoggedOutStays
PROPERTIES
  OriginGuardsCookies
  LogoutEndsWhatValidates
  ClearedCookieIsDead
