SPECIFICATION Spec
CONSTANTS
  Savers = {s1, s2}
  Tokens = {t1, t2}
  NoToken = NoToken
  Visitors = {v1, v2}
  Urls <- MCUrls
  Foreign <- MCForeign
  MaxBounces = 3
  Apps = {"sqlite_demo", "sqlx", "fullstack", "basic", "registration"}
  MaxLoads = 1
  MaxCalls = 3
  PageUrl <- MCPageUrl
INVARIANTS FileWhole SecretMode IntentOnce DestinationFresh MetricsFollowSession
INVARIANTS StatusMatchesJar LoadingOnlyUnanswered VerifiedByOwnToken
CHECK_DEADLOCK FALSE
