\* Two tabs, two users, and two sign-ins or sign-outs.
SPECIFICATION Spec
CONSTANTS
  Tabs = {t1, t2}
  Users = {u1, u2}
  None = None
  ChannelProp = None
  Whoami = "require_user"
  Skew = TRUE
  MaxCalls = 2
INVARIANTS
  TypeOK
  InSync
PROPERTY LoadingEnds
