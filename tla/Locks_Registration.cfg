\* insert_user_with_password against find_by_identifier.
SPECIFICATION Spec
CONSTANTS
  Threads = {t1, t2}
  Calls <- RegistrationAndLogin
  WritersFirst = FALSE
  MaxInserts = 3
  MaxCalls = 4
  None = None
PROPERTY CallsReturn
CHECK_DEADLOCK FALSE
