SPECIFICATION Spec
CONSTANTS
  ann = ann
  sam = sam
  mail = mail
  h1 = h1
  h2 = h2
  None = None
  Email <- MCEmail
  CommandOf <- MCCommandOf
  User <- Ann
  Handler <- MCOneHandler
  Fallible <- AuditCalls
  MaxCrashes = 1
  MaxConnectionLosses = 0
INVARIANT SuccessBringsCredentials
CHECK_DEADLOCK FALSE
