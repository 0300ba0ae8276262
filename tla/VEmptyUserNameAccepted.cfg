SPECIFICATION Spec
CONSTANTS
  ann = ann
  sam = sam
  mail = mail
  h1 = h1
  h2 = h2
  None = None
  Email <- MCEmail
  CommandOf <- MCCommandOf
  User <- AnnSam
  Handler <- MCOneHandler
  Fallible <- AnyCall
  MaxCrashes = 0
  MaxConnectionLosses = 0
INVARIANT EmptyUserNameAccepted
CHECK_DEADLOCK FALSE
