SPECIFICATION FairSpec
CONSTANTS
  ann = ann
  sam = sam
  mail = mail
  h1 = h1
  h2 = h2
  None = None
  Email <- MCEmail
  CommandOf <- MCCommandOf
  User <- Ann
  Handler <- MCHandler
  Fallible <- AnyCall
  MaxCrashes = 1
  MaxConnectionLosses = 1
INVARIANTS
  TypeOK
  CredentialsHaveAccount
  CredentialsIssuedOnce
  NoContradictoryAnswer
  WrongPasswordNeedsRedelivery
PROPERTIES
  EveryCommandSettled
CHECK_DEADLOCK FALSE
