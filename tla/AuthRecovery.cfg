SPECIFICATION FairSpec
CONSTANTS
  ann = ann
  sam = sam
  mail = mail
  h1 = h1
  h2 = h2
  None = None
  Email <- MCEmail
  CommandOf <- MCCommandOf
  User <- AnnSam
  Handler <- MCHandler
  Fallible <- RecoveredCalls
  MaxCrashes = 1
  MaxConnectionLosses = 1
INVARIANTS
  SettledIsAnswered
  RaceHasWinner
PROPERTIES
  EveryCommandAnswered
CHECK_DEADLOCK FALSE
