SPECIFICATION PipelineFairSpec
CONSTANTS
  ann = ann
  ben = ben
  mail = mail
  h1 = h1
  None = None
  User <- AnnBen
  Email <- MCEmail
  CommandOf <- MCCommandOf
  Handler <- MCHandler
  Fallible <- SuccessAudit
  MaxCrashes = 1
  MaxConnectionLosses = 0
  ResultHandler <- MCHandler
  ResultFallible <- NoCall
  MaxResultCrashes = 1
  MaxResultConnectionLosses = 0
  MailHandler <- MCHandler
  MailFallible <- MailOnly
  MaxMailCrashes = 0
  MaxMailConnectionLosses = 0
INVARIANTS
  SuccessHasAccount
  FailureHasCause
  SettledHasTrace
  PendingIsExplained
PROPERTIES
  ImplementsLifecycle
  DecidesEveryRegistration
CHECK_DEADLOCK FALSE
