SPECIFICATION FairSpec
CONSTANTS
  annWelcome = annWelcome
  benReport = benReport
  h1 = h1
  h2 = h2
  NoEvent = NoEvent
  Event <- AnnAndBen
  Successful <- AnnOnly
  Handler <- MCHandler
  Fallible <- AnyCall
  MaxCrashes = 1
  MaxConnectionLosses = 1
INVARIANTS
  TypeOK
  SentWasMailed
  OneOutcomePerAttempt
  RepeatsNeedInterruption
PROPERTIES
  EveryEventSettled
CHECK_DEADLOCK FALSE
