SPECIFICATION FairSpec
CONSTANTS
  ann = ann
  eve = eve
  h1 = h1
  h2 = h2
  old = old
  new = new
  NoEvent = NoEvent
  User <- MCUser
  Strangers <- MCStrangers
  Profile <- MCProfile
  Handler <- MCHandler
  Fallible <- AnyCall
  Delivery <- MCDelivery
  MaxUpdates = 1
  MaxCrashes = 1
  MaxConnectionLosses = 1
INVARIANTS
  TypeOK
  StatusHasCause
  SettledIsRecorded
PROPERTIES
  UpdateNotLost
  AgreedStatusIsFinal
  EventuallyDecided
CHECK_DEADLOCK FALSE
