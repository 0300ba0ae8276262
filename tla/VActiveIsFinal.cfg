SPECIFICATION FairSpec
CONSTANTS
  ann = ann
  eve = eve
  h1 = h1
  h2 = h2
  old = old
  new = new
  NoEvent = NoEvent
  User <- MCUser
  Strangers <- MCStrangers
  Profile <- MCProfile
  Handler <- MCHandler
  Fallible <- NoCall
  Delivery <- MCDelivery
  MaxUpdates = 0
  MaxCrashes = 0
  MaxConnectionLosses = 0
PROPERTIES
  ActiveIsFinal
CHECK_DEADLOCK FALSE
