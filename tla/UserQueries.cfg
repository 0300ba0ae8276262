SPECIFICATION QuerySpec
CONSTANTS
  form = form
  file = file
  Job <- MCJob
  Bulk <- MCBulk
  RowsOf <- MCRowsOf
  ErrorsOf <- MCErrorsOf
  Email <- NoEmail
  Fallible <- PublishOnly
  MaxUpdates = 0
  MaxCrashes = 1
  Time <- MCTime
  Filter <- MCFilter
  Limit = 1
  MaxPage = 4
  MaxLeavers = 2
  NoBatch = NoBatch
INVARIANTS
  QueryTypeOK
  AnsweredIsSettled
  MissesNeedLeavers
CHECK_DEADLOCK FALSE
