SPECIFICATION FairSpec
CONSTANTS
  form = form
  file1 = file1
  file2 = file2
  badFile = badFile
  Job <- MCJob
  Bulk <- MCBulk
  RowsOf <- MCRowsOf
  ErrorsOf <- MCErrorsOf
  Email <- MCEmail
  Fallible <- AnyCall
  MaxUpdates = 1
  MaxCrashes = 1
INVARIANTS
  TypeOK
  CommandsHaveDocuments
  NicCommandedOnce
  BatchReportsExactly
  NoSilentOrphan
PROPERTIES
  EveryRequestEnds
CHECK_DEADLOCK FALSE
