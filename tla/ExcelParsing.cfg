SPECIFICATION Spec
CONSTANT File <- MCFile
INVARIANTS
  TypeOK
  RowsAccountedFor
  RowsKeepTheirNumber
  VerdictFitsFile
  ParsedRowsFitSchema
CHECK_DEADLOCK FALSE
