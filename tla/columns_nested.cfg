SPECIFICATION Spec
CHECK_DEADLOCK FALSE
CONSTANTS
  Names = {"id", "ssn", "note", "s"}
  Tagged <- MCTagged
  Wanted = 1
  MaxDepth = 1
  ColumnsOf <- MCColumnsOf
  Requests <- MCRequests
  Databases <- MCDatabases
INVARIANTS
  ReturnedStatementResolves
