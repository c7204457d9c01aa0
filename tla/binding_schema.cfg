SPECIFICATION Spec
CHECK_DEADLOCK FALSE
CONSTANTS
  Schemas = {"sales", "hr"}
  TableNames = {"orders", "users", "gone"}
  Columns = {"id", "total", "note", "sum"}
  Aliases = {"a", "b", "c", "d", "e", "x", "note"}
  Requests <- MCRequests
  Attempts = 5
INVARIANTS
  ReturnedNamesBoundTables
