SPECIFICATION Spec
CHECK_DEADLOCK FALSE
CONSTANTS
  Columns = {"key", "tenant"}
  Values = {1, 2}
  Params = {"tenant", "key"}
  ColumnsOf <- MCColumnsOf
  Requests <- JoinRequests
  Databases <- MCDatabases
INVARIANTS
  GovernedRowsFiltered
