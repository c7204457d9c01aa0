SPECIFICATION Spec
CHECK_DEADLOCK FALSE
CONSTANTS
  Columns = {"key", "tenant"}
  Values = {1, 2}
  Params = {"tenant", "key"}
  ColumnsOf <- MCColumnsOf
  Requests <- MCRequests
  Databases <- MCDatabases
INVARIANTS
  TypeOK
  FilteredUnlessMisread
  FilteredAsReference
  SecondPassAddsNothing
