SPECIFICATION FairSpec
CHECK_DEADLOCK FALSE
CONSTANTS
  Schemas = {"app", "hr"}
  TableNames = {"orders", "Orders", "users"}
  Columns = {"id", "dt"}
  Lower <- MCLower
  Relations <- MCRelations
  Setups <- MCSetups
  Connections = {k1}
  Calls = {c1, c2}
  Payloads <- MCPayloads
  max_total_cost = 1
  max_rows = 1
  None = None
INVARIANTS
  TypeOK
  ConnectionsReturned
  GateHolds
  ReflectedAsSeen
  StableTablesReflected
PROPERTIES
  EveryoneReturns
