SPECIFICATION Spec
CHECK_DEADLOCK FALSE
CONSTANTS
  Catalog <- MCCatalog
  Aliases = {"a", "b", "c", "d"}
  Columns = {"id", "dt", "org"}
  Tenant = "org"
  Governed = {"events", "logs"}
  Policies <- MCPolicies
  Statements <- MCStatements
INVARIANTS
  TypeOK
  IndexIsFresh
  UnreportedJoinsAreLinked
  PartitionedScansPruned
  MissingFilterIsReal
  ScanWithinBudget
