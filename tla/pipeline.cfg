CONSTANTS
  Calls = {c1}
  Responsive = {}
  Tables = {t1}
  Policies <- MCPolicies
  Estimators = 2
  Reportable <- MCReportable
  Literals = {1, 3}
SPECIFICATION Spec
INVARIANTS
  TypeOK
  ExecutableIsAudited
  ExecutableIsProtected
  ChecksAccountedOnce
  HardStopHaltsPipeline
PROPERTIES
  ExplainGetsRunnableSql
  KeepsContract
CHECK_DEADLOCK FALSE
