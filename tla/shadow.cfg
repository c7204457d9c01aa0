CONSTANTS
  Calls = {c1}
  Responsive = {}
  Tables = {t1}
  Policies <- SharedPolicies
  Estimators = 2
  Reportable <- SharedReportable
  Literals = {}
SPECIFICATION Spec
INVARIANTS
  ShadowRunsProtected
CHECK_DEADLOCK FALSE
