CONSTANTS
  Calls = {c1, c2}
  Responsive = {c1}
  Tables = {t1, t2}
  Policies <- SharedPolicies
  Estimators = 1
  Reportable <- SharedReportable
  Literals = {}
SPECIFICATION FairSpec
INVARIANTS
  WholeSchema
PROPERTIES
  ResponsiveCallsReturn
CHECK_DEADLOCK FALSE
