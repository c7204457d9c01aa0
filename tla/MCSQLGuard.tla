----------------------------- MODULE MCSQLGuard -----------------------------
(* Values for the constants of SQLGuard: the policies and the violations    *)
(* worth telling apart on a small instance.                                 *)
EXTENDS SQLGuard

\* Both modes, every switch, and the limits: none, a default, a default equal
\* to the maximum, a maximum without a default.
MCPolicies ==
  {p \in [enforcement : {"block", "log_only"}, check_types : BOOLEAN,
          check_joins : BOOLEAN, expand_star : BOOLEAN,
          default_limit : {0, 2}, max_limit : {0, 2}] :
     p.check_joins = p.expand_star \/ p.enforcement = "log_only"}

\* At least one error of every check, the two warnings whose codes are errors
\* under other policies, and the warnings of the estimators.
MCReportable ==
  Err({"PARSE_ERROR", "NESTED_WRITE", "FORBIDDEN_FUNCTION", "UNKNOWN_COLUMN",
       "SEMANTIC_ERROR", "TYPE_MISMATCH", "EMPTY_SELECT", "RLS_PARAM_MISSING",
       "MISSING_PARTITION_FILTER", "SCAN_BUDGET_EXCEEDED"})
    \cup Warn({"CARTESIAN_JOIN", "COST_ESTIMATION_FAILED"})

\* Two policies and few findings, for runs with several calls.
SharedPolicies ==
  {[enforcement |-> e, check_types |-> TRUE, check_joins |-> TRUE,
    expand_star |-> TRUE, default_limit |-> 2, max_limit |-> 2] :
     e \in {"block", "log_only"}}

SharedReportable == Err({"UNKNOWN_COLUMN"})
=============================================================================
