--------------------------- MODULE SQLGuardProofs ---------------------------
(* Theorems about the validation pipeline for every number of calls, every  *)
(* catalog, every set of policies and every number of estimators.           *)
EXTENDS SQLGuard, TLAPS

CheckStages == {"function_policy", "name_binding", "type_checks", "column_policy",
                "row_level_security", "join_checks", "partition_filters",
                "cost_estimation"}

Soft == {v \in Violation : v.code \notin HARD_STOP_CODES}

\* What a check can report is a violation, and no check after the gate reports
\* a hard stop.
LEMMA ReportsTyped ==
  /\ \A s \in CheckStages : \A found \in Found(s) : found \subseteq Soft
  /\ \A found \in Found("statement_gate") :
       /\ found \subseteq Violation
       /\ \A v \in found : v.is_error /\ v.code \in HARD_STOP_CODES
<1> USE DEF Err, Warn, Soft, Violation, Codes, HARD_STOP_CODES
<1>1. StageReports["function_policy"] \subseteq Soft
  BY DEF StageReports
<1>2. StageReports["name_binding"] \subseteq Soft
  BY DEF StageReports, BindingCodes
<1>3. StageReports["type_checks"] \subseteq Soft
  BY DEF StageReports
<1>4. StageReports["column_policy"] \subseteq Soft
  BY DEF StageReports
<1>5. StageReports["row_level_security"] \subseteq Soft
  BY DEF StageReports, RlsCodes
<1>6. StageReports["join_checks"] \subseteq Soft
  BY DEF StageReports
<1>7. StageReports["partition_filters"] \subseteq Soft
  BY DEF StageReports
<1>8. StageReports["cost_estimation"] \subseteq Soft
  BY DEF StageReports
<1>9. /\ StageReports["statement_gate"] \subseteq Violation
      /\ \A v \in StageReports["statement_gate"] : v.is_error /\ v.code \in HARD_STOP_CODES
  BY DEF StageReports, GateCodes
<1> HIDE DEF Soft, Violation
<1> QED BY <1>1, <1>2, <1>3, <1>4, <1>5, <1>6, <1>7, <1>8, <1>9 DEF Found, CheckStages

-----------------------------------------------------------------------------
(* Type correctness.                                                        *)

LEMMA TallyType ==
  ASSUME NEW f \in [Calls -> [Checks -> Nat]], NEW c \in Calls, NEW ks
  PROVE  Tally(f, c, ks) \in [Calls -> [Checks -> Nat]]
BY DEF Tally

LEMMA RunsType ==
  ASSUME TypeOK, NEW c \in Calls, NEW ks, Runs(c, ks)
  PROVE  run' \in [Calls -> [Checks -> Nat]]
BY TallyType DEF TypeOK, Runs

LEMMA SkipsType ==
  ASSUME TypeOK, NEW c \in Calls, NEW ks, Skips(c, ks)
  PROVE  skipped' \in [Calls -> [Checks -> Nat]]
BY TallyType DEF TypeOK, Skips

LEMMA ReportType ==
  ASSUME TypeOK, NEW c \in Calls, NEW found \in SUBSET Violation, Report(c, found)
  PROVE  violations' \in [Calls -> SUBSET Violation]
BY DEF TypeOK, Report

LEMMA GotoType ==
  ASSUME TypeOK, NEW c \in Calls, NEW s \in Stages, Goto(c, s)
  PROVE  pc' \in [Calls -> Stages]
BY DEF TypeOK, Goto

LEMMA EnforceLimitType ==
  ASSUME NEW limit \in WrittenLimits, NEW p \in Policies
  PROVE  EnforceLimit(limit, p) \in LimitType
<1>1. limit \in LimitType
  <2>1. CASE limit \in [kind : {"literal"}, n : Literals]
    BY <2>1, LiteralsAssumption DEF LimitType
  <2>2. CASE limit \in {NoLimit, [kind |-> "expression", n |-> 0]}
    BY <2>2 DEF LimitType, NoLimit
  <2> QED BY <2>1, <2>2 DEF WrittenLimits
<1>2. p.default_limit \in Nat /\ p.max_limit \in Nat
  BY PoliciesAssumption DEF PolicyType
<1>3. \A n \in Nat : [kind |-> "literal", n |-> n] \in LimitType
  BY DEF LimitType
<1> QED BY <1>1, <1>2, <1>3 DEF EnforceLimit

LEMMA TreeUpdateType ==
  ASSUME NEW t \in TreeType
  PROVE  /\ \A q \in BOOLEAN, s \in Stars :
              [t EXCEPT !.qualified = q, !.star = s] \in TreeType
         /\ \A s \in Stars :
              [t EXCEPT !.star = s] \in TreeType
         /\ \A r \in {"ungoverned", "unfiltered", "filtered", "accepted"} :
              [t EXCEPT !.rls = r] \in TreeType
         /\ \A l \in LimitType : [t EXCEPT !.limit = l] \in TreeType
         /\ t.star \in Stars
         /\ t.rls \in {"ungoverned", "unfiltered", "filtered", "accepted"}
BY DEF TreeType, Stars

LEMMA TypeStep == TypeOK /\ [Next]_vars => TypeOK'
<1> SUFFICES ASSUME TypeOK, [Next]_vars PROVE TypeOK'
  OBVIOUS
<1>1. CASE UNCHANGED vars
  BY <1>1 DEF TypeOK, vars
<1>2. ASSUME NEW c \in Calls, Submit(c) \/ Advance(c) \/ Fail(c) PROVE TypeOK'
  <2> USE DEF schemaVars, callVars
  <2>s. \A s \in CheckStages \cup {"parse", "statement_gate", "qualification",
             "limit_enforcement", "idle", "build_schema", "qualify", "estimate",
             "finalize", "done"} : s \in Stages
    BY DEF Stages, Checks, AllChecks, CheckStages
  <2>soft. \A s \in CheckStages : \A found \in Found(s) : found \in SUBSET Violation
    BY ReportsTyped DEF Soft
  <2>1. CASE Submit(c)
    BY <2>1, <2>s, GotoType DEF Submit, TypeOK
  <2>2. CASE Parse(c)
    <3>1. run' \in [Calls -> [Checks -> Nat]]
      BY <2>2, RunsType DEF Parse
    <3>2. violations' \in [Calls -> SUBSET Violation] /\ pc' \in [Calls -> Stages]
      <4>1. \A v \in Err({"PARSE_ERROR", "MULTIPLE_STATEMENTS"}) : {v} \in SUBSET Violation
        BY DEF Err, Violation, Codes
      <4> QED BY <4>1, <2>2, <2>s, ReportType, GotoType DEF Parse, TypeOK
    <3> QED BY <3>1, <3>2, <2>2 DEF Parse, TypeOK
  <2>3. CASE StatementGate(c)
    <3>1. run' \in [Calls -> [Checks -> Nat]]
      BY <2>3, RunsType DEF StatementGate
    <3>2. violations' \in [Calls -> SUBSET Violation] /\ pc' \in [Calls -> Stages]
      <4>1. PICK found \in Found("statement_gate") :
              Report(c, found) /\ Goto(c, AfterGate(found))
        BY <2>3 DEF StatementGate
      <4>2. found \in SUBSET Violation
        BY ReportsTyped
      <4>3. AfterGate(found) \in Stages
        BY <2>s DEF AfterGate, CheckStages
      <4> QED BY <4>1, <4>2, <4>3, ReportType, GotoType
    <3> QED BY <3>1, <3>2, <2>3 DEF StatementGate, TypeOK
  <2>4. CASE FunctionPolicy(c)
    <3>1. run' \in [Calls -> [Checks -> Nat]]
      BY <2>4, RunsType DEF FunctionPolicy
    <3>2. violations' \in [Calls -> SUBSET Violation] /\ pc' \in [Calls -> Stages]
      BY <2>4, <2>s, <2>soft, ReportType, GotoType DEF FunctionPolicy, CheckStages
    <3> QED BY <3>1, <3>2, <2>4 DEF FunctionPolicy, TypeOK
  <2>5. CASE NameBinding(c)
    <3>1. run' \in [Calls -> [Checks -> Nat]] /\ skipped' \in [Calls -> [Checks -> Nat]]
      <4>1. skipped' = skipped \/ Skips(c, {"qualification", "type_checks"})
        BY <2>5 DEF NameBinding
      <4>2. skipped' \in [Calls -> [Checks -> Nat]]
        BY <4>1, SkipsType DEF TypeOK
      <4> QED BY <4>2, <2>5, RunsType DEF NameBinding
    <3>2. violations' \in [Calls -> SUBSET Violation] /\ pc' \in [Calls -> Stages]
      BY <2>5, <2>s, <2>soft, ReportType, GotoType DEF NameBinding, CheckStages
    <3>3. tree' \in [Calls -> TreeType]
      BY <2>5 DEF NameBinding, TypeOK, TreeType, LimitType, NoLimit, Stars
    <3> QED BY <3>1, <3>2, <3>3, <2>5 DEF NameBinding, TypeOK
  <2>6. CASE Qualification(c)
    <3>1. run' \in [Calls -> [Checks -> Nat]]
      BY <2>6, RunsType DEF Qualification
    <3>2. pc' \in [Calls -> Stages] /\ nested' \in [Calls -> SUBSET Tables]
      BY <2>6, <2>s, GotoType DEF Qualification, TypeOK
    <3> QED BY <3>1, <3>2, <2>6 DEF Qualification, TypeOK
  <2>7. CASE AddTable(c)
    BY <2>7 DEF AddTable, TypeOK
  <2>8. CASE PublishSchema(c)
    <3>1. pc' \in [Calls -> Stages]
      BY <2>8, <2>s, GotoType DEF PublishSchema
    <3> QED BY <3>1, <2>8 DEF PublishSchema, TypeOK
  <2>9. CASE Qualify(c)
    <3>1. ASSUME NEW q \in BOOLEAN, AfterQualify(c, q)
          PROVE  skipped' \in [Calls -> [Checks -> Nat]] /\ pc' \in [Calls -> Stages]
      <4>1. /\ skipped' = skipped \/ Skips(c, {"type_checks"})
            /\ Goto(c, "type_checks") \/ Goto(c, "column_policy")
        BY <3>1 DEF AfterQualify
      <4>2. skipped' \in [Calls -> [Checks -> Nat]]
        BY <4>1, SkipsType DEF TypeOK
      <4> QED BY <4>1, <4>2, <2>s, GotoType DEF CheckStages
    <3>2. skipped' \in [Calls -> [Checks -> Nat]] /\ pc' \in [Calls -> Stages]
      BY <3>1, <2>9 DEF Qualify
    <3>3. violations' \in [Calls -> SUBSET Violation]
      <4>1. \A v \in Err({"SEMANTIC_ERROR"}) : {v} \in SUBSET Violation
        BY DEF Err, Violation, Codes
      <4> QED BY <4>1, <2>9, ReportType DEF Qualify, TypeOK
    <3>4. tree' \in [Calls -> TreeType]
      <4>1. CASE tree' = tree
        BY <4>1 DEF TypeOK
      <4>2. CASE tree' # tree
        <5>1. PICK s \in Stars :
                tree' = [tree EXCEPT ![c] = [tree[c] EXCEPT !.qualified = TRUE, !.star = s]]
          <6>1. tree[c] \in TreeType
            BY DEF TypeOK
          <6>2. \A star \in Expansions(tree[c].star) : star \in Stars
            BY <6>1, TreeUpdateType DEF Expansions, Stars
          <6> QED BY <6>1, <6>2, <4>2, <2>9 DEF Qualify
        <5> QED BY <5>1, TreeUpdateType DEF TypeOK
      <4> QED BY <4>1, <4>2
    <3> QED BY <3>2, <3>3, <3>4, <2>9 DEF Qualify, TypeOK
  <2>10. CASE TypeChecks(c)
    <3>1. run' \in [Calls -> [Checks -> Nat]]
      BY <2>10, RunsType DEF TypeChecks
    <3>2. violations' \in [Calls -> SUBSET Violation] /\ pc' \in [Calls -> Stages]
      BY <2>10, <2>s, <2>soft, ReportType, GotoType DEF TypeChecks, CheckStages
    <3> QED BY <3>1, <3>2, <2>10 DEF TypeChecks, TypeOK
  <2>11. CASE ColumnPolicy(c)
    <3>1. run' \in [Calls -> [Checks -> Nat]]
      BY <2>11, RunsType DEF ColumnPolicy
    <3>2. violations' \in [Calls -> SUBSET Violation] /\ pc' \in [Calls -> Stages]
      BY <2>11, <2>s, <2>soft, ReportType, GotoType DEF ColumnPolicy, CheckStages
    <3>3. tree' \in [Calls -> TreeType]
      <4>1. PICK s \in Stars :
              tree' = [tree EXCEPT ![c] = [tree[c] EXCEPT !.star = s]]
        <5>1. tree[c] \in TreeType
          BY DEF TypeOK
        <5> QED BY <5>1, <2>11, TreeUpdateType DEF ColumnPolicy, Stars
      <4> QED BY <4>1, TreeUpdateType DEF TypeOK
    <3> QED BY <3>1, <3>2, <3>3, <2>11 DEF ColumnPolicy, TypeOK
  <2>12. CASE RowLevelSecurity(c)
    <3>1. run' \in [Calls -> [Checks -> Nat]]
      BY <2>12, RunsType DEF RowLevelSecurity
    <3>2. violations' \in [Calls -> SUBSET Violation] /\ pc' \in [Calls -> Stages]
      BY <2>12, <2>s, <2>soft, ReportType, GotoType DEF RowLevelSecurity, CheckStages
    <3>3. tree' \in [Calls -> TreeType]
      <4>1. PICK r \in {"ungoverned", "unfiltered", "filtered", "accepted"} :
              tree' = [tree EXCEPT ![c] = [tree[c] EXCEPT !.rls = r]]
        <5>1. tree[c] \in TreeType
          BY DEF TypeOK
        <5>2. tree[c].rls \in {"ungoverned", "unfiltered", "filtered", "accepted"}
          BY <5>1, TreeUpdateType
        <5> QED BY <5>2, <2>12 DEF RowLevelSecurity, Outcomes
      <4> QED BY <4>1, TreeUpdateType DEF TypeOK
    <3> QED BY <3>1, <3>2, <3>3, <2>12 DEF RowLevelSecurity, TypeOK
  <2>13. CASE LimitEnforcement(c)
    <3>1. run' \in [Calls -> [Checks -> Nat]]
      BY <2>13, RunsType DEF LimitEnforcement
    <3>2. pc' \in [Calls -> Stages]
      BY <2>13, <2>s, GotoType DEF LimitEnforcement, CheckStages
    <3>3. tree' \in [Calls -> TreeType]
      <4>1. PICK l \in LimitType : tree' = [tree EXCEPT ![c] = [tree[c] EXCEPT !.limit = l]]
        BY <2>13, EnforceLimitType DEF LimitEnforcement, TypeOK
      <4> QED BY <4>1, TreeUpdateType DEF TypeOK
    <3> QED BY <3>1, <3>2, <3>3, <2>13 DEF LimitEnforcement, TypeOK
  <2>14. CASE JoinChecks(c)
    <3>1. run' \in [Calls -> [Checks -> Nat]] /\ skipped' \in [Calls -> [Checks -> Nat]]
      <4>1. /\ run' = run \/ Runs(c, {"join_checks"})
            /\ skipped' = skipped \/ Skips(c, {"join_checks"})
        BY <2>14 DEF JoinChecks
      <4>2. run' \in [Calls -> [Checks -> Nat]]
        BY <4>1, RunsType DEF TypeOK
      <4>3. skipped' \in [Calls -> [Checks -> Nat]]
        BY <4>1, SkipsType DEF TypeOK
      <4> QED BY <4>2, <4>3
    <3>2. violations' \in [Calls -> SUBSET Violation] /\ pc' \in [Calls -> Stages]
      BY <2>14, <2>s, <2>soft, ReportType, GotoType DEF JoinChecks, CheckStages, TypeOK
    <3> QED BY <3>1, <3>2, <2>14 DEF JoinChecks, TypeOK
  <2>15. CASE PartitionFilters(c)
    <3>1. run' \in [Calls -> [Checks -> Nat]]
      BY <2>15, RunsType DEF PartitionFilters
    <3>2. violations' \in [Calls -> SUBSET Violation] /\ pc' \in [Calls -> Stages]
      BY <2>15, <2>s, <2>soft, ReportType, GotoType DEF PartitionFilters, CheckStages
    <3> QED BY <3>1, <3>2, <2>15 DEF PartitionFilters, TypeOK
  <2>16. CASE CostEstimation(c)
    <3>1. run' \in [Calls -> [Checks -> Nat]]
      BY <2>16, RunsType DEF CostEstimation
    <3>2. pc' \in [Calls -> Stages]
      BY <2>16, <2>s, GotoType DEF CostEstimation
    <3> QED BY <3>1, <3>2, <2>16 DEF CostEstimation, TypeOK
  <2>17. CASE RunEstimator(c)
    <3>1. violations' \in [Calls -> SUBSET Violation]
      BY <2>17, <2>soft, ReportType DEF RunEstimator, CheckStages
    <3>2. estimated' \in [Calls -> 0..Estimators]
      BY <2>17, EstimatorsAssumption DEF RunEstimator, MayEstimate, TypeOK
    <3> QED BY <3>1, <3>2, <2>17 DEF RunEstimator, TypeOK
  <2>18. CASE EndEstimation(c)
    BY <2>18, <2>s, GotoType DEF EndEstimation, TypeOK
  <2>19. CASE Render(c)
    <3>1. run' \in [Calls -> [Checks -> Nat]] /\ skipped' \in [Calls -> [Checks -> Nat]]
      BY <2>19, RunsType, SkipsType DEF Render
    <3>2. violations' \in [Calls -> SUBSET Violation] /\ pc' \in [Calls -> Stages]
      <4>1. {InternalError} \in SUBSET Violation
        BY DEF InternalError, Violation, Codes
      <4> QED BY <4>1, <2>19, <2>s, ReportType, GotoType DEF Render, TypeOK
    <3>3. /\ audit' \in [Calls -> {"none", "select", "unparsable", "not_a_select"}]
          /\ result' \in [Calls -> [valid : BOOLEAN, sql : BOOLEAN, would_block : BOOLEAN]]
      <4>1. PICK text \in {"select", "unparsable", "not_a_select"} :
              audit' = [audit EXCEPT ![c] = text]
        BY <2>19 DEF Render
      <4>2. result' = result \/ result' = [result EXCEPT ![c] =
              [valid |-> TRUE, sql |-> TRUE, would_block |-> Shadowed(c)]]
        BY <2>19 DEF Render
      <4>3. Shadowed(c) \in BOOLEAN
        BY DEF Shadowed, HasErrors
      <4>4. audit' \in [Calls -> {"none", "select", "unparsable", "not_a_select"}]
        BY <4>1 DEF TypeOK
      <4>5. result' \in [Calls -> [valid : BOOLEAN, sql : BOOLEAN, would_block : BOOLEAN]]
        <5>1. [valid |-> TRUE, sql |-> TRUE, would_block |-> Shadowed(c)]
                \in [valid : BOOLEAN, sql : BOOLEAN, would_block : BOOLEAN]
          BY <4>3
        <5> HIDE DEF Shadowed
        <5> QED BY <5>1, <4>2 DEF TypeOK
      <4> QED BY <4>4, <4>5
    <3> QED BY <3>1, <3>2, <3>3, <2>19 DEF Render, TypeOK
  <2>20. CASE Refuse(c)
    <3>1. skipped' \in [Calls -> [Checks -> Nat]]
      BY <2>20, SkipsType DEF Refuse
    <3>2. pc' \in [Calls -> Stages]
      BY <2>20, <2>s, GotoType DEF Refuse
    <3>3. result' \in [Calls -> [valid : BOOLEAN, sql : BOOLEAN, would_block : BOOLEAN]]
      BY <2>20 DEF Refuse, TypeOK, Passes, HasErrors, Shadowed
    <3> QED BY <3>1, <3>2, <3>3, <2>20 DEF Refuse, TypeOK
  <2>21. CASE Fail(c)
    <3>1. {InternalError} \in SUBSET Violation
      BY DEF InternalError, Violation, Codes
    <3>2. pc' \in [Calls -> Stages]
      BY <2>21, <2>s, GotoType DEF Fail
    <3> QED BY <3>1, <3>2, <2>21 DEF Fail, TypeOK, Pending
  <2> QED BY <1>2, <2>1, <2>2, <2>3, <2>4, <2>5, <2>6, <2>7, <2>8, <2>9, <2>10, <2>11,
             <2>12, <2>13, <2>14, <2>15, <2>16, <2>17, <2>18, <2>19, <2>20, <2>21
          DEF Advance
<1> QED BY <1>1, <1>2 DEF Next

\* Every variable of the pipeline keeps its type, for every instance.
THEOREM TypeCorrect == Spec => []TypeOK
<1>1. Init => TypeOK
  BY EstimatorsAssumption
     DEF Init, TypeOK, Stages, Pending, NoTree, TreeType, LimitType, NoLimit, Stars
<1> QED BY <1>1, TypeStep, PTL DEF Spec

-----------------------------------------------------------------------------
(* What a step does to the call that takes it, and to the others.           *)

LEMMA GotoEffect ==
  ASSUME TypeOK, NEW c \in Calls, NEW s, Goto(c, s)
  PROVE  pc'[c] = s
BY DEF TypeOK, Goto

LEMMA ReportEffect ==
  ASSUME TypeOK, NEW c \in Calls, NEW found, Report(c, found)
  PROVE  violations'[c] = violations[c] \cup found
BY DEF TypeOK, Report

LEMMA RunsEffect ==
  ASSUME TypeOK, NEW c \in Calls, NEW ks, Runs(c, ks)
  PROVE  \A k \in Checks : run'[c][k] = IF k \in ks THEN run[c][k] + 1 ELSE run[c][k]
BY DEF TypeOK, Runs, Tally

LEMMA SkipsEffect ==
  ASSUME TypeOK, NEW c \in Calls, NEW ks, Skips(c, ks)
  PROVE  \A k \in Checks :
           skipped'[c][k] = IF k \in ks THEN skipped[c][k] + 1 ELSE skipped[c][k]
BY DEF TypeOK, Skips, Tally

\* A call's own state.
SameState(d) ==
  /\ pc'[d] = pc[d]
  /\ violations'[d] = violations[d]
  /\ tree'[d] = tree[d]
  /\ run'[d] = run[d]
  /\ skipped'[d] = skipped[d]
  /\ estimated'[d] = estimated[d]
  /\ audit'[d] = audit[d]
  /\ result'[d] = result[d]

\* A step of one call leaves the state of every other call alone.
LEMMA Untouched ==
  ASSUME TypeOK, NEW c \in Calls, Submit(c) \/ Advance(c) \/ Fail(c),
         NEW d \in Calls, d # c
  PROVE  SameState(d) /\ policy' = policy
<1> USE DEF SameState, callVars, Goto, Report, Runs, Skips, Tally, TypeOK
<1>1. CASE Submit(c)
  BY <1>1 DEF Submit
<1>2. CASE Parse(c)
  BY <1>2 DEF Parse
<1>3. CASE StatementGate(c)
  BY <1>3 DEF StatementGate
<1>4. CASE FunctionPolicy(c)
  BY <1>4 DEF FunctionPolicy
<1>5. CASE NameBinding(c)
  BY <1>5 DEF NameBinding
<1>6. CASE Qualification(c)
  BY <1>6 DEF Qualification
<1>7. CASE AddTable(c)
  BY <1>7 DEF AddTable
<1>8. CASE PublishSchema(c)
  BY <1>8 DEF PublishSchema
<1>9. CASE Qualify(c)
  BY <1>9 DEF Qualify, AfterQualify
<1>10. CASE TypeChecks(c)
  BY <1>10 DEF TypeChecks
<1>11. CASE ColumnPolicy(c)
  BY <1>11 DEF ColumnPolicy
<1>12. CASE RowLevelSecurity(c)
  BY <1>12 DEF RowLevelSecurity
<1>13. CASE LimitEnforcement(c)
  BY <1>13 DEF LimitEnforcement
<1>14. CASE JoinChecks(c)
  BY <1>14 DEF JoinChecks
<1>15. CASE PartitionFilters(c)
  BY <1>15 DEF PartitionFilters
<1>16. CASE CostEstimation(c)
  BY <1>16 DEF CostEstimation
<1>17. CASE RunEstimator(c)
  BY <1>17 DEF RunEstimator
<1>18. CASE EndEstimation(c)
  BY <1>18 DEF EndEstimation
<1>19. CASE Render(c)
  BY <1>19 DEF Render
<1>20. CASE Refuse(c)
  BY <1>20 DEF Refuse
<1>21. CASE Fail(c)
  BY <1>21 DEF Fail
<1> QED BY <1>1, <1>2, <1>3, <1>4, <1>5, <1>6, <1>7, <1>8, <1>9, <1>10, <1>11, <1>12,
           <1>13, <1>14, <1>15, <1>16, <1>17, <1>18, <1>19, <1>20, <1>21 DEF Advance

-----------------------------------------------------------------------------
(* The phases of a call: nothing is known of a statement before the gate,   *)
(* no hard stop is recorded after it, and finalize is reached either with a *)
(* tree and without a hard stop, or with a hard stop and without a tree.    *)

Early == {"idle", "parse", "statement_gate"}
Late == {"qualification", "build_schema", "qualify", "type_checks", "column_policy",
         "row_level_security", "limit_enforcement", "join_checks",
         "partition_filters", "cost_estimation", "estimate"}

\* No check after the gate has run.
Untried(c) ==
  /\ ~tree[c].root
  /\ estimated[c] = 0
  /\ \A k \in Checks \ {"parse", "statement_gate"} : run[c][k] = 0

OtherHardStop(c) ==
  \E v \in violations[c] : v.is_error /\ v.code \in HARD_STOP_CODES \ {"INTERNAL_ERROR"}

\* What ExecutableIsAudited says of one call.
Audited(c) ==
  /\ result[c].sql <=> result[c].valid
  /\ result[c].valid => audit[c] = "select" /\ ~HasHardStop(c)
  /\ result[c].would_block <=> result[c].valid /\ HasErrors(c)
  /\ result[c].would_block => policy.enforcement = "log_only"

Phase(c) ==
  /\ pc[c] \in Early => violations[c] = {} /\ Untried(c)
  /\ pc[c] \in {"function_policy", "name_binding"} \cup Late => ~HasHardStop(c)
  /\ pc[c] \in Late => tree[c].root
  /\ pc[c] \in Stages \ {"estimate", "finalize", "done"} => estimated[c] = 0
  /\ pc[c] = "finalize" => \/ tree[c].root /\ ~HasHardStop(c)
                           \/ HasHardStop(c) /\ Untried(c)
  /\ pc[c] # "done" => result[c] = Pending /\ audit[c] = "none"
  /\ pc[c] = "done" => Audited(c) /\ (OtherHardStop(c) => Untried(c))

\* A check after the gate keeps the phase when it adds no hard stop, keeps the
\* tree and asks an estimator only at its place.
LEMMA SoftStep ==
  ASSUME TypeOK, NEW c \in Calls, Phase(c),
         pc[c] \in {"function_policy", "name_binding"} \cup Late,
         NEW s \in {"name_binding", "finalize"} \cup Late,
         pc'[c] = s,
         s # "name_binding" => tree'[c].root,
         NEW found \in SUBSET Soft,
         violations'[c] = violations[c] \cup found,
         result'[c] = result[c], audit'[c] = audit[c],
         estimated'[c] = estimated[c] \/ s \in {"estimate", "finalize"},
         pc[c] = "estimate" => s \in {"estimate", "finalize"}
  PROVE  Phase(c)'
<1>1. ~HasHardStop(c)
  BY DEF Phase
<1>2. ~HasHardStop(c)'
  BY <1>1 DEF HasHardStop, Soft
<1>3. s \in Stages \ {"estimate", "finalize", "done"} => estimated'[c] = 0
  BY DEF Phase, Late, Stages, Checks, AllChecks
<1>4. result'[c] = Pending /\ audit'[c] = "none"
  BY DEF Phase, Late
<1>5. s \notin Early /\ s # "done" /\ "name_binding" \notin Late
  BY DEF Early, Late
<1> QED BY <1>2, <1>3, <1>4, <1>5 DEF Phase

LEMMA PhaseStep ==
  ASSUME TypeOK, NEW c \in Calls, Phase(c), Submit(c) \/ Advance(c) \/ Fail(c)
  PROVE  Phase(c)'
<1> USE DEF At
<1>soft. \A s \in CheckStages : \A found \in Found(s) : found \in SUBSET Soft
  BY ReportsTyped
<1>none. violations' = violations => violations'[c] = violations[c] \cup {} /\ {} \in SUBSET Soft
  OBVIOUS
<1>1. CASE Submit(c)
  <2>1. pc[c] = "idle" /\ pc'[c] = "parse" /\ UNCHANGED callVars
    BY <1>1, GotoEffect DEF Submit
  <2> QED BY <2>1 DEF Phase, callVars, Early, Late, Untried, Stages, Checks, AllChecks
<1>2. CASE Parse(c)
  <2>1. pc[c] = "parse" /\ violations[c] = {} /\ Untried(c)
    BY <1>2 DEF Parse, Phase, Early
  <2>2. /\ \A k \in Checks \ {"parse", "statement_gate"} : run'[c][k] = 0
        /\ UNCHANGED <<tree, estimated, audit, result>>
    BY <1>2, <2>1, RunsEffect DEF Parse, Untried
  <2>3. Untried(c)'
    BY <2>1, <2>2 DEF Untried
  <2>4. result'[c] = Pending /\ audit'[c] = "none"
    BY <2>1, <2>2 DEF Phase
  <2>5. CASE Goto(c, "statement_gate") /\ UNCHANGED violations
    <3>1. pc'[c] = "statement_gate" /\ violations'[c] = {}
      BY <2>1, <2>5, GotoEffect
    <3> QED BY <3>1, <2>3, <2>4 DEF Phase, Early, Late, Untried
  <2>6. CASE \E v \in Err({"PARSE_ERROR", "MULTIPLE_STATEMENTS"}) \cap Reportable :
               Report(c, {v}) /\ Goto(c, "finalize")
    <3>1. PICK v \in Err({"PARSE_ERROR", "MULTIPLE_STATEMENTS"}) :
            Report(c, {v}) /\ Goto(c, "finalize")
      BY <2>6
    <3>2. pc'[c] = "finalize" /\ violations'[c] = violations[c] \cup {v}
      BY <3>1, GotoEffect, ReportEffect
    <3>3. HasHardStop(c)'
      BY <3>2 DEF HasHardStop, Err, HARD_STOP_CODES
    <3> QED BY <3>2, <3>3, <2>3, <2>4 DEF Phase, Early, Late
  <2> QED BY <1>2, <2>5, <2>6 DEF Parse
<1>3. CASE StatementGate(c)
  <2>1. pc[c] = "statement_gate" /\ violations[c] = {} /\ Untried(c)
    BY <1>3 DEF StatementGate, Phase, Early
  <2>2. /\ \A k \in Checks \ {"parse", "statement_gate"} : run'[c][k] = 0
        /\ UNCHANGED <<tree, estimated, audit, result>>
    BY <1>3, <2>1, RunsEffect DEF StatementGate, Untried
  <2>3. Untried(c)'
    BY <2>1, <2>2 DEF Untried
  <2>4. result'[c] = Pending /\ audit'[c] = "none"
    BY <2>1, <2>2 DEF Phase
  <2>5. PICK found \in Found("statement_gate") :
          Report(c, found) /\ Goto(c, AfterGate(found))
    BY <1>3 DEF StatementGate
  <2>6. CASE found = {}
    <3>1. pc'[c] = "function_policy" /\ violations'[c] = {}
      BY <2>1, <2>5, <2>6, GotoEffect, ReportEffect DEF AfterGate
    <3>2. ~HasHardStop(c)'
      BY <3>1 DEF HasHardStop
    <3> QED BY <3>1, <3>2, <2>3, <2>4 DEF Phase, Early, Late, Untried
  <2>7. CASE found # {}
    <3>1. pc'[c] = "finalize"
      BY <2>5, <2>7, GotoEffect DEF AfterGate
    <3>2. violations'[c] = violations[c] \cup found
      BY <2>5, ReportEffect
    <3>3. PICK v \in found : v.is_error /\ v.code \in HARD_STOP_CODES
      BY <2>7, ReportsTyped
    <3>4. HasHardStop(c)'
      BY <3>2, <3>3 DEF HasHardStop
    <3> QED BY <3>1, <3>4, <2>3, <2>4 DEF Phase, Early, Late
  <2> QED BY <2>6, <2>7
<1>4. CASE FunctionPolicy(c)
  <2>1. PICK found \in Found("function_policy") : Report(c, found)
    BY <1>4 DEF FunctionPolicy
  <2> QED BY <1>4, <2>1, <1>soft, GotoEffect, ReportEffect, SoftStep DEF FunctionPolicy, CheckStages
<1>5. CASE NameBinding(c)
  <2>1. PICK found \in Found("name_binding") :
          /\ Report(c, found)
          /\ Goto(c, "column_policy") \/ Goto(c, "qualification")
    BY <1>5 DEF NameBinding
  <2>2. tree'[c].root
    BY <1>5 DEF NameBinding, TypeOK
  <2>3. pc'[c] \in {"column_policy", "qualification"}
    BY <2>1, GotoEffect
  <2> QED BY <1>5, <2>1, <2>2, <2>3, <1>soft, ReportEffect, SoftStep
          DEF NameBinding, CheckStages, Late
<1>6. CASE Qualification(c)
  <2>1. pc'[c] \in {"build_schema", "qualify"}
    BY <1>6, GotoEffect DEF Qualification
  <2> QED BY <1>6, <2>1, <1>none, SoftStep DEF Qualification, Late, Phase
<1>7. CASE AddTable(c)
  BY <1>7, <1>none, SoftStep DEF AddTable, callVars, Late, Phase
<1>8. CASE PublishSchema(c)
  <2>1. pc'[c] = "qualify"
    BY <1>8, GotoEffect DEF PublishSchema
  <2> QED BY <1>8, <2>1, <1>none, SoftStep DEF PublishSchema, callVars, Late, Phase
<1>9. CASE Qualify(c)
  <2>1. pc'[c] \in {"type_checks", "column_policy"}
    BY <1>9, GotoEffect DEF Qualify, AfterQualify
  <2>2. tree'[c].root
    <3>1. tree[c].root /\ tree[c] \in TreeType
      BY <1>9 DEF Qualify, Phase, Late, TypeOK
    <3>2. tree' = tree \/ \E s : tree' = [tree EXCEPT ![c].qualified = TRUE, ![c].star = s]
      BY <1>9 DEF Qualify
    <3>3. ASSUME NEW s, tree' = [tree EXCEPT ![c].qualified = TRUE, ![c].star = s]
          PROVE  tree'[c].root
      <4>1. tree'[c] = [tree[c] EXCEPT !.qualified = TRUE, !.star = s]
        BY <3>3 DEF TypeOK
      <4> QED BY <3>1, <4>1 DEF TreeType
    <3> QED BY <3>1, <3>2, <3>3
  <2>3. PICK found \in SUBSET Soft : violations'[c] = violations[c] \cup found
    <3>1. \A v \in Err({"SEMANTIC_ERROR"}) : {v} \in SUBSET Soft
      BY DEF Err, Soft, Violation, Codes, HARD_STOP_CODES
    <3> QED BY <1>9, <3>1, <1>none, ReportEffect DEF Qualify
  <2> QED BY <1>9, <2>1, <2>2, <2>3, SoftStep DEF Qualify, Late
<1>10. CASE TypeChecks(c)
  <2>1. PICK found \in Found("type_checks") : Report(c, found)
    BY <1>10 DEF TypeChecks
  <2>2. /\ pc[c] = "type_checks" /\ pc'[c] = "column_policy"
        /\ UNCHANGED <<tree, estimated, audit, result>>
    BY <1>10, GotoEffect DEF TypeChecks
  <2>3. tree'[c].root
    BY <2>2 DEF Phase, Late
  <2>4. found \in SUBSET Soft
    BY <1>soft DEF CheckStages
  <2> QED BY <2>1, <2>2, <2>3, <2>4, ReportEffect, SoftStep DEF Late
<1>11. CASE ColumnPolicy(c)
  <2>1. PICK found \in Found("column_policy") : Report(c, found)
    BY <1>11 DEF ColumnPolicy
  <2>2. tree'[c].root
    BY <1>11 DEF ColumnPolicy, Phase, Late, TypeOK, TreeType
  <2> QED BY <1>11, <2>1, <2>2, <1>soft, GotoEffect, ReportEffect, SoftStep
          DEF ColumnPolicy, CheckStages, Late
<1>12. CASE RowLevelSecurity(c)
  <2>1. PICK found \in Found("row_level_security") : Report(c, found)
    BY <1>12 DEF RowLevelSecurity
  <2>2. tree'[c].root
    BY <1>12 DEF RowLevelSecurity, Phase, Late, TypeOK, TreeType
  <2> QED BY <1>12, <2>1, <2>2, <1>soft, GotoEffect, ReportEffect, SoftStep
          DEF RowLevelSecurity, CheckStages, Late
<1>13. CASE LimitEnforcement(c)
  <2>1. tree'[c].root
    BY <1>13 DEF LimitEnforcement, Phase, Late, TypeOK, TreeType
  <2> QED BY <1>13, <2>1, <1>none, GotoEffect, SoftStep DEF LimitEnforcement, Late
<1>14. CASE JoinChecks(c)
  <2>1. PICK found \in SUBSET Soft : violations'[c] = violations[c] \cup found
    BY <1>14, <1>soft, <1>none, ReportEffect DEF JoinChecks, CheckStages
  <2> QED BY <1>14, <2>1, GotoEffect, SoftStep DEF JoinChecks, Late, Phase
<1>15. CASE PartitionFilters(c)
  <2>1. PICK found \in Found("partition_filters") : Report(c, found)
    BY <1>15 DEF PartitionFilters
  <2> QED BY <1>15, <2>1, <1>soft, GotoEffect, ReportEffect, SoftStep
          DEF PartitionFilters, CheckStages, Late, Phase
<1>16. CASE CostEstimation(c)
  BY <1>16, <1>none, GotoEffect, SoftStep DEF CostEstimation, Late, Phase
<1>17. CASE RunEstimator(c)
  <2>1. PICK found \in Found("cost_estimation") : Report(c, found)
    BY <1>17 DEF RunEstimator
  <2> QED BY <1>17, <2>1, <1>soft, ReportEffect, SoftStep
          DEF RunEstimator, CheckStages, Late, Phase
<1>18. CASE EndEstimation(c)
  BY <1>18, <1>none, GotoEffect, SoftStep DEF EndEstimation, callVars, Late, Phase
<1>19. CASE Render(c)
  <2>1. /\ pc[c] = "finalize" /\ pc'[c] = "done"
        /\ Passes(c) /\ tree[c].root
        /\ result[c] = Pending
    BY <1>19, GotoEffect DEF Render, Phase
  <2>2. ~HasHardStop(c) /\ (HasErrors(c) => policy.enforcement = "log_only")
    BY <2>1 DEF Phase, Untried, Passes, Shadowed
  <2>3. PICK text \in {"select", "unparsable", "not_a_select"} :
          /\ audit' = [audit EXCEPT ![c] = text]
          /\ IF PassesAudit(text)
               THEN /\ result' = [result EXCEPT ![c] =
                          [valid |-> TRUE, sql |-> TRUE, would_block |-> Shadowed(c)]]
                    /\ UNCHANGED violations
               ELSE Report(c, {InternalError}) /\ UNCHANGED result
    BY <1>19 DEF Render
  <2>4. policy' = policy
    BY <1>19 DEF Render
  <2>5. CASE PassesAudit(text)
    <3>1. /\ audit'[c] = "select" /\ violations'[c] = violations[c]
          /\ result'[c] = [valid |-> TRUE, sql |-> TRUE, would_block |-> Shadowed(c)]
      BY <2>3, <2>5 DEF PassesAudit, TypeOK
    <3>2. Shadowed(c) <=> HasErrors(c)
      BY <2>1 DEF Passes, Shadowed
    <3>3. ~HasHardStop(c)' /\ (HasErrors(c)' <=> HasErrors(c))
      BY <3>1, <2>2 DEF HasHardStop, HasErrors
    <3>4. Audited(c)' /\ ~OtherHardStop(c)'
      BY <3>1, <3>2, <3>3, <2>2, <2>4 DEF Audited, OtherHardStop, HasHardStop
    <3> QED BY <3>4, <2>1 DEF Phase, Early, Late
  <2>6. CASE ~PassesAudit(text)
    <3>1. result'[c] = Pending /\ violations'[c] = violations[c] \cup {InternalError}
      BY <2>1, <2>3, <2>6, ReportEffect
    <3>2. Audited(c)' /\ ~OtherHardStop(c)'
      BY <3>1, <2>2 DEF Audited, Pending, OtherHardStop, HasHardStop, InternalError
    <3> QED BY <3>2, <2>1 DEF Phase, Early, Late
  <2> QED BY <2>5, <2>6
<1>20. CASE Refuse(c)
  <2>1. /\ pc[c] = "finalize" /\ pc'[c] = "done"
        /\ ~(Passes(c) /\ tree[c].root)
        /\ UNCHANGED <<violations, tree, run, estimated>>
    BY <1>20, GotoEffect DEF Refuse
  <2>2. ~Passes(c)
    BY <2>1 DEF Phase, Passes, Untried, Shadowed, HasErrors, HasHardStop
  <2>3. result'[c] = [valid |-> FALSE, sql |-> FALSE, would_block |-> FALSE]
    <3>1. Passes(c) = FALSE
      BY <2>2 DEF Passes, HasErrors, Shadowed
    <3> QED BY <1>20, <3>1 DEF Refuse, TypeOK
  <2>4. OtherHardStop(c)' => Untried(c)'
    <3>1. OtherHardStop(c) => HasHardStop(c)
      BY DEF OtherHardStop, HasHardStop
    <3>2. (OtherHardStop(c)' <=> OtherHardStop(c)) /\ (Untried(c)' <=> Untried(c))
      BY <2>1 DEF OtherHardStop, Untried
    <3> QED BY <3>1, <3>2, <2>1 DEF Phase
  <2> QED BY <2>1, <2>3, <2>4 DEF Phase, Audited, Early, Late
<1>21. CASE Fail(c)
  <2>1. /\ pc'[c] = "done" /\ result'[c] = Pending
        /\ violations'[c] = {InternalError}
    BY <1>21, GotoEffect DEF Fail, TypeOK
  <2>2. ~OtherHardStop(c)'
    BY <2>1 DEF OtherHardStop, InternalError
  <2> QED BY <2>1, <2>2 DEF Phase, Audited, Pending, Early, Late
<1> QED BY <1>1, <1>2, <1>3, <1>4, <1>5, <1>6, <1>7, <1>8, <1>9, <1>10, <1>11, <1>12,
           <1>13, <1>14, <1>15, <1>16, <1>17, <1>18, <1>19, <1>20, <1>21 DEF Advance

LEMMA PhaseStable ==
  ASSUME NEW c \in Calls, Phase(c), SameState(c), policy' = policy
  PROVE  Phase(c)'
BY DEF Phase, SameState, Untried, OtherHardStop, Audited, HasErrors, HasHardStop

LEMMA PhaseInvariant == Spec => [](\A c \in Calls : Phase(c))
<1>1. Init => \A c \in Calls : Phase(c)
  BY DEF Init, Phase, Early, Late, Untried, NoTree, HasHardStop, Stages, Checks, AllChecks
<1>2. ASSUME TypeOK, [Next]_vars, \A c \in Calls : Phase(c)
      PROVE  (\A c \in Calls : Phase(c))'
  <2>1. CASE UNCHANGED vars
    BY <1>2, <2>1, PhaseStable DEF vars, SameState
  <2>2. ASSUME NEW c \in Calls, Submit(c) \/ Advance(c) \/ Fail(c), NEW d \in Calls
        PROVE  Phase(d)'
    <3>1. CASE d = c
      BY <1>2, <2>2, <3>1, PhaseStep
    <3>2. CASE d # c
      BY <1>2, <2>2, <3>2, Untouched, PhaseStable
    <3> QED BY <3>1, <3>2
  <2> QED BY <1>2, <2>1, <2>2 DEF Next
<1> QED BY <1>1, <1>2, TypeCorrect, PTL DEF Spec

\* Whatever the statement, the policy and the estimators: SQL is returned
\* exactly by valid results, audited and free of hard stops, and would_block
\* tells what "block" would have done.
THEOREM AuditedAlways == Spec => []ExecutableIsAudited
<1>1. (\A c \in Calls : Phase(c)) => ExecutableIsAudited
  BY DEF Phase, Audited, ExecutableIsAudited, Done
<1> QED BY <1>1, PhaseInvariant, PTL

\* A statement the parser or the gate refused has been seen by no other check.
THEOREM HaltsAlways == Spec => []HardStopHaltsPipeline
<1>1. ASSUME TypeOK, \A c \in Calls : Phase(c), NEW c \in Calls, OtherHardStop(c)
      PROVE  Untried(c)
  <2>1. HasHardStop(c)
    BY <1>1 DEF OtherHardStop, HasHardStop
  <2>2. pc[c] \in Early \cup Late \cup {"function_policy", "name_binding", "finalize", "done"}
    BY <1>1 DEF TypeOK, Stages, Checks, AllChecks, Early, Late
  <2> QED BY <1>1, <2>1, <2>2 DEF Phase, HasHardStop
<1>2. TypeOK /\ (\A c \in Calls : Phase(c)) => HardStopHaltsPipeline
  BY <1>1 DEF HardStopHaltsPipeline, OtherHardStop, Untried
<1> QED BY <1>2, PhaseInvariant, TypeCorrect, PTL

-----------------------------------------------------------------------------
(* The shared schema.                                                       *)

\* However many threads build the schema at once, each qualifies against all
\* the tables of the catalog.
THEOREM WholeSchemaAlways == Spec => []WholeSchema
<1>1. Init => WholeSchema
  BY DEF Init, WholeSchema
<1>2. ASSUME TypeOK, WholeSchema, [Next]_vars PROVE WholeSchema'
  <2> USE DEF WholeSchema
  <2>1. CASE UNCHANGED vars
    BY <1>2, <2>1 DEF vars
  <2>2. ASSUME NEW c \in Calls, Qualification(c) PROVE WholeSchema'
    BY <1>2, <2>2 DEF Qualification, Goto, TypeOK
  <2>3. ASSUME NEW c \in Calls, PublishSchema(c) PROVE WholeSchema'
    BY <1>2, <2>3 DEF PublishSchema, Filled
  <2>4. ASSUME NEW c \in Calls, cache' = cache, NEW s, Goto(c, s), s # "qualify"
        PROVE  WholeSchema'
    BY <1>2, <2>4 DEF Goto, TypeOK
  <2>5. ASSUME NEW c \in Calls, cache' = cache, pc' = pc PROVE WholeSchema'
    BY <1>2, <2>5
  <2>6. ASSUME NEW c \in Calls, Submit(c) \/ Parse(c) \/ StatementGate(c) \/ FunctionPolicy(c)
                 \/ NameBinding(c) \/ Qualify(c) \/ TypeChecks(c) \/ ColumnPolicy(c)
        PROVE  WholeSchema'
    <3>1. /\ cache' = cache
          /\ \/ Goto(c, "parse") \/ Goto(c, "statement_gate") \/ Goto(c, "finalize")
             \/ \E found : Goto(c, AfterGate(found))
             \/ Goto(c, "name_binding") \/ Goto(c, "column_policy")
             \/ Goto(c, "qualification") \/ Goto(c, "type_checks")
             \/ Goto(c, "row_level_security")
      BY <2>6 DEF Submit, Parse, StatementGate, FunctionPolicy, NameBinding, Qualify,
                  AfterQualify, TypeChecks, ColumnPolicy, schemaVars
    <3>2. \A found : AfterGate(found) # "qualify"
      BY DEF AfterGate
    <3> QED BY <3>1, <3>2, <2>4
  <2>7. ASSUME NEW c \in Calls, RowLevelSecurity(c) \/ LimitEnforcement(c) \/ JoinChecks(c)
                 \/ PartitionFilters(c) \/ CostEstimation(c) \/ EndEstimation(c)
                 \/ Render(c) \/ Refuse(c) \/ Fail(c)
        PROVE  WholeSchema'
    <3>1. /\ cache' = cache
          /\ \/ Goto(c, "limit_enforcement") \/ Goto(c, "join_checks")
             \/ Goto(c, "partition_filters") \/ Goto(c, "cost_estimation")
             \/ Goto(c, "estimate") \/ Goto(c, "finalize") \/ Goto(c, "done")
      BY <2>7 DEF RowLevelSecurity, LimitEnforcement, JoinChecks, PartitionFilters,
                  CostEstimation, EndEstimation, Render, Refuse, Fail, schemaVars
    <3> QED BY <3>1, <2>4
  <2>8. ASSUME NEW c \in Calls, AddTable(c) \/ RunEstimator(c) PROVE WholeSchema'
    BY <2>5, <2>8 DEF AddTable, RunEstimator, schemaVars
  <2> QED BY <1>2, <2>1, <2>2, <2>3, <2>6, <2>7, <2>8 DEF Next, Advance
<1>3. TypeOK /\ WholeSchema /\ [Next]_vars => WholeSchema'
  BY <1>2
<1> QED BY <1>1, <1>3, TypeCorrect, PTL DEF Spec

-----------------------------------------------------------------------------
(* Protection: a check that leaves the tree unprotected records an error.   *)

ErrorsGrow(c) == HasErrors(c) => HasErrors(c)'

AfterRls == {"limit_enforcement", "join_checks", "partition_filters",
             "cost_estimation", "estimate", "finalize", "done"}
AfterLimit == AfterRls \ {"limit_enforcement"}
AfterColumns == AfterRls \cup {"row_level_security"}

Limited(limit) ==
  /\ limit.kind = "absent" => policy.default_limit = 0
  /\ limit.kind = "literal" /\ policy.max_limit # 0 => limit.n <= policy.max_limit

\* No expanded star over restricted columns is in the tree.
Starless(c) == tree[c].star \in {"none", "left", "dropped"} \/ ~policy.expand_star

Guarded(c) ==
  \/ HasErrors(c)
  \/ /\ pc[c] \in {"type_checks", "column_policy"} =>
            tree[c].star # "raw" \/ ~policy.expand_star
     /\ pc[c] \in {"type_checks", "column_policy"} \cup AfterColumns => tree[c].qualified
     /\ pc[c] \in AfterColumns => Starless(c)
     /\ pc[c] \in AfterRls => tree[c].rls # "unfiltered"
     /\ pc[c] \in AfterLimit => Limited(tree[c].limit)

LEMMA EnforceLimitLimits ==
  ASSUME NEW limit \in WrittenLimits, policy \in Policies
  PROVE  Limited(EnforceLimit(limit, policy))
<1>1. policy.default_limit \in Nat /\ policy.max_limit \in Nat /\ ConsistentLimits(policy)
  BY PoliciesAssumption DEF PolicyType
<1>2. CASE limit \in [kind : {"literal"}, n : Literals]
  <2>1. limit.kind = "literal" /\ limit.n \in Nat
    BY <1>2, LiteralsAssumption
  <2>2. CASE policy.max_limit # 0 /\ limit.n > policy.max_limit
    BY <1>1, <2>1, <2>2 DEF EnforceLimit, Limited
  <2>3. CASE ~(policy.max_limit # 0 /\ limit.n > policy.max_limit)
    <3>1. EnforceLimit(limit, policy) = limit
      BY <2>1, <2>3 DEF EnforceLimit
    <3> QED BY <1>1, <2>1, <2>3, <3>1 DEF Limited
  <2> QED BY <2>2, <2>3
<1>3. CASE limit \in {NoLimit, [kind |-> "expression", n |-> 0]}
  BY <1>1, <1>3 DEF EnforceLimit, Limited, NoLimit, ConsistentLimits
<1> QED BY <1>2, <1>3 DEF WrittenLimits

LEMMA GuardedStep ==
  ASSUME TypeOK, NEW c \in Calls, Phase(c), Guarded(c), Submit(c) \/ Advance(c) \/ Fail(c)
  PROVE  Guarded(c)'
<1> USE GotoEffect DEF At
<1>grow. ASSUME HasErrors(c), violations[c] \subseteq violations'[c] PROVE Guarded(c)'
  BY <1>grow DEF Guarded, HasErrors
<1>report. \A found : Report(c, found) => violations[c] \subseteq violations'[c]
  BY ReportEffect
<1>early. ASSUME pc'[c] \notin AfterColumns \cup {"type_checks", "column_policy"}
          PROVE  Guarded(c)'
  BY <1>early DEF Guarded, AfterColumns, AfterLimit
<1>semantic. ASSUME NEW v \in Err({"SEMANTIC_ERROR"}), Report(c, {v}) PROVE Guarded(c)'
  <2>1. v.is_error /\ v \in violations'[c]
    <3>1. violations'[c] = violations[c] \cup {v}
      BY <1>semantic, ReportEffect
    <3>2. v.is_error
      BY <1>semantic DEF Err
    <3> QED BY <3>1, <3>2
  <2>2. HasErrors(c)'
    BY <2>1 DEF HasErrors
  <2> QED BY <2>2 DEF Guarded
\* A step between two late checks that leaves the tree as it is.
<1>pass. ASSUME violations[c] \subseteq violations'[c], tree' = tree, policy' = policy,
                \/ pc[c] = "type_checks" /\ pc'[c] = "column_policy"
                \/ pc[c] \in AfterLimit /\ pc'[c] \in AfterLimit
         PROVE  Guarded(c)'
  <2>1. CASE HasErrors(c)
    BY <2>1, <1>pass, <1>grow
  <2>2. CASE ~HasErrors(c)
    BY <2>2, <1>pass DEF Guarded, Starless, AfterColumns, AfterLimit, AfterRls, Limited
  <2> QED BY <2>1, <2>2
<1>1. CASE Submit(c) \/ FunctionPolicy(c) \/ Qualification(c) \/ PublishSchema(c)
  BY <1>1, <1>early DEF Submit, FunctionPolicy, Qualification, PublishSchema,
                        AfterColumns, AfterRls
<1>2. CASE AddTable(c)
  <2>1. pc'[c] = "build_schema"
    BY <1>2 DEF AddTable
  <2> QED BY <2>1, <1>early DEF AfterColumns, AfterRls
<1>3. CASE Parse(c) \/ StatementGate(c)
  <2>1. Phase(c)'
    BY PhaseStep
  <2>2. pc'[c] \in {"statement_gate", "function_policy", "finalize"} /\ tree' = tree
    BY <1>3 DEF Parse, StatementGate, AfterGate
  <2>3. CASE pc'[c] = "finalize"
    <3>1. ~tree[c].root
      BY <1>3 DEF Parse, StatementGate, Phase, Early, Untried
    <3>2. HasErrors(c)'
      BY <2>1, <2>2, <2>3, <3>1 DEF Phase, HasHardStop, HasErrors
    <3> QED BY <3>2 DEF Guarded
  <2> QED BY <2>2, <2>3, <1>early DEF AfterColumns, AfterRls
<1>4. CASE NameBinding(c)
  <2>1. PICK found \in Found("name_binding") :
          /\ Report(c, found)
          /\ IF \E v \in found : v.is_error
               THEN Goto(c, "column_policy") ELSE Goto(c, "qualification")
    BY <1>4 DEF NameBinding
  <2>2. CASE \E v \in found : v.is_error
    BY <2>1, <2>2, ReportEffect DEF Guarded, HasErrors
  <2>3. CASE ~\E v \in found : v.is_error
    BY <2>1, <2>3, <1>early DEF AfterColumns, AfterRls
  <2> QED BY <2>2, <2>3
<1>5. CASE Qualify(c)
  <2>1. pc'[c] \in {"type_checks", "column_policy"} /\ policy' = policy
    BY <1>5 DEF Qualify, AfterQualify
  <2>2. CASE violations' = violations
    <3>1. (\E star \in Expansions(tree[c].star) :
             tree' = [tree EXCEPT ![c].qualified = TRUE, ![c].star = star])
          \/ \E v \in Err({"SEMANTIC_ERROR"}) : Report(c, {v})
      BY <1>5 DEF Qualify
    <3>2. CASE \E v \in Err({"SEMANTIC_ERROR"}) : Report(c, {v})
      BY <3>2, <1>semantic
    <3>3. CASE \E star \in Expansions(tree[c].star) :
                 tree' = [tree EXCEPT ![c].qualified = TRUE, ![c].star = star]
      <4>1. tree'[c].qualified /\ tree'[c].star \in Expansions(tree[c].star)
        BY <3>3 DEF TypeOK, TreeType
      <4>2. tree'[c].star # "raw" \/ ~policy.expand_star
        BY <4>1 DEF Expansions
      <4> QED BY <2>1, <4>1, <4>2 DEF Guarded, AfterColumns, AfterRls, AfterLimit
    <3> QED BY <3>1, <3>2, <3>3
  <2>3. CASE \E v \in Err({"SEMANTIC_ERROR"}) : Report(c, {v})
    BY <2>3, <1>semantic
  <2> QED BY <1>5, <2>2, <2>3 DEF Qualify
<1>6. CASE TypeChecks(c)
  BY <1>6, <1>pass, <1>report DEF TypeChecks
<1>7. CASE ColumnPolicy(c)
  <2>1. PICK found \in Found("column_policy") :
          /\ Report(c, found)
          /\ tree' = [tree EXCEPT ![c].star =
                        IF @ = "expanded" /\ ~(\E v \in found : v.code = "EMPTY_SELECT")
                        THEN "dropped" ELSE @]
    BY <1>7 DEF ColumnPolicy
  <2>2. pc[c] = "column_policy" /\ pc'[c] = "row_level_security" /\ policy' = policy
    BY <1>7 DEF ColumnPolicy
  <2>3. CASE HasErrors(c) \/ \E v \in found : v.code = "EMPTY_SELECT"
    <3>1. \A v \in found : v.is_error
      BY DEF Found, StageReports, Err
    <3>2. HasErrors(c)'
      BY <2>1, <2>3, <3>1, ReportEffect DEF HasErrors
    <3> QED BY <3>2 DEF Guarded
  <2>4. CASE ~HasErrors(c) /\ ~\E v \in found : v.code = "EMPTY_SELECT"
    <3>1. /\ tree'[c].star = IF tree[c].star = "expanded" THEN "dropped" ELSE tree[c].star
          /\ tree'[c].qualified <=> tree[c].qualified
      BY <2>1, <2>4 DEF TypeOK, TreeType
    <3>2. tree[c].star \in Stars
      BY DEF TypeOK, TreeType
    <3>3. /\ tree[c].star # "raw" \/ ~policy.expand_star
          /\ tree[c].qualified
      BY <2>2, <2>4 DEF Guarded
    <3>4. Starless(c)'
      BY <2>2, <3>1, <3>2, <3>3 DEF Starless, Stars
    <3> QED BY <2>2, <3>1, <3>3, <3>4 DEF Guarded, AfterColumns, AfterRls, AfterLimit
  <2> QED BY <2>3, <2>4
<1>8. CASE RowLevelSecurity(c)
  <2>1. PICK found \in Found("row_level_security") :
          /\ Report(c, found)
          /\ \E rls \in IF \E v \in found : v.code \in RlsCodes
                        THEN {tree[c].rls} ELSE Outcomes(tree[c].rls) :
               tree' = [tree EXCEPT ![c].rls = rls]
    BY <1>8 DEF RowLevelSecurity
  <2>2. /\ pc[c] = "row_level_security" /\ pc'[c] = "limit_enforcement"
        /\ policy' = policy
    BY <1>8 DEF RowLevelSecurity
  <2>3. CASE HasErrors(c) \/ \E v \in found : v.code \in RlsCodes
    <3>1. \A v \in found : v.code \in RlsCodes => v.is_error
      BY DEF Found, StageReports, Err, Warn, RlsCodes
    <3>2. HasErrors(c)'
      BY <2>1, <2>3, <3>1, ReportEffect DEF HasErrors
    <3> QED BY <3>2 DEF Guarded
  <2>4. CASE ~HasErrors(c) /\ ~\E v \in found : v.code \in RlsCodes
    <3>1. PICK rls \in Outcomes(tree[c].rls) : tree' = [tree EXCEPT ![c].rls = rls]
      BY <2>1, <2>4
    <3>2. /\ tree'[c].rls # "unfiltered"
          /\ tree'[c].star = tree[c].star
          /\ tree'[c].qualified <=> tree[c].qualified
      BY <3>1 DEF TypeOK, TreeType, Outcomes
    <3>3. Starless(c) /\ tree[c].qualified
      BY <2>2, <2>4 DEF Guarded, AfterColumns
    <3>4. Starless(c)'
      BY <2>2, <3>2, <3>3 DEF Starless
    <3> QED BY <2>2, <3>2, <3>3, <3>4 DEF Guarded, AfterColumns, AfterRls, AfterLimit
  <2> QED BY <2>3, <2>4
<1>9. CASE LimitEnforcement(c)
  <2>1. PICK written \in WrittenLimits :
          tree' = [tree EXCEPT ![c].limit = EnforceLimit(written, policy)]
    BY <1>9 DEF LimitEnforcement
  <2>2. /\ pc[c] = "limit_enforcement" /\ pc'[c] = "join_checks"
        /\ policy' = policy /\ violations' = violations
    BY <1>9 DEF LimitEnforcement
  <2>3. CASE HasErrors(c)
    BY <2>2, <2>3, <1>grow
  <2>4. CASE ~HasErrors(c)
    <3>1. /\ tree'[c].limit = EnforceLimit(written, policy)
          /\ tree'[c].star = tree[c].star /\ tree'[c].rls = tree[c].rls
          /\ tree'[c].qualified <=> tree[c].qualified
      BY <2>1 DEF TypeOK, TreeType
    <3>2. Limited(EnforceLimit(written, policy))
      BY EnforceLimitLimits DEF TypeOK
    <3>3. Limited(tree[c].limit)'
      BY <2>2, <3>1, <3>2 DEF Limited
    <3>4. Starless(c) /\ tree[c].qualified /\ tree[c].rls # "unfiltered"
      BY <2>2, <2>4 DEF Guarded, AfterColumns, AfterRls
    <3>5. Starless(c)'
      BY <2>2, <3>1, <3>4 DEF Starless
    <3> QED BY <2>2, <3>1, <3>3, <3>4, <3>5 DEF Guarded, AfterColumns, AfterRls, AfterLimit
  <2> QED BY <2>3, <2>4
<1>10. CASE JoinChecks(c) \/ PartitionFilters(c) \/ CostEstimation(c)
  <2>1. violations[c] \subseteq violations'[c]
    BY <1>10, <1>report DEF JoinChecks, PartitionFilters, CostEstimation
  <2> QED BY <1>10, <2>1, <1>pass DEF JoinChecks, PartitionFilters, CostEstimation,
                                      AfterLimit, AfterRls
<1>11. CASE RunEstimator(c)
  <2>1. violations[c] \subseteq violations'[c] /\ pc'[c] = "estimate" /\ pc[c] = "estimate"
    BY <1>11, <1>report DEF RunEstimator
  <2> QED BY <1>11, <2>1, <1>pass DEF RunEstimator, AfterLimit, AfterRls
<1>12. CASE EndEstimation(c)
  BY <1>12, <1>pass DEF EndEstimation, callVars, AfterLimit, AfterRls
<1>13. CASE Render(c) \/ Refuse(c)
  <2>1. violations[c] \subseteq violations'[c]
    BY <1>13, <1>report DEF Render, Refuse
  <2> QED BY <1>13, <2>1, <1>pass DEF Render, Refuse, AfterLimit, AfterRls
<1>14. CASE Fail(c)
  BY <1>14 DEF Fail, TypeOK, InternalError, Guarded, HasErrors
<1> QED BY <1>1, <1>2, <1>3, <1>4, <1>5, <1>6, <1>7, <1>8, <1>9, <1>10, <1>11, <1>12,
           <1>13, <1>14 DEF Advance

LEMMA GuardedInvariant == Spec => [](\A c \in Calls : Guarded(c))
<1>1. Init => \A c \in Calls : Guarded(c)
  BY DEF Init, Guarded, AfterColumns, AfterRls, AfterLimit
<1>2. ASSUME TypeOK, \A c \in Calls : Phase(c), [Next]_vars, \A c \in Calls : Guarded(c)
      PROVE  (\A c \in Calls : Guarded(c))'
  <2>1. CASE UNCHANGED vars
    BY <1>2, <2>1 DEF vars, Guarded, Starless, HasErrors, Limited
  <2>2. ASSUME NEW c \in Calls, Submit(c) \/ Advance(c) \/ Fail(c), NEW d \in Calls
        PROVE  Guarded(d)'
    <3>1. CASE d = c
      BY <1>2, <2>2, <3>1, GuardedStep
    <3>2. CASE d # c
      BY <1>2, <2>2, <3>2, Untouched DEF SameState, Guarded, Starless, HasErrors, Limited
    <3> QED BY <3>1, <3>2
  <2> QED BY <1>2, <2>1, <2>2 DEF Next
<1> QED BY <1>1, <1>2, TypeCorrect, PhaseInvariant, PTL DEF Spec

\* A tree that is asked about after the rewrites is qualified and protected.
LEMMA GuardedProtects ==
  ASSUME NEW c \in Calls, Guarded(c), ~HasErrors(c), pc[c] \in {"estimate", "done"}
  PROVE  tree[c].qualified /\ Protected(c)
BY DEF Guarded, Starless, Protected, AfterColumns, AfterRls, AfterLimit, Limited

\* Under every policy, SQL that is returned without would_block went through the
\* three rewrites without a gap: each stage that leaves one has left an error.
THEOREM ProtectedAlways == Spec => []ExecutableIsProtected
<1>1. (\A c \in Calls : Phase(c)) /\ (\A c \in Calls : Guarded(c)) => ExecutableIsProtected
  BY GuardedProtects DEF Phase, Audited, ExecutableIsProtected, Done
<1> QED BY <1>1, PhaseInvariant, GuardedInvariant, PTL

\* Only RunEstimator asks an estimator, of a tree that MayEstimate looked at.
LEMMA AsksEstimator ==
  ASSUME NEW c \in Calls, Submit(c) \/ Advance(c) \/ Fail(c)
  PROVE  estimated' = estimated \/ RunEstimator(c)
BY DEF Advance, Submit, Parse, StatementGate, FunctionPolicy, NameBinding, Qualification,
       AddTable, PublishSchema, Qualify, TypeChecks, ColumnPolicy, RowLevelSecurity,
       LimitEnforcement, JoinChecks, PartitionFilters, CostEstimation, EndEstimation,
       Render, Refuse, Fail, callVars

LEMMA ExplainStep ==
  ASSUME TypeOK, \A c \in Calls : Guarded(c), [Next]_vars,
         NEW d \in Calls, estimated[d] > 0, estimated'[d] > estimated[d]
  PROVE  ~HasErrors(d) /\ tree[d].qualified /\ Protected(d)
<1>1. estimated[d] \in Nat
  BY EstimatorsAssumption DEF TypeOK
<1>2. estimated' # estimated
  BY <1>1
<1>3. PICK c \in Calls : Submit(c) \/ Advance(c) \/ Fail(c)
  BY <1>2 DEF Next, vars
<1>4. c = d
  BY <1>1, <1>3, Untouched DEF SameState
<1>5. RunEstimator(d)
  BY <1>2, <1>3, <1>4, AsksEstimator
<1>6. pc[d] = "estimate" /\ ~HasErrors(d)
  BY <1>5 DEF RunEstimator, At, MayEstimate
<1> QED BY <1>6, GuardedProtects

\* However many estimators a guard has, those after the first are asked only
\* about statements without errors, qualified and rewritten, in shadow mode too.
THEOREM ExplainAlways == Spec => ExplainGetsRunnableSql
<1>1. TypeOK /\ (\A c \in Calls : Guarded(c)) /\ [Next]_vars =>
        [\A c \in Calls : estimated[c] > 0 /\ estimated'[c] > estimated[c] =>
           ~HasErrors(c) /\ tree[c].qualified /\ Protected(c)]_vars
  BY ExplainStep
<1> QED BY <1>1, TypeCorrect, GuardedInvariant, PTL DEF Spec, ExplainGetsRunnableSql

-----------------------------------------------------------------------------
(* Accounting: the checks a call has yet to reach are listed nowhere.       *)

Ahead(s) ==
  IF s \in {"idle", "parse", "statement_gate"} THEN AllChecks
  ELSE IF s = "function_policy" THEN AllChecks \ {"statement_gate"}
  ELSE IF s = "name_binding" THEN AllChecks \ {"statement_gate", "function_policy"}
  ELSE IF s = "qualification"
    THEN AllChecks \ {"statement_gate", "function_policy", "name_binding"}
  ELSE IF s \in {"build_schema", "qualify", "type_checks"}
    THEN {"type_checks", "column_policy", "row_level_security", "limit_enforcement",
          "join_checks", "partition_filters", "cost_estimation", "output_audit"}
  ELSE IF s = "column_policy"
    THEN {"column_policy", "row_level_security", "limit_enforcement", "join_checks",
          "partition_filters", "cost_estimation", "output_audit"}
  ELSE IF s = "row_level_security"
    THEN {"row_level_security", "limit_enforcement", "join_checks", "partition_filters",
          "cost_estimation", "output_audit"}
  ELSE IF s = "limit_enforcement"
    THEN {"limit_enforcement", "join_checks", "partition_filters", "cost_estimation",
          "output_audit"}
  ELSE IF s = "join_checks"
    THEN {"join_checks", "partition_filters", "cost_estimation", "output_audit"}
  ELSE IF s = "partition_filters"
    THEN {"partition_filters", "cost_estimation", "output_audit"}
  ELSE IF s = "cost_estimation" THEN {"cost_estimation", "output_audit"}
  ELSE IF s \in {"estimate", "finalize"} THEN {"output_audit"}
  ELSE {}

Named(c, k) == run[c][k] + skipped[c][k]

Counted(c) ==
  IF pc[c] = "done"
    THEN \/ \A k \in AllChecks : Named(c, k) = 1
         \/ violations[c] = {InternalError} /\ \A k \in Checks : Named(c, k) = 0
    ELSE /\ \A k \in Ahead(pc[c]) : Named(c, k) = 0
         /\ \A k \in AllChecks : Named(c, k) <= 1

LEMMA AheadChecks == \A s : Ahead(s) \subseteq AllChecks
BY DEF Ahead, AllChecks

LEMMA TallyAt ==
  ASSUME TypeOK, NEW c \in Calls, NEW ks
  PROVE  /\ run' = Tally(run, c, ks) => \A k \in Checks :
              run'[c][k] = IF k \in ks THEN run[c][k] + 1 ELSE run[c][k]
         /\ skipped' = Tally(skipped, c, ks) => \A k \in Checks :
              skipped'[c][k] = IF k \in ks THEN skipped[c][k] + 1 ELSE skipped[c][k]
         /\ \A k \in Checks : run[c][k] \in Nat /\ skipped[c][k] \in Nat
BY DEF TypeOK, Tally

\* A step that lists checks it had not reached, and moves past them.
LEMMA CountStep ==
  ASSUME TypeOK, NEW c \in Calls, Counted(c), pc[c] # "done",
         NEW s, pc'[c] = s, s # "done",
         NEW ran, NEW left,
         run' = Tally(run, c, ran), skipped' = Tally(skipped, c, left),
         ran \cap left = {},
         (ran \cup left) \cap AllChecks \subseteq Ahead(pc[c]),
         Ahead(s) \subseteq Ahead(pc[c]) \ (ran \cup left)
  PROVE  Counted(c)'
<1>1. \A k \in AllChecks :
        /\ Named(c, k)' = IF k \in ran \cup left THEN Named(c, k) + 1 ELSE Named(c, k)
        /\ Named(c, k) \in Nat
  BY TallyAt DEF Named, Checks
<1>2. \A k \in Ahead(pc[c]) : Named(c, k) = 0
  BY DEF Counted
<1>3. \A k \in AllChecks : Named(c, k)' <= 1
  BY <1>1, <1>2 DEF Counted
<1>4. \A k \in Ahead(s) : Named(c, k)' = 0
  BY <1>1, <1>2, AheadChecks
<1> QED BY <1>3, <1>4 DEF Counted

LEMMA TallyNothing ==
  ASSUME TypeOK, NEW c \in Calls
  PROVE  Tally(run, c, {}) = run /\ Tally(skipped, c, {}) = skipped
BY DEF TypeOK, Tally

LEMMA CountedStep ==
  ASSUME TypeOK, NEW c \in Calls, Counted(c), Submit(c) \/ Advance(c) \/ Fail(c)
  PROVE  Counted(c)'
<1> USE GotoEffect, TallyNothing DEF At, Runs, Skips
<1>1. CASE Submit(c)
  <2>1. pc[c] = "idle" /\ pc'[c] = "parse" /\ run' = run /\ skipped' = skipped
    BY <1>1 DEF Submit, callVars
  <2> QED BY <2>1, CountStep DEF Ahead
<1>2. CASE Parse(c)
  <2>1. /\ pc[c] = "parse" /\ pc'[c] \in {"statement_gate", "finalize"}
        /\ run' = Tally(run, c, {"parse"}) /\ skipped' = skipped
    BY <1>2 DEF Parse
  <2> QED BY <2>1, CountStep DEF Ahead, AllChecks
<1>3. CASE StatementGate(c)
  <2>1. /\ pc[c] = "statement_gate" /\ pc'[c] \in {"function_policy", "finalize"}
        /\ run' = Tally(run, c, {"statement_gate"}) /\ skipped' = skipped
    BY <1>3 DEF StatementGate, AfterGate
  <2> QED BY <2>1, CountStep DEF Ahead, AllChecks
<1>4. CASE FunctionPolicy(c)
  <2>1. /\ pc[c] = "function_policy" /\ pc'[c] = "name_binding"
        /\ run' = Tally(run, c, {"function_policy"}) /\ skipped' = skipped
    BY <1>4 DEF FunctionPolicy
  <2> QED BY <2>1, CountStep DEF Ahead, AllChecks
<1>5. CASE NameBinding(c)
  <2>1. /\ pc[c] = "name_binding"
        /\ run' = Tally(run, c, {"name_binding"})
        /\ \/ /\ pc'[c] = "column_policy"
              /\ skipped' = Tally(skipped, c, {"qualification", "type_checks"})
           \/ pc'[c] = "qualification" /\ skipped' = skipped
    BY <1>5 DEF NameBinding
  <2>2. CASE pc'[c] = "qualification" /\ skipped' = skipped
    BY <2>1, <2>2, CountStep DEF Ahead, AllChecks
  <2>3. CASE pc'[c] = "column_policy"
               /\ skipped' = Tally(skipped, c, {"qualification", "type_checks"})
    BY <2>1, <2>3, CountStep DEF Ahead, AllChecks
  <2> QED BY <2>1, <2>2, <2>3
<1>6. CASE Qualification(c)
  <2>1. /\ pc[c] = "qualification" /\ pc'[c] \in {"build_schema", "qualify"}
        /\ run' = Tally(run, c, {"qualification"}) /\ skipped' = skipped
    BY <1>6 DEF Qualification
  <2> QED BY <2>1, CountStep DEF Ahead, AllChecks
<1>7. CASE AddTable(c) \/ PublishSchema(c)
  <2>1. /\ pc[c] = "build_schema" /\ pc'[c] \in {"build_schema", "qualify"}
        /\ run' = run /\ skipped' = skipped
    BY <1>7 DEF AddTable, PublishSchema, callVars
  <2> QED BY <2>1, CountStep DEF Ahead
<1>8. CASE Qualify(c)
  <2>1. /\ pc[c] = "qualify" /\ run' = run
        /\ \/ pc'[c] \in {"type_checks", "column_policy"} /\ skipped' = skipped
           \/ pc'[c] = "column_policy" /\ skipped' = Tally(skipped, c, {"type_checks"})
    BY <1>8 DEF Qualify, AfterQualify
  <2>2. CASE pc'[c] \in {"type_checks", "column_policy"} /\ skipped' = skipped
    BY <2>1, <2>2, CountStep DEF Ahead
  <2>3. CASE pc'[c] = "column_policy" /\ skipped' = Tally(skipped, c, {"type_checks"})
    BY <2>1, <2>3, CountStep DEF Ahead
  <2> QED BY <2>1, <2>2, <2>3
<1>9. CASE TypeChecks(c)
  <2>1. /\ pc[c] = "type_checks" /\ pc'[c] = "column_policy"
        /\ run' = Tally(run, c, {"type_checks"}) /\ skipped' = skipped
    BY <1>9 DEF TypeChecks
  <2> QED BY <2>1, CountStep DEF Ahead
<1>10. CASE ColumnPolicy(c)
  <2>1. /\ pc[c] = "column_policy" /\ pc'[c] = "row_level_security"
        /\ run' = Tally(run, c, {"column_policy"}) /\ skipped' = skipped
    BY <1>10 DEF ColumnPolicy
  <2> QED BY <2>1, CountStep DEF Ahead
<1>11. CASE RowLevelSecurity(c)
  <2>1. /\ pc[c] = "row_level_security" /\ pc'[c] = "limit_enforcement"
        /\ run' = Tally(run, c, {"row_level_security"}) /\ skipped' = skipped
    BY <1>11 DEF RowLevelSecurity
  <2> QED BY <2>1, CountStep DEF Ahead
<1>12. CASE LimitEnforcement(c)
  <2>1. /\ pc[c] = "limit_enforcement" /\ pc'[c] = "join_checks"
        /\ run' = Tally(run, c, {"limit_enforcement"}) /\ skipped' = skipped
    BY <1>12 DEF LimitEnforcement
  <2> QED BY <2>1, CountStep DEF Ahead
<1>13. CASE JoinChecks(c)
  <2>1. /\ pc[c] = "join_checks" /\ pc'[c] = "partition_filters"
        /\ \/ run' = Tally(run, c, {"join_checks"}) /\ skipped' = skipped
           \/ skipped' = Tally(skipped, c, {"join_checks"}) /\ run' = run
    BY <1>13 DEF JoinChecks
  <2>2. CASE run' = Tally(run, c, {"join_checks"}) /\ skipped' = skipped
    BY <2>1, <2>2, CountStep DEF Ahead
  <2>3. CASE skipped' = Tally(skipped, c, {"join_checks"}) /\ run' = run
    BY <2>1, <2>3, CountStep DEF Ahead
  <2> QED BY <2>1, <2>2, <2>3
<1>14. CASE PartitionFilters(c)
  <2>1. /\ pc[c] = "partition_filters" /\ pc'[c] = "cost_estimation"
        /\ run' = Tally(run, c, {"partition_filters"}) /\ skipped' = skipped
    BY <1>14 DEF PartitionFilters
  <2> QED BY <2>1, CountStep DEF Ahead
<1>15. CASE CostEstimation(c)
  <2>1. /\ pc[c] = "cost_estimation" /\ pc'[c] = "estimate"
        /\ run' = Tally(run, c, {"cost_estimation"}) /\ skipped' = skipped
    BY <1>15 DEF CostEstimation
  <2> QED BY <2>1, CountStep DEF Ahead
<1>16. CASE RunEstimator(c) \/ EndEstimation(c)
  <2>1. /\ pc[c] = "estimate" /\ pc'[c] \in {"estimate", "finalize"}
        /\ run' = run /\ skipped' = skipped
    BY <1>16 DEF RunEstimator, EndEstimation, callVars
  <2> QED BY <2>1, CountStep DEF Ahead
<1>17. CASE Render(c) \/ Refuse(c)
  <2>1. PICK ran \in {{}, {"output_audit"}} :
          /\ run' = Tally(run, c, ran)
          /\ skipped' = Tally(skipped, c, Leftover(c, ran))
          /\ pc[c] = "finalize" /\ pc'[c] = "done"
    BY <1>17 DEF Render, Refuse
  <2>2. \A k \in AllChecks :
          /\ run[c][k] \in Nat /\ skipped[c][k] \in Nat
          /\ run'[c][k] = IF k \in ran THEN run[c][k] + 1 ELSE run[c][k]
          /\ skipped'[c][k] = IF k \in Leftover(c, ran) THEN skipped[c][k] + 1
                              ELSE skipped[c][k]
    BY <2>1, TallyAt DEF Checks
  <2>3. \A k \in AllChecks : run[c][k] + skipped[c][k] <= 1
    BY <2>1 DEF Counted, Named
  <2>4. run[c]["output_audit"] + skipped[c]["output_audit"] = 0
    BY <2>1 DEF Counted, Named, Ahead
  <2>5. \A k \in AllChecks : run'[c][k] + skipped'[c][k] = 1
    <3> TAKE k \in AllChecks
    <3>1. CASE k \in ran
      <4>1. k = "output_audit" /\ k \notin Leftover(c, ran)
        BY <2>1, <3>1 DEF Leftover
      <4>2. run[c][k] = 0 /\ skipped[c][k] = 0
        BY <2>2, <2>4, <4>1
      <4> QED BY <2>2, <3>1, <4>1, <4>2
    <3>2. CASE k \notin ran /\ run[c][k] + skipped[c][k] = 0
      BY <2>2, <3>2 DEF Leftover
    <3>3. CASE k \notin ran /\ run[c][k] + skipped[c][k] = 1
      BY <2>2, <3>3 DEF Leftover
    <3> QED BY <2>2, <2>3, <3>1, <3>2, <3>3
  <2> QED BY <2>1, <2>5 DEF Counted, Named
<1>18. CASE Fail(c)
  <2>1. /\ pc'[c] = "done" /\ violations'[c] = {InternalError}
        /\ \A k \in Checks : run'[c][k] = 0 /\ skipped'[c][k] = 0
    BY <1>18 DEF Fail, TypeOK
  <2> QED BY <2>1 DEF Counted, Named
<1> QED BY <1>1, <1>2, <1>3, <1>4, <1>5, <1>6, <1>7, <1>8, <1>9, <1>10, <1>11, <1>12,
           <1>13, <1>14, <1>15, <1>16, <1>17, <1>18 DEF Advance

\* Every result that is not an unexpected exception's accounts for each of the
\* twelve checks exactly once.
THEOREM AccountedAlways == Spec => []ChecksAccountedOnce
<1>1. Init => \A c \in Calls : Counted(c)
  BY AheadChecks DEF Init, Counted, Named, Checks
<1>2. ASSUME TypeOK, [Next]_vars, \A c \in Calls : Counted(c)
      PROVE  (\A c \in Calls : Counted(c))'
  <2>1. CASE UNCHANGED vars
    BY <1>2, <2>1 DEF vars, Counted, Named
  <2>2. ASSUME NEW c \in Calls, Submit(c) \/ Advance(c) \/ Fail(c), NEW d \in Calls
        PROVE  Counted(d)'
    <3>1. CASE d = c
      BY <1>2, <2>2, <3>1, CountedStep
    <3>2. CASE d # c
      BY <1>2, <2>2, <3>2, Untouched DEF SameState, Counted, Named
    <3> QED BY <3>1, <3>2
  <2> QED BY <1>2, <2>1, <2>2 DEF Next
<1>3. (\A c \in Calls : Counted(c)) => ChecksAccountedOnce
  BY DEF Counted, Named, ChecksAccountedOnce, Done
<1> QED BY <1>1, <1>2, <1>3, TypeCorrect, PTL DEF Spec

-----------------------------------------------------------------------------
(* The pipeline implements the contract: the first call's step is the       *)
(* contract's, and to every other call's caller nothing happens.            *)

Statuses == [d \in Calls |-> StatusSeen(d)]
Worsts == [d \in Calls |-> WorstFound(d)]

\* Errors are never taken back.
LEMMA WorseFound ==
  ASSUME NEW c \in Calls, violations[c] \subseteq violations'[c]
  PROVE  WorstFound(c)' >= WorstFound(c)
BY DEF WorstFound, HasErrors, HasHardStop

\* What the other callers see is unchanged.
LEMMA OthersSee ==
  ASSUME TypeOK, NEW c \in Calls, Submit(c) \/ Advance(c) \/ Fail(c)
  PROVE  /\ Statuses' = [Statuses EXCEPT ![c] = StatusSeen(c)']
         /\ Worsts' = [Worsts EXCEPT ![c] = WorstFound(c)']
<1>1. \A d \in Calls \ {c} : SameState(d)
  BY Untouched
<1>2. \A d \in Calls \ {c} : StatusSeen(d)' = StatusSeen(d) /\ WorstFound(d)' = WorstFound(d)
  BY <1>1 DEF SameState, StatusSeen, Done, WorstFound, HasErrors, HasHardStop
<1>3. Statuses' = [d \in Calls |-> StatusSeen(d)']
  BY DEF Statuses
<1>4. Worsts' = [d \in Calls |-> WorstFound(d)']
  BY DEF Worsts
<1>5. [d \in Calls |-> StatusSeen(d)'] = [Statuses EXCEPT ![c] = StatusSeen(c)']
  BY <1>2 DEF Statuses
<1>6. [d \in Calls |-> WorstFound(d)'] = [Worsts EXCEPT ![c] = WorstFound(c)']
  BY <1>2 DEF Worsts
<1> QED BY <1>3, <1>4, <1>5, <1>6

LEMMA SamePolicy ==
  ASSUME NEW c \in Calls, Submit(c) \/ Advance(c) \/ Fail(c)
  PROVE  policy' = policy
BY DEF Advance, Submit, Parse, StatementGate, FunctionPolicy, NameBinding, Qualification,
       AddTable, PublishSchema, Qualify, TypeChecks, ColumnPolicy, RowLevelSecurity,
       LimitEnforcement, JoinChecks, PartitionFilters, CostEstimation, RunEstimator,
       EndEstimation, Render, Refuse, Fail

\* A check that does not end the call.
LEMMA DiscoverStep ==
  ASSUME TypeOK, NEW c \in Calls, Advance(c),
         pc[c] \notin {"idle", "done"}, pc'[c] \notin {"idle", "done"},
         violations[c] \subseteq violations'[c]
  PROVE  Contract!Discover(c)
<1>1. Statuses[c] = "pending" /\ StatusSeen(c)' = "pending" /\ Worsts[c] = WorstFound(c)
  BY DEF Statuses, Worsts, StatusSeen, Done
<1>2. Statuses' = Statuses
  BY <1>1, OthersSee DEF Statuses
<1>3. Worsts' = [Worsts EXCEPT ![c] = WorstFound(c)']
  BY OthersSee
<1>4. WorstFound(c)' \in Contract!Classes /\ WorstFound(c)' >= Worsts[c]
  BY <1>1, WorseFound
     DEF WorstFound, Contract!Classes, Contract!Clean, Contract!Blockable, Contract!HardStop
<1> QED BY <1>1, <1>2, <1>3, <1>4, SamePolicy DEF Contract!Discover, Statuses, Worsts

\* A step that ends the call.
LEMMA DecideStep ==
  ASSUME TypeOK, NEW c \in Calls, Advance(c) \/ Fail(c),
         pc[c] \notin {"idle", "done"},
         WorstFound(c)' >= WorstFound(c),
         StatusSeen(c)' = Contract!Verdict(policy.enforcement, WorstFound(c)')
  PROVE  Contract!Decide(c)
<1>1. Statuses[c] = "pending" /\ Worsts[c] = WorstFound(c)
  BY DEF Statuses, Worsts, StatusSeen, Done
<1>2. /\ Statuses' = [Statuses EXCEPT ![c] = StatusSeen(c)']
      /\ Worsts' = [Worsts EXCEPT ![c] = WorstFound(c)']
  BY OthersSee
<1>3. WorstFound(c)' \in Contract!Classes
  BY DEF WorstFound, Contract!Classes, Contract!Clean, Contract!Blockable, Contract!HardStop
<1> QED BY <1>1, <1>2, <1>3, SamePolicy DEF Contract!Decide, Statuses, Worsts

LEMMA ContractStep ==
  ASSUME TypeOK, NEW c \in Calls, Phase(c), Submit(c) \/ Advance(c) \/ Fail(c)
  PROVE  Contract!Submit(c) \/ Contract!Discover(c) \/ Contract!Decide(c)
<1> USE DEF At
<1>1. CASE Submit(c)
  <2>1. pc[c] = "idle" /\ pc'[c] = "parse" /\ violations' = violations
    BY <1>1, GotoEffect DEF Submit, callVars
  <2>2. Statuses[c] = "idle" /\ StatusSeen(c)' = "pending" /\ WorstFound(c)' = Worsts[c]
    BY <2>1 DEF Statuses, Worsts, StatusSeen, Done, WorstFound, HasErrors, HasHardStop
  <2>3. Statuses' = [Statuses EXCEPT ![c] = "pending"]
    BY <2>2, OthersSee
  <2>4. Worsts' = Worsts
    BY <2>2, OthersSee DEF Worsts
  <2> QED BY <2>2, <2>3, <2>4, SamePolicy DEF Contract!Submit, Statuses, Worsts
<1>2. CASE Advance(c) /\ ~Render(c) /\ ~Refuse(c)
  <2>1. /\ pc[c] \notin {"idle", "done"} /\ pc'[c] \notin {"idle", "done"}
        /\ violations[c] \subseteq violations'[c]
    BY <1>2, GotoEffect, ReportEffect
       DEF Advance, Parse, StatementGate, AfterGate, FunctionPolicy, NameBinding,
           Qualification, AddTable, PublishSchema, Qualify, AfterQualify, TypeChecks,
           ColumnPolicy, RowLevelSecurity, LimitEnforcement, JoinChecks, PartitionFilters,
           CostEstimation, RunEstimator, EndEstimation, callVars
  <2> QED BY <1>2, <2>1, DiscoverStep
<1>3. CASE Render(c)
  <2>1. pc[c] = "finalize" /\ pc'[c] = "done" /\ Passes(c) /\ tree[c].root
    BY <1>3, GotoEffect DEF Render
  <2>2. ~HasHardStop(c)
    BY <2>1 DEF Phase, Untried
  <2>3. CASE /\ violations'[c] = violations[c]
             /\ result'[c] = [valid |-> TRUE, sql |-> TRUE, would_block |-> Shadowed(c)]
    <3>1. WorstFound(c)' = WorstFound(c)
      BY <2>3 DEF WorstFound, HasErrors, HasHardStop
    <3>2. StatusSeen(c)' = IF Shadowed(c) THEN "would_block" ELSE "executable"
      BY <2>1, <2>3 DEF StatusSeen, Done
    <3>3. WorstFound(c) = IF Shadowed(c) THEN 1 ELSE 0
      BY <2>1, <2>2 DEF WorstFound, Passes, Shadowed
    <3>4. StatusSeen(c)' = Contract!Verdict(policy.enforcement, WorstFound(c)')
      BY <3>1, <3>2, <3>3
         DEF Shadowed, Contract!Verdict, Contract!Clean, Contract!Blockable
    <3>5. WorstFound(c)' >= WorstFound(c)
      BY <3>1, <3>3
    <3> QED BY <1>3, <2>1, <3>4, <3>5, DecideStep DEF Advance
  <2>4. CASE violations'[c] = violations[c] \cup {InternalError} /\ result' = result
    <3>1. WorstFound(c)' = 2
      <4>1. InternalError \in violations'[c]
        BY <2>4
      <4>2. InternalError.is_error /\ InternalError.code \in HARD_STOP_CODES
        BY DEF InternalError, HARD_STOP_CODES
      <4> QED BY <4>1, <4>2 DEF WorstFound, HasHardStop
    <3>2. StatusSeen(c)' = "rejected"
      BY <2>1, <2>4 DEF StatusSeen, Done, Phase, Pending
    <3>3. StatusSeen(c)' = Contract!Verdict(policy.enforcement, WorstFound(c)')
      BY <3>1, <3>2 DEF Contract!Verdict, Contract!Clean, Contract!Blockable
    <3>4. WorstFound(c)' >= WorstFound(c)
      BY <3>1 DEF WorstFound
    <3> QED BY <1>3, <2>1, <3>3, <3>4, DecideStep DEF Advance
  <2>5. \/ /\ violations' = violations
           /\ result' = [result EXCEPT ![c] = [valid |-> TRUE, sql |-> TRUE,
                                               would_block |-> Shadowed(c)]]
        \/ Report(c, {InternalError}) /\ result' = result
    BY <1>3 DEF Render
  <2> QED BY <2>3, <2>4, <2>5, ReportEffect DEF TypeOK
<1>4. CASE Refuse(c)
  <2>1. /\ pc[c] = "finalize" /\ pc'[c] = "done" /\ violations' = violations
        /\ result'[c].valid = Passes(c) /\ ~(Passes(c) /\ tree[c].root)
    BY <1>4, GotoEffect DEF Refuse, TypeOK
  <2>2. ~Passes(c) /\ HasErrors(c)
    BY <2>1 DEF Phase, Untried, Passes, Shadowed, HasErrors, HasHardStop
  <2>3. StatusSeen(c)' = "rejected"
    BY <2>1, <2>2 DEF StatusSeen, Done
  <2>4. WorstFound(c)' = WorstFound(c)
    BY <2>1 DEF WorstFound, HasErrors, HasHardStop
  <2>5. WorstFound(c) = 2 \/ (WorstFound(c) = 1 /\ policy.enforcement # "log_only")
    BY <2>1, <2>2 DEF WorstFound, Passes, Shadowed, Phase
  <2>6. StatusSeen(c)' = Contract!Verdict(policy.enforcement, WorstFound(c)')
    BY <2>3, <2>4, <2>5 DEF Contract!Verdict, Contract!Clean, Contract!Blockable
  <2>7. WorstFound(c)' >= WorstFound(c)
    BY <2>4, <2>5
  <2> QED BY <1>4, <2>1, <2>6, <2>7, DecideStep DEF Advance
<1>5. CASE Fail(c)
  <2>1. /\ pc[c] \notin {"idle", "done"} /\ pc'[c] = "done"
        /\ violations'[c] = {InternalError} /\ result'[c] = Pending
    BY <1>5, GotoEffect DEF Fail, TypeOK
  <2>2. WorstFound(c)' = 2
    BY <2>1 DEF WorstFound, HasHardStop, InternalError, HARD_STOP_CODES
  <2>3. StatusSeen(c)' = "rejected"
    BY <2>1 DEF StatusSeen, Done, Pending
  <2>4. StatusSeen(c)' = Contract!Verdict(policy.enforcement, WorstFound(c)')
    BY <2>2, <2>3 DEF Contract!Verdict, Contract!Clean, Contract!Blockable
  <2>5. WorstFound(c)' >= WorstFound(c)
    BY <2>2 DEF WorstFound
  <2> QED BY <1>5, <2>1, <2>4, <2>5, DecideStep
<1> QED BY <1>1, <1>2, <1>3, <1>4, <1>5

\* Whatever the statements, the estimators and the interleaving: a caller sees
\* the contract and nothing else.  Findings only get worse, the verdict is
\* given once and follows from the worst finding and the mode alone.
THEOREM ContractKept == Spec => KeepsContract
<1>1. Init => Contract!Init
  BY PoliciesAssumption
     DEF Init, Contract!Init, Contract!Modes, Contract!Clean, PolicyType, StatusSeen,
         WorstFound, HasErrors, HasHardStop
<1>2. ASSUME TypeOK, \A c \in Calls : Phase(c), [Next]_vars
      PROVE  [Contract!Next]_(Contract!cvars)
  <2>1. CASE UNCHANGED vars
    <3>1. Statuses' = Statuses
      BY <2>1 DEF vars, Statuses, StatusSeen, Done
    <3>2. Worsts' = Worsts
      BY <2>1 DEF vars, Worsts, WorstFound, HasErrors, HasHardStop
    <3> QED BY <2>1, <3>1, <3>2 DEF vars, Contract!cvars, Statuses, Worsts
  <2>2. ASSUME NEW c \in Calls, Submit(c) \/ Advance(c) \/ Fail(c)
        PROVE  Contract!Next
    BY <1>2, <2>2, ContractStep DEF Contract!Next
  <2> QED BY <1>2, <2>1, <2>2 DEF Next
<1>3. Spec => [](\A c \in Calls : Phase(c))
  BY PhaseInvariant
<1> QED BY <1>1, <1>2, <1>3, TypeCorrect, PTL DEF Spec, KeepsContract, Contract!Spec
=============================================================================
