------------------------------ MODULE SQLGuard ------------------------------
(***************************************************************************)
(* The validation pipeline of sqlguard/guard.py: several calls of          *)
(* SQLGuard.validate() run at once on one guard.  A call owns its          *)
(* violations, its stats and its tree; the guard's policy, its estimators  *)
(* and the CatalogIndex with its lazily built MappingSchema are shared.    *)
(*                                                                         *)
(* A check is one action, or a few where the code branches.  What a check  *)
(* finds in the statement is a choice among the codes the check can        *)
(* report; what the checks do to the tree is kept only as far as the       *)
(* properties tell trees apart: star items over restricted columns, row    *)
(* filters, the outermost limit.                                           *)
(***************************************************************************)
EXTENDS Naturals, FiniteSets

CONSTANTS Calls,        \* the invocations of validate()
          Tables,       \* the tables of the guard's catalog
          Policies,     \* the policies a guard may have been built with
          Estimators,   \* len(self.estimators)
          Reportable,   \* the violations the statements at hand can cause
          Literals,     \* the integers a statement may write after LIMIT
          Responsive    \* the calls whose thread and estimators keep going

Codes == {"PARSE_ERROR", "MULTIPLE_STATEMENTS", "DISALLOWED_STATEMENT",
          "DISALLOWED_COMMAND", "NESTED_WRITE", "SELECT_INTO",
          "LOCKING_CLAUSE", "FORBIDDEN_FUNCTION", "UNKNOWN_TABLE",
          "UNKNOWN_TABLE_ALIAS", "UNKNOWN_COLUMN", "AMBIGUOUS_COLUMN",
          "ALIAS_MISUSE", "TYPE_MISMATCH", "SEMANTIC_ERROR", "COLUMN_DENIED",
          "EMPTY_SELECT", "RLS_PARAM_MISSING", "RLS_CONFIG_ERROR",
          "MISSING_TENANT_FILTER", "TENANT_FILTER_CONFLICT", "CARTESIAN_JOIN",
          "SUSPICIOUS_JOIN", "MISSING_PARTITION_FILTER",
          "SCAN_BUDGET_EXCEEDED", "MISSING_STATISTICS",
          "COST_ESTIMATION_FAILED", "INTERNAL_ERROR"}

Violation == [code : Codes, is_error : BOOLEAN]
Err(codes) == [code : codes, is_error : {TRUE}]
Warn(codes) == [code : codes, is_error : {FALSE}]

\* Blocked even in shadow mode.
HARD_STOP_CODES ==
  {"PARSE_ERROR", "MULTIPLE_STATEMENTS", "DISALLOWED_STATEMENT",
   "DISALLOWED_COMMAND", "NESTED_WRITE", "SELECT_INTO", "LOCKING_CLAUSE",
   "INTERNAL_ERROR"}

GateCodes == HARD_STOP_CODES \ {"PARSE_ERROR", "MULTIPLE_STATEMENTS", "INTERNAL_ERROR"}
BindingCodes == {"UNKNOWN_TABLE", "UNKNOWN_TABLE_ALIAS", "UNKNOWN_COLUMN",
                 "AMBIGUOUS_COLUMN", "ALIAS_MISUSE"}
RlsCodes == {"RLS_PARAM_MISSING", "RLS_CONFIG_ERROR", "MISSING_TENANT_FILTER"}

\* The violations each check can report, with the severities it gives them.
StageReports ==
  [statement_gate     |-> Err(GateCodes),
   function_policy    |-> Err({"FORBIDDEN_FUNCTION"}),
   name_binding       |-> Err(BindingCodes),
   type_checks        |-> Err({"TYPE_MISMATCH"}) \cup Warn({"TYPE_MISMATCH"}),
   column_policy      |-> Err({"COLUMN_DENIED", "EMPTY_SELECT"}),
   row_level_security |-> Err(RlsCodes \cup {"TENANT_FILTER_CONFLICT"})
                            \cup Warn({"TENANT_FILTER_CONFLICT"}),
   join_checks        |-> Err({"CARTESIAN_JOIN"})
                            \cup Warn({"CARTESIAN_JOIN", "SUSPICIOUS_JOIN"}),
   partition_filters  |-> Err({"MISSING_PARTITION_FILTER"}),
   cost_estimation    |-> Err({"SCAN_BUDGET_EXCEEDED", "MISSING_STATISTICS"})
                            \cup Warn({"MISSING_STATISTICS", "COST_ESTIMATION_FAILED"})]

\* The sets of violations a check may come back with.
Found(stage) == SUBSET (StageReports[stage] \cap Reportable)

\* The names of all_checks in _validate, and "parse", which is run but is not
\* one of them.
AllChecks == {"statement_gate", "function_policy", "name_binding", "qualification",
              "type_checks", "column_policy", "row_level_security",
              "limit_enforcement", "join_checks", "partition_filters",
              "cost_estimation", "output_audit"}
Checks == AllChecks \cup {"parse"}

\* Where a call can be: before a check, inside the two that take several
\* steps, at the end, or not running.
Stages == (Checks \ {"output_audit"})
            \cup {"idle", "build_schema", "qualify", "estimate", "finalize", "done"}

\* Policy limits are positive or None; 0 stands for None.
PolicyType == [enforcement : {"block", "log_only"}, check_types : BOOLEAN,
               check_joins : BOOLEAN, expand_star : BOOLEAN,
               default_limit : Nat, max_limit : Nat]

\* What Policy.__post_init__ accepts of the two limits.
ConsistentLimits(p) ==
  (p.default_limit # 0 /\ p.max_limit # 0) => p.default_limit <= p.max_limit

NoLimit == [kind |-> "absent", n |-> 0]
LimitType == [kind : {"absent", "expression", "literal"}, n : Nat]
\* The limits a statement can be written with.
WrittenLimits == [kind : {"literal"}, n : Literals]
                   \cup {NoLimit, [kind |-> "expression", n |-> 0]}

\* What has become of star items over restricted columns; "left" is one that
\* qualify() leaves as it is, over a source whose columns it does not know.
Stars == {"none", "raw", "expanded", "left", "dropped"}

\* "accepted" are governed references in whose select apply_rls found a condition
\* that it takes for the filter, and which it therefore leaves alone.
TreeType == [root : BOOLEAN,     \* finalize gets a tree, not None
             qualified : BOOLEAN,
             star : Stars,
             rls : {"ungoverned", "unfiltered", "filtered", "accepted"},
             limit : LimitType]

NoTree == [root |-> FALSE, qualified |-> FALSE, star |-> "none",
           rls |-> "ungoverned", limit |-> NoLimit]

ASSUME PoliciesAssumption ==
  Policies \subseteq PolicyType /\ \A p \in Policies : ConsistentLimits(p)
ASSUME EstimatorsAssumption == Estimators \in Nat
ASSUME LiteralsAssumption == Literals \subseteq Nat
ASSUME ResponsiveAssumption == Responsive \subseteq Calls

VARIABLES policy,       \* self.policy
          cache,        \* self.index._mapping_schema
          nested,       \* the schema a call is building, not yet published
          pc, violations, tree,
          run, skipped, \* how often stats.checks_run / checks_skipped name a check
          estimated,    \* how many estimators have been asked
          audit,        \* what the rendered SQL parsed as in the final audit
          result

callVars == <<violations, tree, run, skipped, estimated, audit, result>>
schemaVars == <<cache, nested>>
vars == <<policy, cache, nested, pc, violations, tree, run, skipped,
          estimated, audit, result>>

Pending == [valid |-> FALSE, sql |-> FALSE, would_block |-> FALSE]

Init ==
  /\ policy \in Policies
  /\ cache = [built |-> FALSE, tables |-> {}]
  /\ nested = [c \in Calls |-> {}]
  /\ pc = [c \in Calls |-> "idle"]
  /\ violations = [c \in Calls |-> {}]
  /\ tree = [c \in Calls |-> NoTree]
  /\ run = [c \in Calls |-> [k \in Checks |-> 0]]
  /\ skipped = [c \in Calls |-> [k \in Checks |-> 0]]
  /\ estimated = [c \in Calls |-> 0]
  /\ audit = [c \in Calls |-> "none"]
  /\ result = [c \in Calls |-> Pending]

HasErrors(c) == \E v \in violations[c] : v.is_error
HasHardStop(c) == \E v \in violations[c] : v.is_error /\ v.code \in HARD_STOP_CODES

At(c, stage) == pc[c] = stage
Goto(c, stage) == pc' = [pc EXCEPT ![c] = stage]
\* Mutant: the list is assigned, not extended.
ReportLast(c, found) == violations' = [violations EXCEPT ![c] = found]

Report(c, found) == violations' = [violations EXCEPT ![c] = @ \cup found]

\* run.append / skipped.extend of the checks in ks.
Tally(f, c, ks) ==
  [f EXCEPT ![c] = [k \in Checks |-> IF k \in ks THEN f[c][k] + 1 ELSE f[c][k]]]
Runs(c, ks) == run' = Tally(run, c, ks)
Skips(c, ks) == skipped' = Tally(skipped, c, ks)

Submit(c) ==
  /\ At(c, "idle")
  /\ Goto(c, "parse")
  /\ UNCHANGED <<policy, schemaVars, callVars>>

\* parse_statement: a root, or one PARSE_ERROR or MULTIPLE_STATEMENTS.
Parse(c) ==
  /\ At(c, "parse")
  /\ Runs(c, {"parse"})
  /\ \/ Goto(c, "statement_gate") /\ UNCHANGED violations
     \/ \E v \in Err({"PARSE_ERROR", "MULTIPLE_STATEMENTS"}) \cap Reportable :
          Report(c, {v}) /\ Goto(c, "finalize")
  /\ UNCHANGED <<policy, schemaVars, tree, skipped, estimated, audit, result>>

\* Mutant: the violations are recorded and the pipeline goes on.
AfterGateContinues(found) == "function_policy"

\* Where the call goes with what the gate found.
AfterGate(found) == IF found = {} THEN "function_policy" ELSE "finalize"

\* Any gate violation ends the pipeline with finalize(None).
StatementGate(c) ==
  /\ At(c, "statement_gate")
  /\ Runs(c, {"statement_gate"})
  /\ \E found \in Found("statement_gate") :
       /\ Report(c, found)
       /\ Goto(c, AfterGate(found))
  /\ UNCHANGED <<policy, schemaVars, tree, skipped, estimated, audit, result>>

FunctionPolicy(c) ==
  /\ At(c, "function_policy")
  /\ Runs(c, {"function_policy"})
  /\ \E found \in Found("function_policy") : Report(c, found)
  /\ Goto(c, "name_binding")
  /\ UNCHANGED <<policy, schemaVars, tree, skipped, estimated, audit, result>>

\* From here on the root is the tree the call works on.  Whether it has star
\* items over restricted columns and governed tables is the statement's affair.
NameBinding(c) ==
  /\ At(c, "name_binding")
  /\ Runs(c, {"name_binding"})
  /\ \E star \in {"none", "raw"}, rls \in {"ungoverned", "unfiltered"} :
       tree' = [tree EXCEPT ![c] = [root |-> TRUE, qualified |-> FALSE, star |-> star,
                                    rls |-> rls, limit |-> NoLimit]]
  /\ \E found \in Found("name_binding") :
       /\ Report(c, found)
       /\ IF \E v \in found : v.is_error
            THEN Goto(c, "column_policy") /\ Skips(c, {"qualification", "type_checks"})
            ELSE Goto(c, "qualification") /\ UNCHANGED skipped
  /\ UNCHANGED <<policy, schemaVars, estimated, audit, result>>

\* Mutant: one thread at a time builds the schema, the others wait for it.
QualificationLocked(c) ==
  /\ At(c, "qualification")
  /\ cache.built \/ \A d \in Calls : pc[d] # "build_schema"
  /\ Runs(c, {"qualification"})
  /\ IF cache.built
       THEN Goto(c, "qualify") /\ UNCHANGED nested
       ELSE Goto(c, "build_schema") /\ nested' = [nested EXCEPT ![c] = {}]
  /\ UNCHANGED <<policy, cache, violations, tree, skipped, estimated, audit, result>>

\* qualify_tree asks for the mapping schema: the cached one, or, when the call
\* sees none, one it builds itself.  No lock is held: two calls may build.
Qualification(c) ==
  /\ At(c, "qualification")
  /\ Runs(c, {"qualification"})
  /\ IF cache.built
       THEN Goto(c, "qualify") /\ UNCHANGED nested
       ELSE Goto(c, "build_schema") /\ nested' = [nested EXCEPT ![c] = {}]
  /\ UNCHANGED <<policy, cache, violations, tree, skipped, estimated, audit, result>>

\* One turn of the loop over catalog.tables; the dictionary is the call's own.
AddTable(c) ==
  /\ At(c, "build_schema")
  /\ \E t \in Tables \ nested[c] : nested' = [nested EXCEPT ![c] = @ \cup {t}]
  /\ UNCHANGED <<policy, cache, pc, callVars>>

\* Mutant: the dictionary is published while the loop still fills it.
FilledEarly(c) == nested[c] # {}

\* The loop over catalog.tables is over.
Filled(c) == nested[c] = Tables

\* self._mapping_schema is assigned once the dictionary is complete.
PublishSchema(c) ==
  /\ At(c, "build_schema")
  /\ Filled(c)
  /\ cache' = [built |-> TRUE, tables |-> nested[c]]
  /\ Goto(c, "qualify")
  /\ UNCHANGED <<policy, nested, callVars>>

\* The check after qualification: types are checked on qualified trees only.
AfterQualify(c, qualified) ==
  IF qualified /\ policy.check_types
    THEN Goto(c, "type_checks") /\ UNCHANGED skipped
    ELSE /\ Goto(c, "column_policy")
         /\ IF policy.check_types THEN UNCHANGED skipped ELSE Skips(c, {"type_checks"})

\* The policy asks for an expansion, which qualify() may not be able to do.
Expansions(star) ==
  IF star = "raw" /\ policy.expand_star THEN {"expanded", "left"} ELSE {star}

\* qualify() on a copy expands the stars; when it fails, the unqualified tree
\* is kept and a SEMANTIC_ERROR reported.
Qualify(c) ==
  /\ At(c, "qualify")
  /\ \/ /\ \E star \in Expansions(tree[c].star) :
             tree' = [tree EXCEPT ![c].qualified = TRUE, ![c].star = star]
        /\ AfterQualify(c, TRUE)
        /\ UNCHANGED violations
     \/ /\ \E v \in Err({"SEMANTIC_ERROR"}) \cap Reportable : Report(c, {v})
        /\ AfterQualify(c, FALSE)
        /\ UNCHANGED tree
  /\ UNCHANGED <<policy, schemaVars, run, estimated, audit, result>>

TypeChecks(c) ==
  /\ At(c, "type_checks")
  /\ Runs(c, {"type_checks"})
  /\ \E found \in Found("type_checks") : Report(c, found)
  /\ Goto(c, "column_policy")
  /\ UNCHANGED <<policy, schemaVars, tree, skipped, estimated, audit, result>>

\* apply_column_rules drops restricted items from expanded stars, unless none
\* would be left; a star that was never expanded has no items to drop.
ColumnPolicy(c) ==
  /\ At(c, "column_policy")
  /\ Runs(c, {"column_policy"})
  /\ \E found \in Found("column_policy") :
       LET empty == \E v \in found : v.code = "EMPTY_SELECT"
       IN  /\ empty => tree[c].star = "expanded"
           /\ Report(c, found)
           /\ tree' = [tree EXCEPT ![c].star = IF @ = "expanded" /\ ~empty
                                               THEN "dropped" ELSE @]
  /\ Goto(c, "row_level_security")
  /\ UNCHANGED <<policy, schemaVars, skipped, estimated, audit, result>>

\* What apply_rls makes of the governed references if it refuses none: it
\* injects the filter, or takes a condition that is there for it, rightly or not
\* (RowSecurity looks inside).
Outcomes(rls) == IF rls = "unfiltered" THEN {"filtered", "accepted"} ELSE {rls}

\* apply_rls gives every governed reference one of these outcomes, or reports
\* why one has no filter; a conflicting literal alone does not stop the filter.
RowLevelSecurity(c) ==
  /\ At(c, "row_level_security")
  /\ Runs(c, {"row_level_security"})
  /\ \E found \in Found("row_level_security") :
       LET refused == \E v \in found : v.code \in RlsCodes
       IN  /\ found # {} => tree[c].rls = "unfiltered"
           /\ Report(c, found)
           /\ \E rls \in IF refused THEN {tree[c].rls} ELSE Outcomes(tree[c].rls) :
                tree' = [tree EXCEPT ![c].rls = rls]
  /\ Goto(c, "limit_enforcement")
  /\ UNCHANGED <<policy, schemaVars, skipped, estimated, audit, result>>

\* enforce_limit on the outermost query.
EnforceLimit(limit, p) ==
  IF limit.kind = "absent" /\ p.default_limit # 0
    THEN [kind |-> "literal", n |-> p.default_limit]
  ELSE IF limit.kind = "literal" /\ p.max_limit # 0 /\ limit.n > p.max_limit
    THEN [kind |-> "literal", n |-> p.max_limit]
  ELSE limit

LimitEnforcement(c) ==
  /\ At(c, "limit_enforcement")
  /\ Runs(c, {"limit_enforcement"})
  /\ \E written \in WrittenLimits :
       tree' = [tree EXCEPT ![c].limit = EnforceLimit(written, policy)]
  /\ Goto(c, "join_checks")
  /\ UNCHANGED <<policy, schemaVars, violations, skipped, estimated, audit, result>>

JoinChecks(c) ==
  /\ At(c, "join_checks")
  /\ IF policy.check_joins
       THEN /\ Runs(c, {"join_checks"})
            /\ \E found \in Found("join_checks") : Report(c, found)
            /\ UNCHANGED skipped
       ELSE Skips(c, {"join_checks"}) /\ UNCHANGED <<run, violations>>
  /\ Goto(c, "partition_filters")
  /\ UNCHANGED <<policy, schemaVars, tree, estimated, audit, result>>

PartitionFilters(c) ==
  /\ At(c, "partition_filters")
  /\ Runs(c, {"partition_filters"})
  /\ \E found \in Found("partition_filters") : Report(c, found)
  /\ Goto(c, "cost_estimation")
  /\ UNCHANGED <<policy, schemaVars, tree, skipped, estimated, audit, result>>

\* The tree is rendered for the estimators, which are then asked in turn.
CostEstimation(c) ==
  /\ At(c, "cost_estimation")
  /\ Runs(c, {"cost_estimation"})
  /\ Goto(c, "estimate")
  /\ UNCHANGED <<policy, schemaVars, violations, tree, skipped, estimated, audit, result>>

\* Mutants: errors do not stop the loop; the loop runs once too often.
MayEstimateAnyway(c) == estimated[c] < Estimators
MayEstimateOnceMore(c) == estimated[c] <= Estimators /\ ~(estimated[c] > 0 /\ HasErrors(c))

\* The estimators after the first need a statement without errors.
MayEstimate(c) == estimated[c] < Estimators /\ ~(estimated[c] > 0 /\ HasErrors(c))

RunEstimator(c) ==
  /\ At(c, "estimate")
  /\ MayEstimate(c)
  /\ \E found \in Found("cost_estimation") : Report(c, found)
  /\ estimated' = [estimated EXCEPT ![c] = @ + 1]
  /\ UNCHANGED <<policy, schemaVars, pc, tree, run, skipped, audit, result>>

EndEstimation(c) ==
  /\ At(c, "estimate")
  /\ ~MayEstimate(c)
  /\ Goto(c, "finalize")
  /\ UNCHANGED <<policy, schemaVars, callVars>>

\* Mutant: the mode is not looked at.
ShadowedInAnyMode(c) == HasErrors(c) /\ tree[c].root /\ ~HasHardStop(c)

\* finalize: shadow mode lets a tree with blockable errors through.
Shadowed(c) ==
  /\ HasErrors(c)
  /\ policy.enforcement = "log_only"
  /\ tree[c].root
  /\ ~HasHardStop(c)

Passes(c) == ~HasErrors(c) \/ Shadowed(c)

\* Mutant: the checks already in the list of skipped ones are added again.
LeftoverAgain(c, ran) == {k \in AllChecks : k \notin ran /\ run[c][k] = 0}

\* The checks nobody ran or skipped so far are reported as skipped.
Leftover(c, ran) == {k \in AllChecks : k \notin ran /\ run[c][k] = 0 /\ skipped[c][k] = 0}

InternalError == [code |-> "INTERNAL_ERROR", is_error |-> TRUE]

\* Mutant: the audit parses the output but leaves out the gate.
ParsesAgain(text) == text # "unparsable"

\* The audit's parse_statement and statement_gate find nothing.
PassesAudit(text) == text = "select"

\* The output is rendered and must pass the parser and the gate once more.
Render(c) ==
  /\ At(c, "finalize")
  /\ Passes(c) /\ tree[c].root
  /\ Runs(c, {"output_audit"})
  /\ Skips(c, Leftover(c, {"output_audit"}))
  /\ \E text \in {"select", "unparsable", "not_a_select"} :
       /\ audit' = [audit EXCEPT ![c] = text]
       /\ IF PassesAudit(text)
            THEN /\ result' = [result EXCEPT ![c] = [valid |-> TRUE, sql |-> TRUE,
                                                     would_block |-> Shadowed(c)]]
                 /\ UNCHANGED violations
            ELSE Report(c, {InternalError}) /\ UNCHANGED result
  /\ Goto(c, "done")
  /\ UNCHANGED <<policy, schemaVars, tree, estimated>>

\* Nothing to render: finalize(None), or errors that block.
Refuse(c) ==
  /\ At(c, "finalize")
  /\ ~(Passes(c) /\ tree[c].root)
  /\ Skips(c, Leftover(c, {}))
  /\ result' = [result EXCEPT ![c] = [valid |-> Passes(c), sql |-> FALSE,
                                      would_block |-> FALSE]]
  /\ Goto(c, "done")
  /\ UNCHANGED <<policy, schemaVars, violations, tree, run, estimated, audit>>

\* validate(): whatever a check raises becomes a fresh invalid result, with
\* empty stats and INTERNAL_ERROR as its only violation.
Fail(c) ==
  /\ pc[c] \notin {"idle", "done"}
  /\ violations' = [violations EXCEPT ![c] = {InternalError}]
  /\ run' = [run EXCEPT ![c] = [k \in Checks |-> 0]]
  /\ skipped' = [skipped EXCEPT ![c] = [k \in Checks |-> 0]]
  /\ result' = [result EXCEPT ![c] = Pending]
  /\ Goto(c, "done")
  /\ UNCHANGED <<policy, schemaVars, tree, estimated, audit>>

\* The body of _validate, one check at a time.
Advance(c) ==
  \/ Parse(c) \/ StatementGate(c) \/ FunctionPolicy(c) \/ NameBinding(c)
  \/ Qualification(c) \/ AddTable(c) \/ PublishSchema(c) \/ Qualify(c)
  \/ TypeChecks(c) \/ ColumnPolicy(c) \/ RowLevelSecurity(c)
  \/ LimitEnforcement(c) \/ JoinChecks(c) \/ PartitionFilters(c)
  \/ CostEstimation(c) \/ RunEstimator(c) \/ EndEstimation(c)
  \/ Render(c) \/ Refuse(c)

Next == \E c \in Calls : Submit(c) \/ Advance(c) \/ Fail(c)

Spec == Init /\ [][Next]_vars

\* The interpreter schedules every runnable thread and the estimators of the
\* responsive calls answer; the other calls may hang anywhere, for instance in
\* an EXPLAIN that never returns.
FairSpec == Spec /\ \A c \in Responsive : WF_vars(Advance(c))

-----------------------------------------------------------------------------

TypeOK ==
  /\ policy \in Policies
  /\ cache \in [built : BOOLEAN, tables : SUBSET Tables]
  /\ nested \in [Calls -> SUBSET Tables]
  /\ pc \in [Calls -> Stages]
  /\ violations \in [Calls -> SUBSET Violation]
  /\ tree \in [Calls -> TreeType]
  /\ run \in [Calls -> [Checks -> Nat]]
  /\ skipped \in [Calls -> [Checks -> Nat]]
  /\ estimated \in [Calls -> 0..Estimators]
  /\ audit \in [Calls -> {"none", "select", "unparsable", "not_a_select"}]
  /\ result \in [Calls -> [valid : BOOLEAN, sql : BOOLEAN, would_block : BOOLEAN]]

Done(c) == pc[c] = "done"

\* A result carries SQL exactly when it is valid, and only SQL whose rendered
\* text passed the parser and the gate and whose statement has no hard-stop
\* error, whatever the mode; would_block says exactly whether "block" would
\* have refused the statement (guard.py:177-231).
ExecutableIsAudited ==
  \A c \in Calls : Done(c) =>
    /\ result[c].sql <=> result[c].valid
    /\ result[c].valid => audit[c] = "select" /\ ~HasHardStop(c)
    /\ result[c].would_block <=> result[c].valid /\ HasErrors(c)
    /\ result[c].would_block => policy.enforcement = "log_only"

\* What the three rewrites owe a tree under this policy.  A star that qualify()
\* had to leave and a condition that apply_rls took for the filter are not their
\* doing; everything else that is unprotected is.
Protected(c) ==
  /\ tree[c].star \in {"none", "left", "dropped"} \/ ~policy.expand_star
  /\ tree[c].rls # "unfiltered"
  /\ tree[c].limit.kind = "absent" => policy.default_limit = 0
  /\ tree[c].limit.kind = "literal" /\ policy.max_limit # 0
       => tree[c].limit.n <= policy.max_limit

\* SQL returned without would_block went through the three rewrites without a
\* gap: no star that was expanded keeps its restricted columns, each governed
\* table reference was given its filter or has a condition that apply_rls takes
\* for it (whether that one filters is RowSecurity's question), and the outermost
\* literal limit is within max_limit (guard.py:270-320).  No single check sees to
\* this: a check that cannot protect the tree, or is skipped, must have left an
\* error that finalize then finds.
ExecutableIsProtected ==
  \A c \in Calls : Done(c) /\ result[c].valid /\ ~result[c].would_block => Protected(c)

\* The stats of a returned result name each of the twelve checks exactly once,
\* as run or as skipped, although five places of _validate append to the two
\* lists; only the result of an unexpected exception has empty stats
\* (guard.py:160-175, 221, 266-291).
ChecksAccountedOnce ==
  \A c \in Calls : Done(c) =>
    \/ \A k \in AllChecks : run[c][k] + skipped[c][k] = 1
    \/ /\ violations[c] = {InternalError}
       /\ \A k \in Checks : run[c][k] + skipped[c][k] = 0

\* When a statement is refused by the parser or the gate, nothing downstream
\* has looked at it: no other check ran and no estimator was asked
\* (guard.py:233-247).
HardStopHaltsPipeline ==
  \A c \in Calls :
    (\E v \in violations[c] : v.is_error /\ v.code \in HARD_STOP_CODES \ {"INTERNAL_ERROR"})
      => /\ \A k \in Checks \ {"parse", "statement_gate"} : run[c][k] = 0
         /\ estimated[c] = 0
         /\ ~tree[c].root

\* A secondary estimator (EXPLAIN) is sent only what "block" would let through so
\* far, in shadow mode too: when an estimator after the first is asked, neither a
\* check nor an earlier estimator has recorded an error, and the tree whose text
\* it gets is qualified and went through the rewrites (guard.py:349-355, "need
\* runnable SQL"; test_explain_estimator_not_called_for_invalid_sql).
ExplainGetsRunnableSql ==
  [][\A c \in Calls : estimated[c] > 0 /\ estimated'[c] > estimated[c] =>
       ~HasErrors(c) /\ tree[c].qualified /\ Protected(c)]_vars

\* Every call that qualifies its tree does so against the whole catalog,
\* however the threads that build the shared schema interleave and even when
\* one of them dies half-way (catalog.py:375-386).
WholeSchema ==
  /\ cache.built => cache.tables = Tables
  /\ \A c \in Calls : pc[c] = "qualify" => cache.built

\* No call waits for another: a responsive call returns although others hang
\* at any point, the building of the shared schema included (guard.py:122-143,
\* catalog.py:375-386).
ResponsiveCallsReturn ==
  \A c \in Responsive : (pc[c] = "parse") ~> Done(c)

\* guard.py:187-190 of shadow mode: "Rewrites (RLS, limits, column drops) were
\* still applied - the query runs protected".  Here for the column drops: in SQL
\* that is returned, the restricted columns of a star are gone, unless qualify()
\* had to leave the star as it is.
ShadowRunsProtected ==
  \A c \in Calls : Done(c) /\ result[c].valid /\ policy.expand_star =>
    tree[c].star \in {"none", "left", "dropped"}

\* The contract, seen from the caller: the class of the worst error found, and
\* the verdict of the returned result.
WorstFound(c) ==
  IF HasHardStop(c) THEN 2 ELSE IF HasErrors(c) THEN 1 ELSE 0

StatusSeen(c) ==
  IF pc[c] = "idle" THEN "idle"
  ELSE IF ~Done(c) THEN "pending"
  ELSE IF ~result[c].valid THEN "rejected"
  ELSE IF result[c].would_block THEN "would_block" ELSE "executable"

Contract == INSTANCE GuardContract
  WITH mode <- policy.enforcement,
       status <- [c \in Calls |-> StatusSeen(c)],
       worst <- [c \in Calls |-> WorstFound(c)]

\* The pipeline keeps the contract: findings only get worse, the verdict is
\* given once and follows from the worst finding and the mode alone
\* (guard.py:122-231).
KeepsContract == Contract!Spec
=============================================================================
