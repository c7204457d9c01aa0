# sqlguard in TLA+

`SQLGuard.validate()` takes SQL written by a language model, checks it against
a catalog and a policy, rewrites it (row filters, restricted columns, limits)
and returns SQL that is safe to run, or the reasons why there is none. This
directory models that pipeline and what it talks to, states what should be true
of them, checks that with TLC on small instances and proves the most important
of it with TLAPS for every instance. Paths such as
`guard.py:177` are relative to `src/sqlguard/` of the repository, `tests/` and
`README.md` to its root.

## 1. The system

| Component | State | Operations | Interacts with | Hard part | Correct when |
|---|---|---|---|---|---|
| `guard.py` pipeline | per call: violations, stats, tree; per guard: policy, index, estimators (all read-only after `__init__`) | `validate`, 12 checks in order, `finalize` | calls every other component; callers share it across threads | early exits, a tree that is only partly rewritten, exceptions, shadow mode, concurrency | nothing unaudited is returned; what is returned went through every rewrite; the verdict follows from findings and mode |
| `rls.py` row filters | conjunct pool, queue of injections, the tree | `apply_rls` (scan, then inject), three placements | scope index (invalidated by wraps), policy, catalog | the place of a predicate against the joins around it; recognising one that is there; running twice | no forbidden row is shown, no allowed one lost |
| `rewrite.py` | the tree | `apply_column_rules`, `enforce_limit` | scopes and lineage of `semantics.py` | dropping items scope by scope while outer scopes refer to them | no restricted column in the result; limit within the maximum |
| `semantics.py` | scope maps | `bind_names`, `qualify_tree`, `check_types`, `resolve_column_origin`, `collect_referenced_columns` | catalog index, sqlglot | lineage through CTEs, derived tables and set operations | bound names are the ones the database will use |
| `scopeindex.py` | cached scope maps | `infos`, `by_expression`, `invalidate` | shared by the checks after name binding | stale after a wrap | maps describe the tree as it is |
| `cost.py` | partition flags, estimates | `check_joins`, `check_partition_filters`, `estimate`, budgets | scope index, statistics | missing statistics, wrapped tables | an estimate never hides a table that has statistics |
| `postgres.py` | a connection and a cursor per estimate | `estimate` (EXPLAIN), the two limits | the database, the engine's pool | a failure at any step, also in closing | connections come back; a failure is no approval |
| `catalog.py` | tables, name maps, lazily built `MappingSchema` | `resolve`, `mapping_schema`, `match_table` | shared by all calls | unsynchronised lazy initialisation, ambiguous names | every call sees the whole catalog |
| `reflect.py`, `athena.py` | the catalog being built | `catalog_from_sqlalchemy`, `catalog_from_glue` | a live database, Glue | several reads without a transaction, sign conventions, paging | statistics mean what the budgets take them for |
| `analyzer.py` | none | `parse_statement`, `statement_gate`, `function_gate` | sqlglot | syntax | only one plain SELECT passes |
| `policy.py`, `violations.py`, `errors.py` | values | construction checks, result and feedback text | everything | few | only consistent policies exist |

Interaction is by plain calls and by mutation of the one tree; there are no
messages, no locks and no persistence. Several threads share one guard
(`README.md:201`); the only shared thing that is written after construction is
`CatalogIndex._mapping_schema`. The only code that waits is the code that asks a
database: the EXPLAIN estimator and the reflection, which wait for each other
when they share the pool of an engine.

## 2. The modules

    GuardContract            what validate() promises (abstract)
      ^ implemented by
    SQLGuard                 the pipeline, several calls on one guard
      ^ MCSQLGuard           values for TLC      (pipeline, threads, shadow)
      ^ SQLGuardProofs       theorems

    JoinAlgebra              SQL joins over sets of rows
      ^ RowSecurity          apply_rls, then a database that runs what it returned
          ^ MCRowSecurity    values for TLC      (rls, rls_reference)
          ^ RowSecurityProofs        types, no forbidden row
              ^ FilteringProofs      no row lost, a second validation

    ColumnRules              column rules, then a database that runs what is returned
      ^ MCColumnRules        values for TLC      (columns, columns_nested)
      ^ ColumnRulesProofs

    CostChecks               the checks on the shared scope index
      ^ MCCostChecks         values for TLC      (cost, cost_pruning)
      ^ CostChecksProofs

    NameBinding              catalog, binding, the caller's repairs, qualification
      ^ MCNameBinding        values for TLC      (binding, binding_schema)
      ^ NameBindingProofs

    LiveDatabase             reflection, Glue import and EXPLAIN against a database
      ^ MCLiveDatabase       values for TLC      (live)
      ^ LiveDatabaseProofs

    DataInduction            induction over numbers and ranks, as theorems about sets
      ^ ColumnRulesProofs, CostChecksProofs, NameBindingProofs

`SQLGuard` has every stage of the pipeline, each with the outcomes it may have;
the other modules are those stages seen from inside: `NameBinding` is its action
of that name with `Qualify`, `RowSecurity` and `ColumnRules` the two rewrites,
`CostChecks` the four checks after them, `LiveDatabase` what `RunEstimator`
does and what built the catalog beforehand.

### SQLGuard and GuardContract

`pc[c]` is the line of `_validate` that call `c` has come to. Each check is one
action named after it. A check that branches or takes several visible steps is
several: `Qualification`, `AddTable`, `PublishSchema` and `Qualify` are
`qualify_tree` with the building of the shared schema inside it;
`CostEstimation`, `RunEstimator` and `EndEstimation` the loop over the
estimators; `Render` and `Refuse` the two ways through `finalize`; `Fail` the
handler in `validate()`, which any running check may jump to.

| Variable | Code |
|---|---|
| `policy` | `self.policy`, the switches the pipeline branches on; 0 for a limit of `None` |
| `cache`, `nested` | `self.index._mapping_schema`, and the dictionary a call is filling |
| `violations` | the list, as the set of (code, is an error) |
| `tree` | `root`/`tree`: whether `finalize` gets one, whether it is qualified, what has become of star items over restricted columns, of governed references and of the outermost limit |
| `run`, `skipped` | `stats.checks_run`, `stats.checks_skipped`: how often each check is named |
| `estimated` | the index of the loop at `guard.py:349` |
| `audit` | what the rendered text parsed as at `guard.py:202` |
| `result` | `valid`, whether `sql` is there, `would_block` |

What a check finds in a statement is a choice among the violations it can
report (`StageReports`), limited to `Reportable`. The choice respects what the
code ties together: a star that was never expanded has no items to drop;
row filter errors need a governed table; `TENANT_FILTER_CONFLICT` does not keep
the filter from being applied, the other row filter errors do. Two stages may do
less than they seem to without any violation, and the model has both outcomes:
`qualify()` leaves a `*` over a source whose columns it does not know (star
"left", `semantics.py:471-483`), and `apply_rls` takes a condition of the
statement for the filter and injects none (rls "accepted", `rls.py:58-59,
205-222`); when it is wrong to do so is for `RowSecurity` to say. The statement
decides whether it has a star over restricted columns and governed references
(the action `NameBinding`); a statement has at most one of each kind in the model, enough
because the properties are about the worst of them.

`GuardContract` knows only the mode, what each caller sees and the worst class
of problem found so far. `KeepsContract` maps `SQLGuard` to it: `worst` is
computed from `violations`, `status` from `pc` and `result`.

### RowSecurity and JoinAlgebra

`ScanReference` is one turn of the loop over the references of a scope, with
every rule against every conjunct of the pool; `Inject` one turn of the loop at
`rls.py:290`. Predicates are kept apart from the statement's own conjuncts by
the place they were injected at (`where`, `on`, `wrap`). A caller then either
validates the returned statement again (`Revalidate`, the same actions on the
rewritten statement) or runs it: `Execute`, `JoinSource` and `FilterWhere` are
the database, which carries two relations: `rel`, the statement as
returned, and `ref`, the statement as written on tables from which the
forbidden rows have been taken away. The database is not part of the repository
(`external` in `PROJECT.json`); it is the reference definition the row filter
is compared with.

Assumed of a statement: one scope (each scope is scanned by itself); a source
that is no catalog table is like an ungoverned table; a join's own condition is
equality of keys with the source before it, which stands for any condition,
as the placement does not look at it; governed columns are not null. The
values of a placeholder are those the caller binds. Not modelled: negative
literals (an `exp.Neg`, which the scan passes over), conversions of dates and
other Python values, quoting of names.

### ColumnRules

A statement is the sequence of its scopes in the order `traverse_scope` yields
them (inner ones first, the root last). `Qualify`, `CheckReferences` and
`DropItems` are the expansion of stars and the two passes of
`apply_column_rules`, one scope per step. An item keeps the position it was
written at, so a list with dropped items is the same function on fewer
positions. `Origin` is `resolve_column_origin`: `Follow` is one step down a
derived source, in the lists *as they are at that moment*, `MaxDepth` its
`_depth` limit. `Execute` and `RunScope` are the database (external): it runs
the returned statement on two contents that differ only in hidden columns, and
`Reject` is what it does with a reference it cannot resolve or with operands of
different width.

`Qualify` takes the scopes in order; where a written reference does not resolve
it ends in `not_qualified`, the `SEMANTIC_ERROR` of `qualify_tree`
(`semantics.py:481-491`). `Lineage` follows a reference through at most
`MaxDepth` derived sources, or to the place where it can go no further.

Hidden are the denied columns, and those of an `exclude_from_star` rule unless
the author asked a table for them by name (`policy.py:103-109`).

Assumed of a statement: stars are expanded (when they are not is in `SQLGuard`)
and a reference names one of the sources of its scope; a select reads one or two sources; the operands of a set
operation are selects; an item or a condition reads one column; no correlated
or scalar subqueries, no columns coalesced by `USING`.

### CostChecks

The four checks that share one `ScopeIndex` (`scopeindex.py`), after the row
filters have changed the tree under it. `index` is the cached maps or
`NoIndex`; `infos` is what a check gets when it asks. A scope is `<<i, 0>>` for
the select `i` as written and `<<i, k>>` for the subquery that wraps its source
`k`; `node` stands for `id(src.node)`, the key of the partition flags, which is
another one for the copy inside a wrap than for the source as written.

| Action | Code |
|---|---|
| `ColumnPolicy`, `ScanReferences` | the first to ask for the maps |
| `Inject(i, k)` | one turn of the loop at `rls.py:290`; the order of the queue is left open |
| `EndInjections` | `invalidate()` at `rls.py:292` |
| `JoinChecks`, `PartitionFilters` | `check_joins`, `check_partition_filters` (`cost.py`) |
| `CollectScope(s)`, `StartEstimate` | `collect_referenced_columns`, one scope at a time in any order |
| `EstimateReference(r)`, `EndEstimation` | the heuristic estimator one reference at a time, then the budgets |

`Text` is what `find_all(Column)` finds in a select: whatever is written in it at
any depth, and the filters inside its wraps. `Binding`, `Pruned`, `Read` and
their like say what a database makes of the same statement; the checks are
compared with them.

Assumed of a statement: it is qualified, so that each column has its alias and
an alias that stands for a table has the columns of that table (`Known`);
the aliases of a select differ; an inner select comes before the one it is
written in; tables have finitely many columns; no set
operations and no `USING`; a condition is kept as the columns it mentions and
whether they are compared; every column is one byte wide; the lineage of a
column through a derived table marks no more than the inner select marks.
`right` stands for `FULL` too, which `cost.py` and `rls.py` treat alike.

### NameBinding

From a catalog as given to a statement whose tables carry their schema.

| Action | Code |
|---|---|
| `Construct` | `Catalog.__post_init__` and the maps of `CatalogIndex` |
| `BindNames` | `build_scope_maps` and `bind_names`, one turn of the caller's loop |
| `RepairStatement` | the loop of `examples/self_repair_loop.py`: what is flagged is replaced by something the hints know, in every way they allow |
| `QualifyTree` | the default schema in `qualify_tree`; `qualify()` may refuse |

`Resolve` is `resolve()`; `Faults` the tests of `bind_names` on one reference,
clause by clause; `ReportedOnce` what the deduplication by (code, table, column)
may keep. What the database does with a name is `Meant` and `Resolves`: the
nearest select around it that has the name, derived tables cut off.

Assumed: names are not empty (`catalog.py:51-53, 72-74` refuse empty ones), the
aliases of a select differ, names are in lower case (quoting and case folding are not here); a CTE
is like a derived table; no `LATERAL`, no coalesced `USING` columns. The caller is
the example's, with the number of attempts as a constant.

### LiveDatabase

A reflection (or a Glue import), calls of `estimate()` and a database that
changes. `stage`, `held` and `names` are the reflection: which question is next,
the connection it is asked on, the names still to be read. `at[c]`, `conn[c]`
and `cursor[c]` are a call: a step either goes on or raises (`failed[c]`), and
the `finally` clauses still follow. `past` is history only: the databases there
were since the reflection began.

| Action | Code |
|---|---|
| `ReadStats`, `ReadNames`, `ReadColumns`, `NextSchema` | `reflect.py:26-108`, each question on a connection of its own (`CheckOut`) |
| `ReadPage`, `LastPage` | the paginator of `athena.py` |
| `Build` | `Catalog.__post_init__`, which may refuse |
| `Connect` ... `Close`, `Judge` | `postgres.py:58-121`, by engine or by `connect` function |
| `Change` | another session: creates, drops, alters, analyses, makes a table of a view |

Assumed: changes are to the reflected schemas; names come in any order; the
keys of partitions are Glue's only; each call estimates once; a `close()` that
raises has let go of what it was to close; types, comments
and nullability are left out.

## 3. The runs

| Run | Instance | Shows |
|---|---|---|
| `pipeline` | 1 call, 48 policies (both modes, all switches that interact, limits none/2), 2 estimators, an error of every check and two warnings, literals 1 and 3 | type, `ExecutableIsAudited`, `ExecutableIsProtected`, `ChecksAccountedOnce`, `HardStopHaltsPipeline`, `ExplainGetsRunnableSql` (of steps), `KeepsContract` |
| `threads` | 2 calls, 2 tables, 1 estimator, one kind of error; one call need not be responsive | `WholeSchema`, `ResponsiveCallsReturn` |
| `shadow` | 1 call | finding 1 below |
| `rls` | 1-3 sources, every combination of joins and conditions, at most one conjunct, 7 forms of it on two-source statements; all strategies; scalar, list, missing and unusable params; up to two rules; three databases over 2 keys and 2 tenants | type, `FilteredUnlessMisread`, `FilteredAsReference`, `SecondPassAddsNothing` |
| `rls_reference` | two and three sources | finding 2 |
| `columns` | 1-4 scopes: selects nested up to three deep, a star over a join, set operations with a list on top; lists that are a star, a column, a renamed or a computed item, or a star with such an item; two tables of two columns; name, table and tag rules of both actions, two at once; `MaxDepth` 1 | type, `HiddenNeverMatters`, `DroppedOnlyWhereUnused` |
| `columns_nested` | the same | finding 3 |
| `cost` | 1-3 selects, up to 3 sources: every join with and without a link or a filter, subqueries in conditions, derived tables; a partitioned table, one partitioned by the row filter's column, one with a row count only, one without statistics; both strategies, budgets of either kind | type, `IndexIsFresh`, `UnreportedJoinsAreLinked`, `PartitionedScansPruned`, `MissingFilterIsReal`, `ScanWithinBudget` |
| `cost_pruning` | the same | finding 4 |
| `binding` | catalogs with no schema, one or two, with and without a default; 1-3 selects (one table, a join, a correlated subquery, derived tables two deep, a derived table below a subquery), a reference of every clause with a right, a wrong or no alias; 5 attempts | type, `FaultsAreReported`, `ReportedIsFault`, `DefaultNamesBoundTables`, `RepairConverges` |
| `binding_schema` | the same | finding 5 |
| `live` | five databases of one or two tables (a view, a second schema, names that differ in case), up to two changes to four relations, one or two reflected schemas, or a Glue import; two calls and a reflection with a pool of one connection, four answers of the planner | type, `ConnectionsReturned`, `GateHolds`, `ReflectedAsSeen`, `StableTablesReflected`, `EveryoneReturns` |

Bounds. One call is enough for the pipeline properties because calls share
nothing they write except the schema, which `threads` is about; two calls are
enough for two builders of one schema, and the theorems are for any number. Two
estimators are the first and a secondary one. Literals 1 and 3 lie on both
sides of the limit 2. Three sources are needed for a join to have a neighbour
on each side; two values per column are what it takes to tell allowed from
forbidden and matching from non-matching. `MaxDepth` is 12 in the code
(`semantics.py`); statements three scopes deep pass a limit of 1, so that the
cut-off is reached and a lost origin must not open a way to a hidden column.
Two contents of each table are those in which the second column follows the
first or opposes it. The databases of `rls` are the full one and
two in which some keys have no partner. `pass` stops at 2: the second
validation is the question. In `cost` the sizes are chosen so that each budget
is met by some statements and missed by others, with and without the pruning
factor. `Attempts` in `binding` is the example's five
(`examples/self_repair_loop.py:75`), and no more than it takes: with four, some
statements of three selects are not settled. In `live` one connection
for three users is the scarcest pool that works; the number of changes is
`use.changes`. Deadlock is not checked: calls, executions, loops and
reflections end.

Fairness. `SQLGuard!FairSpec` has weak fairness of `Advance(c)` for the
`Responsive` calls only: the interpreter schedules every runnable thread and
none of the checks waits, except an estimator, which may hang on its database
for ever (`postgres.py:58-77` sets no timeout). Those calls are the unfair ones.
`Fail` and `Submit` are never fair. `NameBinding!FairSpec` is weak fairness of
the whole step: one thread, the caller's loop, in which nothing waits.
`LiveDatabase!FairSpec` has weak fairness of the reflection and of each call:
the database answers, in the end, a question it was asked. That is the
assumption under which `EveryoneReturns` speaks of the pool: nobody is blocked
by another for ever, without the pool's own timeout. Failures (`ConnectFails`,
`ReflectionFails`), changes and new calls (`Estimate`) are not fair.

Each property of a passing run comes with a mutant, an operator of the module
with a plausible slip (`AfterGateContinues`, `PlacementRightInOn`, ...), on
which the property fails.

### What the violation runs show

1. `shadow`: in `log_only`, a statement with an unknown name (or one that
   `qualify` rejects, or whose list would become empty) is returned with its
   `*`, so restricted columns are not dropped, whereas the comment at
   `guard.py:187-190` says the column drops were still applied.
   `ExecutableIsProtected` shows that this is confined to `would_block`
   results and to stars that `qualify` cannot expand.
2. `rls_reference`: `orders o LEFT JOIN notes n ON ... AND o.tenant = 1` has
   the predicate for `o` in an `ON` that filters no row of `o`. The pool takes
   it for the filter (`rls.py:58-59, 205-222`) and injects none, against the
   invariant stated at `rls.py:3-6`. No violation is reported either, in any
   mode, so `ExecutableIsProtected` promises no more of the row filters than
   that each governed reference has a filter or a condition taken for one;
   `FilteredUnlessMisread` says in which statements these are the same.
3. `columns_nested`: `SELECT * FROM (SELECT * FROM users) d` under a table or
   tag rule for `users.ssn`. The drop pass takes the inner list first
   (`rewrite.py:149-173`); when it comes to the outer list the origin of `d.ssn`
   can no longer be found, the rule does not match and the item stays. The
   returned statement asks `d` for a column it does not have. Nothing leaks, but
   validating it again fails, where `tests/test_fuzz.py:195` asserts
   `second.valid`. `DroppedOnlyWhereUnused` says in which statements this cannot
   happen.
4. `cost_pruning`: `FROM events a WHERE EXISTS (SELECT 1 FROM other a WHERE a.dt
   = ...)`: `_column_is_constrained` looks at the text of every column below a
   condition (`cost.py:159-163`), so the inner `a.dt` passes for the outer one,
   and so does a comparison in the `ON` of a join that preserves the table. All
   partitions are read, where `cost.py:177` asks "is any partition column
   constrained?" of each reference. `PartitionedScansPruned` says that shared
   aliases and such `ON`s are the only ways. The estimator divides by
   `partition_selectivity` for a scan that is misread like this, so its estimate
   may be too low: `ScanWithinBudget` is about the statements with no comparison
   so misread (`NoneMisread`), and about all of those, aliases used twice and
   joins `ON a.id = b.id` included.
5. `binding_schema`: default schema `sales`, `users` only in `hr`. `resolve()`
   binds the bare name to `hr.users`, the only table of that name
   (`catalog.py:342-344`), and is checked against it; `qualify_tree` writes
   `sales.users` (`semantics.py:479-480`). The returned statement reads a table
   outside the catalog, where `catalog.py:169-170` says "fail closed".
   `DefaultNamesBoundTables` says that it takes a table the default schema lacks.

### What else the models show

These are consequences of the models that contradict no line of the repository,
or too little of one to be a finding.

- The estimators get the text rendered at `guard.py:348`; the audit of rendered
  text comes later (`guard.py:198-219`). A secondary estimator may be sent text
  that the audit refuses.
- `a JOIN orders o ... RIGHT JOIN b` gets the predicate for `o` in the `WHERE`
  (`rls.py:356-358`), which drops the rows of `b` without a partner. No row
  leaks; rows are lost. `FilteredAsReference` leaves these statements out
  (`NulledBeforeWhere`).
- Statements whose operands lose different numbers of columns are reached
  (`pc = "misaligned"` in `ColumnRules`); the database rejects them. A restricted
  column typed out beside a `*` is dropped without a word, as documented
  (`docs/PLAN_AND_REVIEW.md:120`).
- A wrap hides the author's own partition filter from the copy inside it, which
  is then reported as unfiltered; `MissingFilterIsReal` speaks of the source as
  written only.
- Of comma joins, a source that is linked only to a later one is flagged as
  cartesian although the whole is connected: each is compared with those before
  it. `ON TRUE` is not flagged.
- A table with `total_bytes` and without `row_count` passes `max_rows_scanned`,
  and the estimate is not marked incomplete (`violations.py:154-156`).
- `ORDER BY` of an output name that two sources have as a column is reported as
  ambiguous although it is the output; and a derived table in a correlated
  subquery is bound without the sources around it, so that a name found nowhere
  below it is reported although it may be one of theirs. `ReportedIsFault` leaves
  out these two and no more (`OrdersByOutput`, `HiddenByDerived`). A name that is ambiguous among outer sources is left to `qualify()`.
- Two unknown aliases with the same column are one violation; a caller that
  repairs what is flagged needs two rounds.
- `reltuples` -1 becomes 0 rows (`reflect.py`), Glue's -1 becomes `None`
  (`athena.py:26-38`): a row budget lets a table pass that was never analysed.
- One dropped table makes the whole reflection raise; so does a pair of names
  that differ in case only, and a partition key repeated among Glue's columns,
  with a `CatalogError`. A view that becomes a table between the two questions
  for names may be missed.

## 4. The proofs

Seven `*Proofs` modules and `DataInduction` are checked to the last leaf. The
assumptions are the named `ASSUME`s of the modules, each of which TLC evaluates:
a guard is built with consistent limits (`policy.py:198-203`), a natural number
of estimators and literals, well-formed requests, statements and catalogs (as
listed with each module above), tables whose rows are not the null row
(`DatabasesAssumption`), a Glue import of one database.

Every invariant that a passing run checks is proved, and so are the step property
`ExplainGetsRunnableSql` and the refinement.

*Recursion.* Lineage, name lookup, scopes and sums are recursive functions over
a statement, and TLA+ gives a recursive definition its equation only if some
function satisfies it. `DataInduction` derives induction over the numbers
from the library's well-founded sets (`LeastNumber`, `AllNumbers`, `AllByRank`),
stated of sets and not of predicates, so that it can be cited; `IterationExists`
and `RankedFixpointExists` then give a function that repeats a step and one
that is defined from places of a lower rank. A step down a derived source, out
to the select around, or to a smaller set of addends lowers a rank, so each
recursive operator has the value its definition says (`LineageSteps`,
`ClimbExists`, `SumExists`) and is reasoned about by induction on that rank.

*Pipeline.* None of the properties is inductive: each speaks of finished calls
or of one field. `Phase(c)` says, for each value of `pc[c]`, which checks have
been tallied so far, which codes can have been reported, and what the tree must
look like unless an error is recorded (`Guarded`: qualified, then stripped, then
filtered or holding an accepted condition, then limited, stage by stage); that
last implication is why `finalize` may rely on errors alone. `ExplainAlways` uses
it in the middle of a call: `MayEstimate` asks for no errors, so the tree is
qualified and rewritten. `PhaseStep` shows that each action
takes a call from the phase before it to the one after it, `Untouched` that it
leaves the other calls alone; `Counted` adds the tallies. The theorems about
audited, protected, counted and halted results then are consequences of the
phase "done". `WholeSchemaAlways` is by the fact that the cache is assigned in
one step and only from a full dictionary. `ContractKept` maps every step to
`Submit`, `Discover`, `Decide` or a stutter, using that `violations` only grows
(`Fail` replaces the set, by one that is worst of all).

*Row filters.* `FilteredAlways` is for any number of sources and rows. The
invariant `Running` says of the run join by join: a row of `rel` shows, of each
reference joined so far, a null row or a row that passes whatever was placed in
a wrap or in an ON up to there; `Staged`, `AllDue` and `WellPlaced` that each
unfiltered rule of a reference ends up, once, in the place that fits its join
(an ON only for a LEFT join, a WHERE never for a nullable right side). The
WHERE then deals with the rest.

*A second validation.* `SecondPassAlwaysAddsNothing` needs to know why the scan
finds what was injected wherever it was put. `Made`: whatever was injected or is
queued is a predicate the scan itself built for that reference (`Own`).
`Settled`: a reference whose scan was accepted has nothing left to report, and
the predicate of each of its rules is in the pool or in the queue. `PoolGrows` and
`HeadInPool` carry this through the injections (a wrap starts a new pool, and
with one rule for each reference it starts with the rule's own predicate);
`Again` is the second scan.

*Nothing else changes.* `FilteredAsReferenceAlways` compares two runs of
statements that differ in their conditions. While the joins go on the two
relations are not equal: one still holds forbidden rows that the WHERE or a
later ON will reject, and lacks rows that are null-extended for want of them.
`Agree` is what does hold: the relations have the same rows among those that no
condition still to come rejects (`Pending`, `Doomed`). `JoinAgrees` takes this
through one join of each kind, `JoinShown` carries along that the reference shows
allowed rows only, and not null ones of a source filtered in the WHERE, which
is where `NulledBeforeWhere` is needed. At the WHERE nothing is pending.

*Hidden columns.* `HiddenNeverMattersAlways` is for statements of any depth. A
column is hidden from a scope that reads its table, so lineage matters less than
it seems: `Screened` says of references that go directly to a table that those
written by the author name no denied column once the first pass is over, and
the other items no restricted one once the second is. Then each row
of a scope is computed from columns on which the two databases agree, and from
rows of scopes before it (`SelectSame`): `SameRows`, scope by scope.

*Dropped items.* `DroppedOnlyWhereUnusedAlways` needs to know why a reference to an
item that is dropped would have been dropped or refused too. The lists change while
`Origin` is computed in them, so the invariant (`Tracked`) speaks of the whole
lists, `full`, that qualification made: what each pass has decided in terms of
them (`Cleared`, `Sifted`), and that the rest still is as it was. If stars read
tables only, only references that reach a table at once can match a star item's
rule (`OnlyDirectToNamed`); if the rules go by names alone, lineage is not
asked (`DroppedIsNamed`). In both cases nothing that is left refers to what is
gone (`NothingMissing`), and `Resolves` holds in every scope.

*Scope index and joins.* `Injected` says that until the injections end the cache
is empty or the maps of the tree, unless something was wrapped; `AlikeMaps` that
maps see sources and not conditions, so a filter in a WHERE or an ON leaves them
right. For `UnreportedJoinsAreLinkedAlways`: of the part without the first
source take the smallest one (`Smallest`); its join was judged against those
before it, all in the other part, and the condition that linked it is the one
that speaks of both (`LinkedAcross`); later steps change no tree (`JoinsJudged`).

*Partition filters.* `FiltersJudged`: once the check has run, what is reported are the
sources it found unconstrained in the tree that the row filters left, and if
there are any and the policy asks for filters, one of the reports is an error.
The rest is about one state: what the text of the conditions says against what
each condition filters, by `BindingsSteps`, which says what source an alias
stands for at any depth of subqueries, and by what the injections keep of a
statement (`Structured`: aliases, nesting, names that resolve).

*Budgets.* `ScanWithinBudgetAlways` compares two sums: what a database reads, over
the sources of the statement, and what the estimator has added up, over the
references of the maps. `SumOf` picks its next addend arbitrarily, so first the
order is shown not to matter (`SumsAgree`, `SumWithout`); then `SumBelow` bounds one
sum by the other along an injection from sources to references. Source by
source, `Gathered` says that a column the database reads has been collected or
its table was given up on (`AllColumns`), so the fraction of columns, and that of
partitions, is not less in the estimate (`FractionBelow`): the estimator divides by
the selectivity only for a comparison it takes for a filter (`ConstrainedIsTaken`),
and under `NoneMisread`, the theorem's hypothesis, that one prunes the scan (`PartBelow`); `Estimated` carries the
sums and the flag `incomplete` through the loop in any order.

*Live database.* `Holding` says at which steps a call may have a connection and
an open cursor; with it a connection is with exactly one holder.
`GateAlwaysHolds` is by `Answered` (an outcome without a violation has a payload
within the limits). `AsSeen` relates each entry, each statistic and each name
read so far to a database of `past`; `Complete` says that a table that was there
all along is in the entries, among the names still to be read, or of a kind or
schema still to be asked for (`Covered`).

*Names.* `Found`: a statement that goes on to `qualify_tree` has a table for every
name, and `bound` is what `Resolve` yields. If the default schema has a table of
that name, `Resolve` of the bare name is that one, which the qualified name finds
again (`QualifyKeepsNames`: writing schemas changes nothing else).

*Faults.* `Sound` keeps the shape of the statement (`Shaped`: each select is written
in a later one, aliases differ) through repairs and qualification, and relates
what is reported to what there is: nothing else than `AllFaults`, and each of them
by its key (`Judged`). What remains is about one state. Every lookup climbs from
a select to one around it; `ByClimbing` is induction along that climb. What
`_lookup_alias` finds is what the alias means (`LookupMeans`), and what it misses
means nothing unless a derived table is in between (`LookupMisses`); the same for a
bare column that is looked for around a subquery (`AroundMeans`,
`AroundMisses`). `UnresolvedIsFault` and `FaultIsReal` are the two
directions; the exceptions in the properties are where the climbs of
`bind_names` and of the database part.

Only model-checked: the liveness properties `ResponsiveCallsReturn`,
`RepairConverges` and `EveryoneReturns` (fairness and `ENABLED` are out of the
prover's reach) and, naturally, the five violations.

## 5. Not modelled, and what is left

Not modelled, because there is no state or control in it that a property could
be about: text (messages, feedback, prompt, `to_dict`, pretty printing), format
conversions of the catalog loaders, exceptions, packaging, examples other than
the repair loop, benchmarks. Not modelled, because it is sqlglot's: grammar,
renderer, optimizer and type inference; their outcomes are choices. Left out of
the statements that are modelled: `LATERAL`, `USING` (except in row filters),
names in mixed case, scalar types and casts (except in row filters).

What could still be added, in this order:

1. Guard construction: `_validate_rls_config` and `from_database`, composed with
   the reflection of `LiveDatabase`; `check_types` with sqlglot's answer as a
   choice.
2. List-valued params under repeated validation, and the number of passes after
   which two rules on one reference are settled. That the rows stay right is
   covered (`FilteredAsReference`), that no third predicate is added is not.
3. The result of set operations from which columns were dropped, compared with
   the statement as written: dropping columns from an `INTERSECT` can add rows.
4. `ColumnRules` and `NameBinding` composed: the tree one returns is the
   statement of the other.

The hazards these are for are in `PROJECT.json`; those without a property carry
a note.
