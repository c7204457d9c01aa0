----------------------------- MODULE CostChecks -----------------------------
(***************************************************************************)
(* The checks after binding that read one shared scope index,              *)
(* sqlguard/scopeindex.py: the row filters' changes to the sources         *)
(* (rls.py), join sanity, partition filters, scan estimates and budgets    *)
(* (cost.py, collect_referenced_columns of semantics.py).                  *)
(*                                                                         *)
(* A qualified statement is the sequence of its selects, an inner one      *)
(* before the select it is written in, the root last.  A select is         *)
(* written in a condition of another one (a subquery, which sees the names *)
(* around it) or is one of its sources (a derived table, which does not).  *)
(* A condition keeps only which columns it mentions, and whether they      *)
(* stand under a comparison or an IN; a written scope is <<i, 0>> and the  *)
(* filtered subquery that wraps source k of select i is <<i, k>>.          *)
(***************************************************************************)
EXTENDS Integers, Sequences, FiniteSets, FiniteSetsExt

CONSTANTS Catalog,      \* the catalog: table name -> its entry
          Aliases, Columns,
          Tenant,       \* the column of the row filter
          Governed,     \* the tables it governs
          Policies, Statements

Tables == DOMAIN Catalog
None == -1              \* Python's None, of a statistic or a budget
Statistic == Nat \cup {None}

Entry == [columns : SUBSET Columns, row_count : Statistic, total_bytes : Statistic,
          partition_columns : SUBSET Columns, columnar : BOOLEAN]

\* partition_selectivity is one over a natural number.
Policy == [check_joins : BOOLEAN, strict_joins : BOOLEAN, rls : BOOLEAN,
           rls_strategy : {"predicate", "subquery"},
           require_partition_filter : BOOLEAN, partition_selectivity : Nat \ {0},
           on_missing_stats : {"ignore", "warn", "error"},
           max_bytes_scanned : Statistic, max_rows_scanned : Statistic]

Use == [alias : Aliases, column : Columns, compared : BOOLEAN]

\* A conjunct with the selects written in it.
Conjunct == [uses : SUBSET Use, inner : SUBSET (Nat \ {0}), compared : BOOLEAN]

\* A table, or the derived table of select "scope", or neither (UNNEST); a
\* RIGHT join stands for a FULL one too.  No ON is the empty set.
Source == [alias : Aliases, table : Tables \cup {""}, scope : Nat,
           join : {"from", "comma", "inner", "left", "right", "unnest"},
           on : SUBSET Conjunct, wrapped : BOOLEAN]

Select == [sources : Seq(Source), where : SUBSET Conjunct, items : SUBSET Use, star : BOOLEAN]

ASSUME CatalogAssumption ==
  /\ Catalog \in [Tables -> Entry] /\ "" \notin Tables
  /\ \A t \in Tables : IsFiniteSet(Catalog[t].columns)
ASSUME GovernedAssumption ==
  /\ Tenant \in Columns
  /\ Governed \subseteq Tables /\ \A t \in Governed : Tenant \in Catalog[t].columns
ASSUME PoliciesAssumption == Policies \subseteq Policy

Pool(select) == select.where \cup UNION {select.sources[k].on : k \in DOMAIN select.sources}
Inner(select) == UNION {conj.inner : conj \in Pool(select)}
Derived(select) == {select.sources[k].scope : k \in DOMAIN select.sources} \ {0}

OwnAliases(select) == {select.sources[k].alias : k \in DOMAIN select.sources}

\* The columns mentioned in a select itself.
Uses(select) == select.items \cup UNION {conj.uses : conj \in Pool(select)}

\* A subquery of statement t sees the sources of the select it is written in.
Around(t, i) == {j \in DOMAIN t : i \in Inner(t[j])}

\* _lookup_alias: the source an alias stands for in each select, as <<j, k>>.
Bindings(t, alias) ==
  LET own(j) == {k \in DOMAIN t[j].sources : t[j].sources[k].alias = alias}
      bound[j \in DOMAIN t] == IF own(j) # {} THEN <<j, CHOOSE k \in own(j) : TRUE>>
                               ELSE IF Around(t, j) = {} THEN <<0, 0>>
                               ELSE bound[CHOOSE o \in Around(t, j) : TRUE]
  IN  bound

Binding(t, i, alias) == Bindings(t, alias)[i]

\* A name that qualify() accepts: of a source, and of a column if it is a table.
Known(t, i, use) ==
  LET b == Binding(t, i, use.alias)
  IN  /\ b # <<0, 0>>
      /\ LET table == t[b[1]].sources[b[2]].table
         IN  table # "" => use.column \in Catalog[table].columns

ASSUME StatementsAssumption ==
  \A t \in Statements :
    /\ t \in Seq(Select) /\ t # << >>
    /\ \A i \in DOMAIN t :
         /\ Inner(t[i]) \cup Derived(t[i]) \subseteq 1..(i - 1)
         /\ Inner(t[i]) \cap Derived(t[i]) = {}
         /\ \A k, l \in DOMAIN t[i].sources : t[i].sources[k].alias = t[i].sources[l].alias => k = l
         /\ \A use \in Uses(t[i]) : Known(t, i, use)
         /\ \A k \in DOMAIN t[i].sources :
              LET s == t[i].sources[k]
              IN  /\ ~s.wrapped /\ (s.join = "from" <=> k = 1)
                  /\ s.join \in {"from", "comma", "unnest"} => s.on = {}
                  /\ s.table # "" => s.scope = 0

VARIABLES policy,
          tree,         \* the statement as it is
          index,        \* the cached maps of ScopeIndex, or NoIndex
          pc,
          todo,         \* the injections, scopes or references still to come
          violations,
          partition_flags, \* id(src.node) -> a partition column is constrained
          referenced,   \* table -> columns, or AllColumns
          estimate

vars == <<policy, tree, index, pc, todo, violations, partition_flags, referenced, estimate>>

NoIndex == << >>
AllColumns == {"*"}
NoEstimate == [bytes_scanned |-> None, rows_scanned |-> None, incomplete |-> FALSE]

Init ==
  /\ policy \in Policies /\ tree \in Statements
  /\ index = NoIndex
  /\ pc = "column_policy"
  /\ todo = {} /\ violations = {}
  /\ partition_flags = << >> /\ referenced = << >>
  /\ estimate = NoEstimate

-----------------------------------------------------------------------------
(* The scope index.                                                         *)

\* Each source of each select, as <<select, position>>.
Positions(t) == UNION {{i} \X DOMAIN t[i].sources : i \in DOMAIN t}

ScopesOf(t) ==
  {<<i, 0>> : i \in DOMAIN t}
    \cup {at \in Positions(t) : t[at[1]].sources[at[2]].wrapped}

\* A source as the maps record it.  A wrapped one is a subquery with a bare
\* star, whose outputs are unknown; the copy inside it is another node.
SourceAt(t, i, k) ==
  LET s == t[i].sources[k]
  IN  [alias |-> s.alias, table |-> IF s.wrapped THEN "" ELSE s.table, node |-> <<i, k, "written">>]
CopyAt(t, i, k) ==
  [alias |-> t[i].sources[k].alias, table |-> t[i].sources[k].table, node |-> <<i, k, "copy">>]

\* build_scope_maps
ScopeMaps(t) ==
  [s \in ScopesOf(t) |->
     IF s[2] = 0 THEN [k \in DOMAIN t[s[1]].sources |-> SourceAt(t, s[1], k)]
                 ELSE <<CopyAt(t, s[1], s[2])>>]

\* The maps a check gets from ScopeIndex.infos, which it leaves in the cache.
infos == IF index = NoIndex THEN ScopeMaps(tree) ELSE index

\* apply_column_rules looks at them if there are rules.
ColumnPolicy ==
  /\ pc = "column_policy"
  /\ index' \in {NoIndex, infos}
  /\ pc' = "row_level_security"
  /\ UNCHANGED <<policy, tree, todo, violations, partition_flags, referenced, estimate>>

\* The references the scan of apply_rls queues: which of the governed ones is
\* not filtered yet is RowSecurity's subject.
Queued == {at \in Positions(tree) : infos[<<at[1], 0>>][at[2]].table \in Governed}

ScanReferences ==
  /\ pc = "row_level_security"
  /\ IF policy.rls THEN index' = infos /\ todo' \in SUBSET Queued
                   ELSE UNCHANGED <<index, todo>>
  /\ pc' = "inject"
  /\ UNCHANGED <<policy, tree, violations, partition_flags, referenced, estimate>>

Filter(alias) ==
  [uses |-> {[alias |-> alias, column |-> Tenant, compared |-> TRUE]}, inner |-> {}, compared |-> TRUE]

Wraps(s) == \/ policy.rls_strategy = "subquery"
            \/ s.join = "right"
            \/ s.join = "left" /\ s.on = {}

\* _inject on source k of select i.
Inject(i, k) ==
  LET s == tree[i].sources[k]
  IN  /\ pc = "inject" /\ <<i, k>> \in todo
      /\ \/ Wraps(s) /\ tree' = [tree EXCEPT ![i].sources[k].wrapped = TRUE]
         \/ /\ ~Wraps(s) /\ s.join = "left"
            /\ tree' = [tree EXCEPT ![i].sources[k].on = @ \cup {Filter(s.alias)}]
         \/ /\ ~Wraps(s) /\ s.join # "left"
            /\ tree' = [tree EXCEPT ![i].where = @ \cup {Filter(s.alias)}]
      /\ todo' = todo \ {<<i, k>>}
      /\ UNCHANGED <<policy, index, pc, violations, partition_flags, referenced, estimate>>

wrapped_any == \E at \in Positions(tree) : tree[at[1]].sources[at[2]].wrapped

\* Mutant: the cache is not told of the wraps.
AfterKept == index

After == IF wrapped_any THEN NoIndex ELSE index

EndInjections ==
  /\ pc = "inject" /\ todo = {}
  /\ index' = After
  /\ pc' = "join_checks"
  /\ UNCHANGED <<policy, tree, todo, violations, partition_flags, referenced, estimate>>

-----------------------------------------------------------------------------
(* What a condition mentions.                                               *)

\* The columns in a conjunct of select i, each with the select it is in.
ColumnsIn(i, conj, text) ==
  {[use |-> u, scope |-> i] : u \in conj.uses}
    \cup UNION {{[m EXCEPT !.use.compared = @ \/ conj.compared] : m \in text[j]} : j \in conj.inner}

\* The filters inside the wrapped sources of a select.
WrapUses(select) ==
  UNION {Filter(select.sources[k].alias).uses :
           k \in {k \in DOMAIN select.sources : select.sources[k].wrapped}}

\* find_all(Column) on each select: it goes into whatever is written in it, the
\* wraps included.
Text ==
  LET text[i \in DOMAIN tree] ==
        {[use |-> u, scope |-> i] : u \in tree[i].items \cup WrapUses(tree[i])}
          \cup (UNION {ColumnsIn(i, conj, [j \in conj.inner |-> text[j]]) : conj \in Pool(tree[i])})
          \cup UNION {text[j] : j \in Derived(tree[i])}
  IN  text

Mentions(i, conj) == ColumnsIn(i, conj, Text)

-----------------------------------------------------------------------------
(* Join sanity.                                                             *)

AliasesIn(i, condition) == {m.use.alias : m \in UNION {Mentions(i, conj) : conj \in condition}}

Prior(i, k) == {tree[i].sources[j].alias : j \in 1..(k - 1)}

\* Mutant: any other alias will do.
LinksAnything(i, k, aliases) == tree[i].sources[k].alias \in aliases

Links(i, k, aliases) == tree[i].sources[k].alias \in aliases /\ aliases \cap Prior(i, k) # {}

Cartesian(i, k) ==
  /\ tree[i].sources[k].on = {}
  /\ \A conj \in tree[i].where : ~Links(i, k, AliasesIn(i, {conj}))

Suspicious(i, k) ==
  LET s == tree[i].sources[k]
      aliases == AliasesIn(i, s.on)
  IN  s.on # {} /\ aliases # {} /\ (s.alias \notin aliases \/ aliases = {s.alias})

\* The joins of the selects in the maps.
Joins == {at \in Positions(tree) : /\ <<at[1], 0>> \in DOMAIN infos /\ at[2] > 1
                                   /\ tree[at[1]].sources[at[2]].join # "unnest"}

Violation(code, error, at) == [code |-> code, error |-> error, at |-> at]

JoinChecks ==
  /\ pc = "join_checks"
  /\ IF policy.check_joins
     THEN /\ index' = infos
          /\ violations' = violations
               \cup {Violation("CARTESIAN_JOIN", policy.strict_joins, j) :
                       j \in {j \in Joins : Cartesian(j[1], j[2])}}
               \cup {Violation("SUSPICIOUS_JOIN", FALSE, j) :
                       j \in {j \in Joins : Suspicious(j[1], j[2])}}
     ELSE UNCHANGED <<index, violations>>
  /\ pc' = "partition_filters"
  /\ UNCHANGED <<policy, tree, todo, partition_flags, referenced, estimate>>

-----------------------------------------------------------------------------
(* Partition filters.                                                       *)

\* The physical references in the maps, as <<scope, position>>.
References == UNION {{s} \X {k \in DOMAIN infos[s] : infos[s][k].table # ""} : s \in DOMAIN infos}
SourceOf(r) == infos[r[1]][r[2]]

\* Mutant: the conditions of the joins are not looked at.
WhereOfScope(s) ==
  IF s[2] = 0 THEN tree[s[1]].where ELSE {Filter(tree[s[1]].sources[s[2]].alias)}

PoolOfScope(s) ==
  IF s[2] = 0 THEN Pool(tree[s[1]]) ELSE {Filter(tree[s[1]].sources[s[2]].alias)}

\* Mutant: a filter on one reference of a table counts for all of them.
ColumnIsConstrainedForTable(s, src, column) ==
  \E conj \in PoolOfScope(s) : \E m \in Mentions(s[1], conj) :
    m.use.column = column /\ m.use.compared
      /\ \E r \in References : SourceOf(r).table = src.table /\ SourceOf(r).alias = m.use.alias

\* _column_is_constrained: find_all goes into subqueries, and names are
\* compared as they are written.
ColumnIsConstrained(s, src, column) ==
  \E conj \in PoolOfScope(s) : \E m \in Mentions(s[1], conj) :
    m.use.column = column /\ m.use.compared /\ m.use.alias = src.alias

Constrained(r) ==
  \E p \in Catalog[SourceOf(r).table].partition_columns : ColumnIsConstrained(r[1], SourceOf(r), p)

Partitioned == {r \in References : Catalog[SourceOf(r).table].partition_columns # {}}

PartitionFilters ==
  /\ pc = "partition_filters"
  /\ index' = infos
  /\ partition_flags' = [node \in {SourceOf(r).node : r \in Partitioned} |->
                           \E r \in Partitioned : SourceOf(r).node = node /\ Constrained(r)]
  /\ violations' = violations \cup
       {Violation("MISSING_PARTITION_FILTER", TRUE, SourceOf(r).node) :
          r \in {r \in Partitioned : policy.require_partition_filter /\ ~Constrained(r)}}
  /\ todo' = DOMAIN infos
  /\ pc' = "collect"
  /\ UNCHANGED <<policy, tree, referenced, estimate>>

-----------------------------------------------------------------------------
(* The columns each table is read for.                                      *)

\* The columns a scope holds itself (columns_by_owner).
Owned(s) ==
  IF s[2] = 0 THEN Uses(tree[s[1]])
              ELSE Filter(tree[s[1]].sources[s[2]].alias).uses

TableOf(s, use) ==
  LET b == Binding(tree, s[1], use.alias)
  IN  IF s[2] # 0 THEN infos[s][1].table
      ELSE IF b = <<0, 0>> THEN "" ELSE infos[<<b[1], 0>>][b[2]].table

BareStar(s) == s[2] # 0 \/ tree[s[1]].star

\* Mutant: a column forgets that the whole table is read.
MarkOver(old, marked) == IF marked # {} THEN marked \cup (old \ AllColumns) ELSE old

Mark(old, marked) == IF old = AllColumns THEN old ELSE old \cup marked

\* One scope of collect_referenced_columns.  A column of a derived table is
\* traced to one that the select below marks itself.
CollectScope(s) ==
  LET here == {infos[s][k].table : k \in DOMAIN infos[s]} \ {""}
      marked(t) == Catalog[t].columns \cap {u.column : u \in {u \in Owned(s) : TableOf(s, u) = t}}
      touched == here \cup ({TableOf(s, u) : u \in Owned(s)} \ {""})
      old(t) == IF BareStar(s) /\ t \in here THEN AllColumns
                ELSE IF t \in DOMAIN referenced THEN referenced[t] ELSE {}
  IN  /\ pc = "collect" /\ s \in todo
      /\ referenced' = [t \in touched \cup DOMAIN referenced |->
                          IF t \in touched THEN Mark(old(t), marked(t)) ELSE referenced[t]]
      /\ todo' = todo \ {s}
      /\ UNCHANGED <<policy, tree, index, pc, violations, partition_flags, estimate>>

-----------------------------------------------------------------------------
(* Scan estimates and budgets.                                              *)

StartEstimate ==
  /\ pc = "collect" /\ todo = {}
  /\ todo' = References
  /\ pc' = "estimate"
  /\ UNCHANGED <<policy, tree, index, violations, partition_flags, referenced, estimate>>

\* The bytes of a table; every column is one byte wide.
BaseBytes(entry) ==
  IF entry.total_bytes # None THEN entry.total_bytes
  ELSE IF entry.row_count # None THEN entry.row_count * Max({Cardinality(entry.columns), 1})
  ELSE None

\* The share of the bytes the columns take up, at least 0.02, as a fraction.
ColumnRatio(entry, columns) ==
  LET all == Cardinality(entry.columns)
      ref == Cardinality(columns)
  IN  IF ~entry.columnar \/ all = 0 \/ columns = AllColumns THEN <<1, 1>>
      ELSE IF 50 * ref < all THEN <<1, 50>> ELSE <<ref, all>>

\* Mutant: a total of None is added to like any other.
PlusNone(total, n) == total + n

Plus(total, n) == IF n = None THEN total ELSE n + Max({total, 0})

PartFactor(node) ==
  IF node \in DOMAIN partition_flags /\ partition_flags[node] THEN policy.partition_selectivity ELSE 1

EstimateReference(r) ==
  LET entry == Catalog[SourceOf(r).table]
      ratio == ColumnRatio(entry, referenced[SourceOf(r).table])
      part == PartFactor(SourceOf(r).node)
      base == BaseBytes(entry)
      bytes == IF base = None THEN None ELSE (base * ratio[1]) \div (ratio[2] * part)
      rows == IF entry.row_count = None THEN None ELSE entry.row_count \div part
  IN  /\ pc = "estimate" /\ r \in todo
      /\ estimate' = [bytes_scanned |-> Plus(estimate.bytes_scanned, bytes),
                      rows_scanned |-> Plus(estimate.rows_scanned, rows),
                      incomplete |-> estimate.incomplete \/ base = None]
      /\ violations' = violations \cup
           (IF base = None /\ policy.on_missing_stats # "ignore"
            THEN {Violation("MISSING_STATISTICS", policy.on_missing_stats = "error", <<0, 0>>)} ELSE {})
      /\ todo' = todo \ {r}
      /\ UNCHANGED <<policy, tree, index, pc, partition_flags, referenced>>

Exceeds(amount, maximum) == maximum # None /\ amount # None /\ amount > maximum

\* _budget_violations
EndEstimation ==
  /\ pc = "estimate" /\ todo = {}
  /\ violations' = violations \cup
       (IF \/ Exceeds(estimate.bytes_scanned, policy.max_bytes_scanned)
           \/ Exceeds(estimate.rows_scanned, policy.max_rows_scanned)
        THEN {Violation("SCAN_BUDGET_EXCEEDED", TRUE, <<0, 0>>)} ELSE {})
  /\ pc' = "done"
  /\ UNCHANGED <<policy, tree, index, todo, partition_flags, referenced, estimate>>

Next ==
  \/ ColumnPolicy \/ ScanReferences \/ EndInjections \/ JoinChecks \/ PartitionFilters
  \/ \E r \in todo : Inject(r[1], r[2]) \/ CollectScope(r) \/ EstimateReference(r)
  \/ StartEstimate \/ EndEstimation

Spec == Init /\ [][Next]_vars

Accepted == pc = "done" /\ \A v \in violations : ~v.error

-----------------------------------------------------------------------------
(* What the checks are to establish of the statement they let through.      *)

Node == (Nat \X Nat) \cup (Nat \X Nat \X {"written", "copy"})
Codes == {"CARTESIAN_JOIN", "SUSPICIOUS_JOIN", "MISSING_PARTITION_FILTER",
          "MISSING_STATISTICS", "SCAN_BUDGET_EXCEEDED"}

TypeOK ==
  /\ policy \in Policy /\ tree \in Seq(Select)
  /\ pc \in {"column_policy", "row_level_security", "inject", "join_checks",
             "partition_filters", "collect", "estimate", "done"}
  /\ todo \subseteq (IF pc = "collect" THEN DOMAIN infos
                     ELSE IF pc = "estimate" THEN References ELSE Positions(tree))
  /\ violations \subseteq [code : Codes, error : BOOLEAN, at : Node]
  /\ \A node \in DOMAIN partition_flags : node \in Node /\ partition_flags[node] \in BOOLEAN
  /\ \A t \in DOMAIN referenced :
       t \in Tables /\ (referenced[t] = AllColumns \/ referenced[t] \subseteq Catalog[t].columns)
  /\ estimate \in [bytes_scanned : Statistic, rows_scanned : Statistic, incomplete : BOOLEAN]

\* Whenever a check asks for the scope maps it gets those of the tree as it is
\* (scopeindex.py:3-13: caching is "behaviorally identical" to rebuilding),
\* whichever checks came first and whatever the row filters wrapped; between
\* two injections the maps still are those the queue was made from.
IndexIsFresh == pc # "inject" => infos = ScopeMaps(tree)

\* The conditions of select i speak of its own sources only, and the ON of a
\* join of those before it.
OwnConditions(i) ==
  /\ \A conj \in Pool(tree[i]) : AliasesIn(i, {conj}) \subseteq OwnAliases(tree[i])
  /\ \A k \in DOMAIN tree[i].sources :
       LET s == tree[i].sources[k]
       IN  AliasesIn(i, s.on) \subseteq Prior(i, k) \cup {s.alias}
             /\ (s.on # {} => AliasesIn(i, s.on) # {})

Reported(i) == \E v \in violations : v.code \in {"CARTESIAN_JOIN", "SUSPICIOUS_JOIN"} /\ v.at[1] = i
AfterJoinChecks == pc \in {"partition_filters", "collect", "estimate", "done"}

\* However the sources of an unreported select are parted in two, a condition
\* speaks of both parts: it multiplies no two groups of rows (cost.py:47-134),
\* in any mix of comma joins, ONs and filters added by the row filters.  Each
\* source is only compared with the ones before it, in one pass.
UnreportedJoinsAreLinked ==
  AfterJoinChecks /\ policy.check_joins =>
    \A i \in DOMAIN tree : OwnConditions(i) /\ ~Reported(i) =>
      \A part \in SUBSET DOMAIN tree[i].sources :
        LET rest == DOMAIN tree[i].sources \ part
            of(ks) == {tree[i].sources[k].alias : k \in ks}
        IN  1 \in part /\ rest # {} =>
              \/ \E k \in rest : tree[i].sources[k].join = "unnest"
              \/ \E conj \in tree[i].where :
                   AliasesIn(i, {conj}) \cap of(part) # {} /\ AliasesIn(i, {conj}) \cap of(rest) # {}
              \/ \E k \in DOMAIN tree[i].sources :
                   AliasesIn(i, tree[i].sources[k].on) \cap of(part) # {}
                     /\ AliasesIn(i, tree[i].sources[k].on) \cap of(rest) # {}

\* The conjuncts that keep rows of source k from being read: the WHERE, and the
\* ONs of the joins that do not preserve it.
Filtering(i, k) ==
  tree[i].where \cup
    UNION {tree[i].sources[j].on :
             j \in {j \in DOMAIN tree[i].sources :
                      CASE tree[i].sources[j].join = "inner" -> k <= j
                        [] tree[i].sources[j].join = "left" -> k = j
                        [] tree[i].sources[j].join = "right" -> k < j
                        [] OTHER -> FALSE}}

PartitionsAt(i, k) == Catalog[tree[i].sources[k].table].partition_columns

\* A comparison of a partition column of this very source, as the database
\* resolves names.
Pruned(i, k) ==
  \/ tree[i].sources[k].wrapped /\ Tenant \in PartitionsAt(i, k)
  \/ \E conj \in Filtering(i, k) : \E m \in Mentions(i, conj) :
       /\ m.use.compared /\ m.use.column \in PartitionsAt(i, k)
       /\ Binding(tree, m.scope, m.use.alias) = <<i, k>>

Physical == {at \in Positions(tree) : tree[at[1]].sources[at[2]].table # ""}

\* README.md:148 ("Athena query with no partition filter") and cost.py:177: in
\* an accepted statement every scan of a partitioned table is pruned.
EveryScanIsPruned ==
  Accepted /\ policy.require_partition_filter =>
    \A at \in Physical : PartitionsAt(at[1], at[2]) # {} => Pruned(at[1], at[2])

\* No alias is used by two selects, no ON speaks of a source after it, and no
\* outer join compares columns of the side it preserves.
PlainNames ==
  \A p, q \in Positions(tree) :
    tree[p[1]].sources[p[2]].alias = tree[q[1]].sources[q[2]].alias => p = q
PlainOns ==
  \A at \in Positions(tree) :
    LET s == tree[at[1]].sources[at[2]]
    IN  \A m \in UNION {Mentions(at[1], conj) : conj \in s.on} :
          /\ \A k \in DOMAIN tree[at[1]].sources : k > at[2] => m.use.alias # tree[at[1]].sources[k].alias
          /\ s.join = "left" /\ m.use.compared => m.use.alias = s.alias
          /\ s.join = "right" => m.use.alias # s.alias

\* The same where names and ONs leave no doubt: no filter that was written, and
\* none that was injected or hidden by a wrap, is taken for another's.
PartitionedScansPruned == PlainNames /\ PlainOns => EveryScanIsPruned

\* A reference reported as unfiltered is, unless the row filter wrapped it
\* (cost.py:155-171): no filter is overlooked, in whatever clause or subquery.
MissingFilterIsReal ==
  \A v \in violations :
    v.code = "MISSING_PARTITION_FILTER" /\ v.at[3] = "written" => ~Pruned(v.at[1], v.at[2])

\* What the database has to read of a source: the columns that are mentioned
\* anywhere and resolve to it.
Read(i, k) ==
  IF tree[i].star THEN Catalog[tree[i].sources[k].table].columns
  ELSE {m.use.column : m \in {m \in UNION {Text[j] : j \in DOMAIN tree} :
                               Binding(tree, m.scope, m.use.alias) = <<i, k>>}}

EntryOf(at) == Catalog[tree[at[1]].sources[at[2]].table]

Share(i, k) == IF Pruned(i, k) THEN policy.partition_selectivity ELSE 1
BytesOf(at) ==
  LET entry == EntryOf(at)
      read == Cardinality(Read(at[1], at[2]))
      ratio == IF entry.columnar THEN <<read, Max({Cardinality(entry.columns), 1})>> ELSE <<1, 1>>
  IN  (BaseBytes(entry) * ratio[1]) \div (ratio[2] * Share(at[1], at[2]))
RowsOf(at) == EntryOf(at).row_count \div Share(at[1], at[2])

WithBytes == {at \in Physical : BaseBytes(EntryOf(at)) # None}
WithRows == {at \in Physical : EntryOf(at).row_count # None}

Within(amounts, maximum) ==
  maximum # None => MapThenSumSet(LAMBDA at : amounts[at], DOMAIN amounts) <= maximum

\* A comparison that check_partition_filters takes for a filter on a partition
\* column of source k of select i: one under the same alias, in any ON.
TakenForFilter(i, k) ==
  \E conj \in Pool(tree[i]) : \E m \in Mentions(i, conj) :
    /\ m.use.compared /\ m.use.column \in PartitionsAt(i, k)
    /\ m.use.alias = tree[i].sources[k].alias

\* No comparison is taken for a filter that it is not: the ones that are, of
\* another source with the same alias or in an ON that prunes nothing, are those
\* that break EveryScanIsPruned.
NoneMisread ==
  \A at \in Physical :
    ~tree[at[1]].sources[at[2]].wrapped /\ TakenForFilter(at[1], at[2]) => Pruned(at[1], at[2])

\* An accepted statement none of whose comparisons is misread as a partition
\* filter (cost.py:159-163, 200 divide by partition_selectivity for those too)
\* reads no more than the budgets, counted source by source from what each one
\* is read for, over the tables with statistics, and one whose bytes are unknown
\* is marked incomplete (cost.py:308-316, 431-474; violations.py:154-156):
\* sharing one column set per table, in any order of scopes and references,
\* hides no scan.
ScanWithinBudget ==
  Accepted /\ NoneMisread =>
    /\ Within([at \in WithBytes |-> BytesOf(at)], policy.max_bytes_scanned)
    /\ Within([at \in WithRows |-> RowsOf(at)], policy.max_rows_scanned)
    /\ ~estimate.incomplete => WithBytes = Physical
=============================================================================
