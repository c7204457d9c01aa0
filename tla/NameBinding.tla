---------------------------- MODULE NameBinding ----------------------------
(***************************************************************************)
(* Names: a catalog is built and indexed (catalog.py), a statement is      *)
(* bound to it (build_scope_maps and bind_names of semantics.py), its      *)
(* author repairs what is reported and sends it again                      *)
(* (examples/self_repair_loop.py), and a statement without errors is       *)
(* qualified (qualify_tree), after which the later checks bind it anew.    *)
(*                                                                         *)
(* A statement is the sequence of its selects, an inner one before the one *)
(* it is written in; a CTE is like a derived table.  What a database makes *)
(* of the same names is defined beside it.  Names are in lower case.       *)
(***************************************************************************)
EXTENDS Naturals, Sequences, FiniteSets

CONSTANTS Schemas, TableNames, Columns, Aliases,
          Requests,     \* a catalog as given, and a statement
          Attempts      \* of the caller's loop

\* "" stands for no schema, no alias, no name.
Table == [schema : Schemas \cup {""}, name : TableNames, columns : SUBSET Columns,
          structs : SUBSET Columns]
CatalogSpec == [tables : SUBSET Table, default_schema : Schemas \cup {""}]

\* A table by name, or the derived table of select "scope".
Source == [alias : Aliases, db : Schemas \cup {""}, name : TableNames \cup {""}, scope : Nat]
Item == [alias : Aliases \cup {""}, column : Columns, as : Columns \cup {""}]
Reference == [alias : Aliases \cup {""}, column : Columns,
              clause : {"list", "where", "group", "order"}]

Select == [kind : {"root", "subquery", "derived"}, within : Nat, sources : Seq(Source),
           star : BOOLEAN, items : SUBSET Item, refs : SUBSET Reference]

Statement(t) ==
    /\ t \in Seq(Select) /\ t # << >>
    /\ \A i \in DOMAIN t :
         /\ (t[i].kind = "root" <=> i = Len(t))
         /\ i # Len(t) => t[i].within \in (i + 1)..Len(t)
         /\ \A k, l \in DOMAIN t[i].sources : t[i].sources[k].alias = t[i].sources[l].alias => k = l
         /\ \A k \in DOMAIN t[i].sources :
              LET s == t[i].sources[k]
              IN  (s.name = "" <=> s.scope # 0)
                    /\ (s.scope # 0 => s.scope < i /\ t[s.scope].kind = "derived" /\ t[s.scope].within = i)

ASSUME NamesAssumption == "" \notin Schemas \cup TableNames \cup Columns \cup Aliases
ASSUME RequestsAssumption ==
  \A q \in Requests : q.catalog \in CatalogSpec /\ Statement(q.statement)
ASSUME AttemptsAssumption == Attempts \in Nat \ {0}

VARIABLES catalog, tree, pc,
          attempt,      \* of the caller's loop
          violations,
          bound         \* the tables bind_names found, by <<select, source>>

vars == <<catalog, tree, pc, attempt, violations, bound>>

Init ==
  /\ \E q \in Requests : catalog = q.catalog /\ tree = q.statement
  /\ pc = "construct" /\ attempt = 0
  /\ violations = {} /\ bound = << >>

-----------------------------------------------------------------------------
(* The catalog.                                                             *)

Bare(c) == {t \in c.tables : t.schema = ""}

\* Tables without a schema get the default one if others have a schema.
Filled(c) ==
  IF Bare(c) = c.tables THEN c.tables
  ELSE {[t EXCEPT !.schema = IF @ = "" THEN c.default_schema ELSE @] : t \in c.tables}

Duplicates(tables) == \E t, u \in tables : t # u /\ t.schema = u.schema /\ t.name = u.name

\* Mutant: tables are compared as they were given.
RefusedEarly(c) ==
  \/ Bare(c) \notin {{}, c.tables} /\ c.default_schema = ""
  \/ Duplicates(c.tables)

Refused(c) ==
  \/ Bare(c) \notin {{}, c.tables} /\ c.default_schema = ""
  \/ Cardinality(Filled(c)) < Cardinality(c.tables) \/ Duplicates(Filled(c))

\* Catalog.__post_init__, and the CatalogIndex of what it leaves.
Construct ==
  /\ pc = "construct"
  /\ IF Refused(catalog)
     THEN pc' = "refused" /\ UNCHANGED catalog
     ELSE pc' = "validate" /\ catalog' = [catalog EXCEPT !.tables = Filled(catalog)]
  /\ UNCHANGED <<tree, attempt, violations, bound>>

has_schemas == \E t \in catalog.tables : t.schema # ""
by_name(name) == {t \in catalog.tables : t.name = name}
by_key(schema, name) == {t \in by_name(name) : t.schema = schema}

Sole(S) == IF Cardinality(S) = 1 THEN S ELSE {}

\* CatalogIndex.resolve, as a set of at most one table.
Resolve(name, db) ==
  IF db # "" \/ ~has_schemas THEN by_key(db, name)
  ELSE IF catalog.default_schema # "" /\ by_key(catalog.default_schema, name) # {}
       THEN by_key(catalog.default_schema, name)
       ELSE Sole(by_name(name))

-----------------------------------------------------------------------------
(* Scopes.                                                                  *)

Sources(i) == {tree[i].sources[k] : k \in DOMAIN tree[i].sources}
OutputName(item) == IF item.as = "" THEN item.column ELSE item.as
Outputs(i) == {OutputName(item) : item \in tree[i].items}

\* A source whose columns are not known: an unknown table, or a derived table
\* with a star (_derived_outputs).
Opaque(s) ==
  IF s.scope = 0 THEN Resolve(s.name, s.db) = {}
                 ELSE tree[s.scope].star \/ tree[s.scope].items = {}

ColumnsOf(s) ==
  IF s.scope = 0 THEN UNION {t.columns : t \in Resolve(s.name, s.db)} ELSE Outputs(s.scope)

References(i) ==
  tree[i].refs \cup
    {[alias |-> item.alias, column |-> item.column, clause |-> "list"] : item \in tree[i].items}

\* The known sources of select i that have a column.
Hits(i, column) == {s \in Sources(i) : ~Opaque(s) /\ column \in ColumnsOf(s)}
HasOpaque(i) == \E s \in Sources(i) : Opaque(s)
Aliased(i, alias) == {s \in Sources(i) : s.alias = alias}

can_correlate(i) == tree[i].kind = "subquery"

\* _lookup_alias
LookupAlias(i, alias) ==
  LET found[j \in DOMAIN tree] ==
        IF Aliased(j, alias) # {} \/ ~can_correlate(j) THEN Aliased(j, alias) ELSE found[tree[j].within]
  IN  found[i]

\* A select around i, subquery by subquery, may have the column.
FoundAround(i, column) ==
  LET found[j \in DOMAIN tree] ==
        can_correlate(j) /\ \/ Hits(tree[j].within, column) # {} \/ HasOpaque(tree[j].within)
                            \/ found[tree[j].within]
  IN  found[i]

\* _own_output_names
OwnOutputs(i) == {item.as : item \in tree[i].items} \ {""}

\* _struct_access_plausible: alias.x may be a member of a column "alias".
StructPlausible(i, alias) ==
  \E s \in Sources(i) : \/ Opaque(s)
                        \/ s.scope # 0 /\ alias \in Outputs(s.scope)
                        \/ s.scope = 0 /\ \E t \in Resolve(s.name, s.db) : alias \in t.structs

\* A violation bind_names finds in a reference; "alias" is in its message only.
Report(code, table, ref) ==
  [code |-> code, db |-> "", table |-> table, column |-> ref.column, alias |-> ref.alias]
DisplayName(s) == IF s.scope # 0 THEN s.alias ELSE s.name

\* Mutant: a name that is no column of the select itself is not looked for around it.
BareCodeHere(i, ref) ==
  IF Cardinality(Hits(i, ref.column)) > 1 THEN {"AMBIGUOUS_COLUMN"}
  ELSE IF Cardinality(Hits(i, ref.column)) = 1 \/ HasOpaque(i) THEN {}
  ELSE {"UNKNOWN_COLUMN"}

\* Mutant: an output alias will do in any clause.
BareCodeAnyClause(i, ref) ==
  IF Cardinality(Hits(i, ref.column)) > 1 THEN {"AMBIGUOUS_COLUMN"}
  ELSE IF Hits(i, ref.column) # {} \/ HasOpaque(i) \/ FoundAround(i, ref.column) THEN {}
  ELSE IF ref.column \in OwnOutputs(i) THEN {}
  ELSE {"UNKNOWN_COLUMN"}

BareCode(i, ref) ==
  IF Cardinality(Hits(i, ref.column)) > 1 THEN {"AMBIGUOUS_COLUMN"}
  ELSE IF Cardinality(Hits(i, ref.column)) = 1 \/ HasOpaque(i) \/ FoundAround(i, ref.column) THEN {}
  ELSE IF ref.column \in OwnOutputs(i) THEN IF ref.clause \in {"group", "order"} THEN {} ELSE {"ALIAS_MISUSE"}
  ELSE {"UNKNOWN_COLUMN"}

\* What bind_names reports of a reference, at most one violation.
Faults(i, ref) ==
  LET found == LookupAlias(i, ref.alias)
  IN  IF ref.alias = "" THEN {Report(code, "", ref) : code \in BareCode(i, ref)}
      ELSE IF found # {}
      THEN {Report("UNKNOWN_COLUMN", DisplayName(s), ref) :
              s \in {s \in found : ~Opaque(s) /\ ref.column \notin ColumnsOf(s)}}
      ELSE IF StructPlausible(i, ref.alias) THEN {}
      ELSE {Report("UNKNOWN_TABLE_ALIAS", "", ref)}

AllFaults == UNION {UNION {Faults(i, ref) : ref \in References(i)} : i \in DOMAIN tree}

\* Two violations with the same code, table and column are reported once; which
\* of their aliases the message names is a matter of order.
Key(v) == [v EXCEPT !.alias = ""]
ReportedOnce(found) ==
  {R \in SUBSET found : /\ \A v, w \in R : Key(v) = Key(w) => v = w
                        /\ \A v \in found : \E w \in R : Key(v) = Key(w)}

Named == {at \in UNION {{i} \X DOMAIN tree[i].sources : i \in DOMAIN tree} :
            tree[at[1]].sources[at[2]].name # ""}
SourceAt(at) == tree[at[1]].sources[at[2]]
TableAt(at) == Resolve(SourceAt(at).name, SourceAt(at).db)

UnknownTable(s) ==
  [code |-> "UNKNOWN_TABLE", db |-> s.db, table |-> s.name, column |-> "", alias |-> ""]
UnknownTables == {UnknownTable(SourceAt(at)) : at \in {at \in Named : TableAt(at) = {}}}

\* build_scope_maps and bind_names, in one turn of the caller's loop.
BindNames ==
  /\ pc = "validate"
  /\ bound' = [at \in Named |-> TableAt(at)]
  /\ \E R \in ReportedOnce(AllFaults) : violations' = UnknownTables \cup R
  /\ attempt' = attempt + 1
  /\ pc' = CASE violations' = {} -> "qualify"
             [] violations' # {} /\ attempt' < Attempts -> "repair"
             [] OTHER -> "gave_up"
  /\ UNCHANGED <<catalog, tree>>

-----------------------------------------------------------------------------
(* The caller, "which fixes exactly what was flagged".                      *)

Flagged(i) == {ref \in References(i) : Faults(i, ref) \cap violations # {}}
FlaggedSources == {at \in Named : UnknownTable(SourceAt(at)) \in violations}

\* A flagged reference is replaced by a column of a source that the hints of
\* the violation know, if there is any.
Repairs(i, ref) ==
  LET known == {s \in Sources(i) : ~Opaque(s)}
  IN  IF known = {} THEN {[ref EXCEPT !.alias = s.alias] : s \in Sources(i)}
      ELSE UNION {{[ref EXCEPT !.alias = s.alias, !.column = c] : c \in ColumnsOf(s)} : s \in known}

Fixed(fix, i, ref) == IF <<i, ref>> \in DOMAIN fix THEN fix[<<i, ref>>] ELSE ref
FixedItem(fix, i, item) ==
  LET ref == Fixed(fix, i, [alias |-> item.alias, column |-> item.column, clause |-> "list"])
  IN  [item EXCEPT !.alias = ref.alias, !.column = ref.column]
\* Mutant: the hint of an unknown table leaves out the schema.
FixedSourceByName(name, i, k) ==
  IF <<i, k>> \in DOMAIN name
  THEN [tree[i].sources[k] EXCEPT !.db = "", !.name = name[<<i, k>>].name] ELSE tree[i].sources[k]

FixedSource(name, i, k) ==
  IF <<i, k>> \in DOMAIN name
  THEN [tree[i].sources[k] EXCEPT !.db = name[<<i, k>>].schema, !.name = name[<<i, k>>].name]
  ELSE tree[i].sources[k]

RepairStatement ==
  /\ pc = "repair"
  /\ LET places == UNION {{i} \X Flagged(i) : i \in DOMAIN tree}
         repairs == [p \in places |-> Repairs(p[1], p[2])]
     IN  \E fix \in [places -> UNION {repairs[p] : p \in places}],
            name \in [FlaggedSources -> catalog.tables] :
           /\ \A p \in places : fix[p] \in repairs[p]
           /\ tree' = [i \in DOMAIN tree |->
                [tree[i] EXCEPT !.sources = [k \in DOMAIN @ |-> FixedSource(name, i, k)],
                                !.items = {FixedItem(fix, i, item) : item \in @},
                                !.refs = {Fixed(fix, i, ref) : ref \in @}]]
  /\ pc' = "validate"
  /\ UNCHANGED <<catalog, attempt, violations, bound>>

-----------------------------------------------------------------------------
(* Qualification.                                                           *)

\* Mutant: the default schema is written on every table.
WithDefault(s) == IF s.name # "" THEN [s EXCEPT !.db = catalog.default_schema] ELSE s

\* qualify() gives bare names the default schema.
WithDb(s) == IF s.name # "" /\ s.db = "" THEN [s EXCEPT !.db = catalog.default_schema] ELSE s

QualifyTree ==
  /\ pc = "qualify"
  /\ \/ /\ tree' = [i \in DOMAIN tree |->
             [tree[i] EXCEPT !.sources = [k \in DOMAIN @ |-> 
                IF has_schemas /\ catalog.default_schema # "" THEN WithDb(@[k]) ELSE @[k]]]]
        /\ pc' = "returned"
     \/ pc' = "not_qualified" /\ UNCHANGED tree   \* SEMANTIC_ERROR
  /\ UNCHANGED <<catalog, attempt, violations, bound>>

Next == Construct \/ BindNames \/ RepairStatement \/ QualifyTree

Spec == Init /\ [][Next]_vars
FairSpec == Spec /\ WF_vars(Next)

-----------------------------------------------------------------------------
(* The database.                                                            *)

\* The select whose sources are seen next: a derived table does not see the
\* sources beside it, but those around the select it is in.
SeenNext(i) ==
  LET next[j \in DOMAIN tree] == IF tree[j].kind = "root" THEN 0
                                 ELSE IF tree[j].kind = "subquery" THEN tree[j].within
                                 ELSE next[tree[j].within]
  IN  next[i]

\* The sources a name stands for: those of the innermost select that has any.
Meant(i, having) ==
  LET meant[j \in DOMAIN tree] ==
        IF having[j] # {} THEN having[j] ELSE IF SeenNext(j) = 0 THEN {} ELSE meant[SeenNext(j)]
  IN  meant[i]

\* ORDER BY looks at the outputs first, GROUP BY last.
IsOutput(i, ref) ==
  \/ ref.clause = "order" /\ ref.column \in Outputs(i)
  \/ ref.clause = "group" /\ ref.column \in OwnOutputs(i) /\ Hits(i, ref.column) = {}

Resolves(i, ref) ==
  IF ref.alias = ""
  THEN LET has == [j \in DOMAIN tree |-> Hits(j, ref.column)] IN IsOutput(i, ref) \/ Cardinality(Meant(i, has)) = 1
  ELSE LET has == [j \in DOMAIN tree |-> Aliased(j, ref.alias)] IN \E s \in Meant(i, has) : ref.column \in ColumnsOf(s)

-----------------------------------------------------------------------------

Codes == {"UNKNOWN_TABLE", "UNKNOWN_TABLE_ALIAS", "UNKNOWN_COLUMN", "AMBIGUOUS_COLUMN", "ALIAS_MISUSE"}

TypeOK ==
  /\ catalog \in CatalogSpec
  /\ pc \notin {"construct", "refused"} => ~Duplicates(catalog.tables)
  /\ tree \in Seq(Select)
  /\ pc \in {"construct", "refused", "validate", "repair", "gave_up", "qualify", "returned", "not_qualified"}
  /\ attempt \in 0..Attempts
  /\ violations \subseteq [code : Codes, db : Schemas \cup {""}, column : Columns \cup {""},
                           table : TableNames \cup Aliases \cup {""}, alias : Aliases \cup {""}]
  /\ \A at \in DOMAIN bound : at \in Named /\ bound[at] \subseteq catalog.tables /\ Cardinality(bound[at]) <= 1

Bound == pc \in {"repair", "gave_up", "qualify"}

\* The selects a name in select i may be looked for in.
Reach(i) ==
  LET reach[j \in DOMAIN tree] == {j} \cup (IF SeenNext(j) = 0 THEN {} ELSE reach[SeenNext(j)])
  IN  reach[i]

\* All columns that matter for the reference are known.
Provable(i, ref) ==
  /\ \A j \in Reach(i) : ~HasOpaque(j)
  /\ ref.alias # "" => ~StructPlausible(i, ref.alias)

\* A name the database cannot resolve is reported, in the first answer that is
\* given about it, by a violation that names its column (semantics.py:275-439):
\* neither the lookup around subqueries, nor output aliases, nor reporting each
\* key once lets a statement with an unknown name through.  That a name is
\* ambiguous among outer sources is left for qualify() to find.
FaultsAreReported ==
  Bound => \A i \in DOMAIN tree : \A ref \in References(i) :
    LET has == [j \in DOMAIN tree |-> Hits(j, ref.column)]
    IN  Provable(i, ref) /\ ~Resolves(i, ref) =>
          \/ \E v \in violations : v.column = ref.column
          \/ ref.alias = "" /\ Hits(i, ref.column) = {} /\ Cardinality(Meant(i, has)) > 1

\* No select a reference may reach is hidden from bind_names by a derived table.
PlainReach(i) == \A j \in Reach(i) : tree[j].kind # "derived" \/ SeenNext(j) = 0

\* An ORDER BY of an output, which bind_names looks for among the columns first.
OrdersByOutput(i, ref) == ref.alias = "" /\ ref.clause = "order" /\ ref.column \in Outputs(i)

\* A name that bind_names finds nowhere, below a derived table that may use the
\* sources around a subquery.
HiddenByDerived(i, ref) ==
  /\ ~PlainReach(i)
  /\ IF ref.alias = "" THEN Hits(i, ref.column) = {} ELSE LookupAlias(i, ref.alias) = {}

\* What is reported is a fault: the caller is not sent to repair a statement
\* that a database would run, except for an ORDER BY that names an output and
\* for a name found nowhere that a derived table in a subquery separates from
\* sources around it (semantics.py:275-439).
ReportedIsFault ==
  Bound => \A v \in violations : v.code # "UNKNOWN_TABLE" =>
    \E i \in DOMAIN tree : \E ref \in References(i) :
      /\ v \in Faults(i, ref)
      /\ ~OrdersByOutput(i, ref) /\ ~HiddenByDerived(i, ref) => ~Resolves(i, ref)

\* examples/self_repair_loop.py:75-90: a caller that repairs what is flagged,
\* in any way the hints allow, has a statement bound within its attempts:
\* unknown tables hide unknown columns, and repairing an inner select changes
\* the names the outer ones read.
RepairConverges == <>(pc \in {"refused", "returned", "not_qualified"})

\* The tables the returned statement names are those bind_names bound, for the
\* checks that resolve them again and for the database.
ReturnedNamesBoundTables == pc = "returned" => \A at \in Named : TableAt(at) = bound[at]

DefaultHolds ==
  catalog.default_schema # "" =>
    \A at \in Named : \A t \in bound[at] : by_key(catalog.default_schema, t.name) # {}

\* The same for tables whose name the default schema has too, or without one:
\* the schema that qualify() writes is the one resolve() had chosen
\* (catalog.py:337-348; semantics.py:479-480).
DefaultNamesBoundTables == pc = "returned" /\ DefaultHolds => ReturnedNamesBoundTables
=============================================================================
