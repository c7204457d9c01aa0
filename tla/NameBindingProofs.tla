-------------------------- MODULE NameBindingProofs --------------------------
(* Theorems about what is reported of a statement's names and about the     *)
(* tables an accepted one is bound to, for any catalog, any statement and   *)
(* any number of repairs.                                                   *)
EXTENDS NameBinding, DataInduction

-----------------------------------------------------------------------------
(* A repaired statement is a statement.                                     *)

LEMMA ResolveFound ==
  ASSUME NEW name, NEW db PROVE Resolve(name, db) \subseteq by_name(name)
BY DEF Resolve, by_key, Sole

LEMMA SourceTyped ==
  ASSUME tree \in Seq(Select), NEW i \in DOMAIN tree
  PROVE  /\ tree[i] \in Select /\ tree[i].sources \in Seq(Source)
         /\ tree[i].items \subseteq Item /\ tree[i].refs \subseteq Reference
         /\ Sources(i) \subseteq Source
<1>1. tree[i] \in Select
  OBVIOUS
<1>2. tree[i].sources \in Seq(Source) /\ tree[i].items \subseteq Item /\ tree[i].refs \subseteq Reference
  BY <1>1 DEF Select
<1> QED BY <1>1, <1>2 DEF Sources

LEMMA ReferencesTyped ==
  ASSUME tree \in Seq(Select), NEW i \in DOMAIN tree PROVE References(i) \subseteq Reference
<1>1. tree[i].items \subseteq Item /\ tree[i].refs \subseteq Reference
  BY SourceTyped
<1>2. \A item \in Item : [alias |-> item.alias, column |-> item.column, clause |-> "list"] \in Reference
  BY DEF Item, Reference
<1> QED BY <1>1, <1>2 DEF References

\* A derived table has outputs of its select, another source the columns of a
\* table.
LEMMA ColumnsTyped ==
  ASSUME tree \in Seq(Select), catalog \in CatalogSpec, NEW s,
         s.scope # 0 => s.scope \in DOMAIN tree
  PROVE  ColumnsOf(s) \subseteq Columns
<1>1. CASE s.scope = 0
  <2>1. Resolve(s.name, s.db) \subseteq catalog.tables
    BY ResolveFound DEF by_name
  <2>2. \A t \in catalog.tables : t.columns \subseteq Columns
    BY DEF CatalogSpec, Table
  <2> QED BY <1>1, <2>1, <2>2 DEF ColumnsOf
<1>2. CASE s.scope # 0
  <2>1. tree[s.scope].items \subseteq Item
    BY <1>2, SourceTyped
  <2>2. Outputs(s.scope) \subseteq Columns
    BY <2>1 DEF Outputs, OutputName, Item
  <2> QED BY <1>2, <2>2 DEF ColumnsOf
<1> QED BY <1>1, <1>2

\* Derived tables are selects of the statement.
ScopesExist ==
  \A i \in DOMAIN tree : \A k \in DOMAIN tree[i].sources :
    tree[i].sources[k].scope # 0 => tree[i].sources[k].scope \in DOMAIN tree

Typed == catalog \in CatalogSpec /\ tree \in Seq(Select) /\ ScopesExist

LEMMA RepairsTyped ==
  ASSUME Typed, NEW i \in DOMAIN tree, NEW ref \in Reference
  PROVE  Repairs(i, ref) \subseteq Reference
<1>1. Sources(i) \subseteq Source /\ \A s \in Sources(i) : s.scope # 0 => s.scope \in DOMAIN tree
  BY SourceTyped DEF Typed, ScopesExist, Sources
<1>2. \A s \in Sources(i) : ColumnsOf(s) \subseteq Columns /\ s.alias \in Aliases
  BY <1>1, ColumnsTyped DEF Typed, Source
<1>3. ASSUME NEW s \in Sources(i) PROVE [ref EXCEPT !.alias = s.alias] \in Reference
  <2>1. s.alias \in Aliases
    BY <1>2
  <2> QED BY <2>1 DEF Reference
<1>4. ASSUME NEW s \in Sources(i), NEW c \in ColumnsOf(s)
      PROVE  [ref EXCEPT !.alias = s.alias, !.column = c] \in Reference
  <2>1. s.alias \in Aliases /\ c \in Columns
    BY <1>2
  <2> QED BY <2>1 DEF Reference
<1> SUFFICES ASSUME NEW r \in Repairs(i, ref) PROVE r \in Reference
  OBVIOUS
<1>5. \/ \E s \in Sources(i) : r = [ref EXCEPT !.alias = s.alias]
      \/ \E s \in Sources(i) : \E c \in ColumnsOf(s) : r = [ref EXCEPT !.alias = s.alias, !.column = c]
  <2> DEFINE known == {s \in Sources(i) : ~Opaque(s)}
  <2>1. CASE known = {}
    <3>1. r \in {[ref EXCEPT !.alias = s.alias] : s \in Sources(i)}
      BY <2>1 DEF Repairs
    <3> QED BY <3>1
  <2>2. CASE known # {}
    <3>1. r \in UNION {{[ref EXCEPT !.alias = s.alias, !.column = c] : c \in ColumnsOf(s)} : s \in known}
      BY <2>2 DEF Repairs
    <3>2. PICK s \in known : r \in {[ref EXCEPT !.alias = s.alias, !.column = c] : c \in ColumnsOf(s)}
      BY <3>1, Zenon
    <3> QED BY <3>2
  <2> QED BY <2>1, <2>2
<1> QED BY <1>3, <1>4, <1>5

\* What repairs and qualification leave of a statement.
SameShape(t, u) ==
  /\ DOMAIN u = DOMAIN t
  /\ \A i \in DOMAIN t :
       /\ u[i].kind = t[i].kind /\ u[i].within = t[i].within
       /\ DOMAIN u[i].sources = DOMAIN t[i].sources
       /\ \A k \in DOMAIN t[i].sources : /\ u[i].sources[k].alias = t[i].sources[k].alias
                                        /\ u[i].sources[k].scope = t[i].sources[k].scope

LEMMA RepairTyped ==
  ASSUME Typed, RepairStatement PROVE Typed' /\ SameShape(tree, tree') /\ Named' = Named
<1> DEFINE places == UNION {{i} \X Flagged(i) : i \in DOMAIN tree}
           repairs == [p \in places |-> Repairs(p[1], p[2])]
           new(fix, name) == [i \in DOMAIN tree |->
                [tree[i] EXCEPT !.sources = [k \in DOMAIN @ |-> FixedSource(name, i, k)],
                                !.items = {FixedItem(fix, i, item) : item \in @},
                                !.refs = {Fixed(fix, i, ref) : ref \in @}]]
<1>1. PICK fix \in [places -> UNION {repairs[p] : p \in places}], name \in [FlaggedSources -> catalog.tables] :
        /\ \A p \in places : fix[p] \in repairs[p]
        /\ tree' = new(fix, name)
  BY DEF RepairStatement
<1>2. \A p \in places : fix[p] \in Reference
  <2> SUFFICES ASSUME NEW p \in places PROVE fix[p] \in Reference
    OBVIOUS
  <2>1. p[1] \in DOMAIN tree /\ p[2] \in References(p[1])
    BY DEF Flagged
  <2>2. p[2] \in Reference
    BY <2>1, ReferencesTyped DEF Typed
  <2>3. fix[p] \in Repairs(p[1], p[2])
    BY <1>1
  <2> QED BY <2>1, <2>2, <2>3, RepairsTyped
<1>3. ASSUME NEW i \in DOMAIN tree, NEW ref \in Reference PROVE Fixed(fix, i, ref) \in Reference
  BY <1>1, <1>2 DEF Fixed
<1>4. ASSUME NEW i \in DOMAIN tree, NEW item \in Item PROVE FixedItem(fix, i, item) \in Item
  <2>1. [alias |-> item.alias, column |-> item.column, clause |-> "list"] \in Reference
    BY DEF Item, Reference
  <2>2. Fixed(fix, i, [alias |-> item.alias, column |-> item.column, clause |-> "list"]) \in Reference
    BY <1>3, <2>1
  <2> QED BY <2>2 DEF FixedItem, Item, Reference
<1>5. ASSUME NEW i \in DOMAIN tree, NEW k \in DOMAIN tree[i].sources
      PROVE  /\ FixedSource(name, i, k) \in Source
             /\ FixedSource(name, i, k).scope = tree[i].sources[k].scope
             /\ FixedSource(name, i, k).alias = tree[i].sources[k].alias
             /\ FixedSource(name, i, k).name # "" <=> tree[i].sources[k].name # ""
  <2>1. tree[i].sources[k] \in Source
    BY SourceTyped DEF Typed
  <2>2. <<i, k>> \in DOMAIN name => name[<<i, k>>] \in Table
    BY <1>1 DEF Typed, CatalogSpec
  <2>3. <<i, k>> \in DOMAIN name => tree[i].sources[k].name # ""
    <3> SUFFICES ASSUME <<i, k>> \in FlaggedSources PROVE tree[i].sources[k].name # ""
      BY <1>1
    <3> DEFINE at == <<i, k>>
    <3>1. at[1] = i /\ at[2] = k /\ at \in Named
      BY DEF FlaggedSources
    <3> HIDE DEF at
    <3> QED BY <3>1 DEF Named
  <2> QED BY <2>1, <2>2, <2>3, NamesAssumption DEF FixedSource, Source, Table
<1>6. ASSUME NEW i \in DOMAIN tree
      PROVE  /\ new(fix, name)[i] \in Select
             /\ new(fix, name)[i].sources = [k \in DOMAIN tree[i].sources |-> FixedSource(name, i, k)]
             /\ new(fix, name)[i].kind = tree[i].kind /\ new(fix, name)[i].within = tree[i].within
  <2>1. tree[i] \in Select /\ tree[i].items \subseteq Item /\ tree[i].refs \subseteq Reference
          /\ tree[i].sources \in Seq(Source)
    BY SourceTyped DEF Typed
  <2>2. [k \in DOMAIN tree[i].sources |-> FixedSource(name, i, k)] \in Seq(Source)
    <3>1. \A k \in DOMAIN tree[i].sources : FixedSource(name, i, k) \in Source
      BY <1>5
    <3> QED BY <2>1, <3>1
  <2>3. /\ {FixedItem(fix, i, item) : item \in tree[i].items} \subseteq Item
        /\ {Fixed(fix, i, ref) : ref \in tree[i].refs} \subseteq Reference
    BY <1>3, <1>4, <2>1
  <2> QED BY <2>1, <2>2, <2>3 DEF Select
<1> HIDE DEF new
<1>7. DOMAIN new(fix, name) = DOMAIN tree
  BY DEF new
<1>8. new(fix, name) \in Seq(Select)
  <2>1. DOMAIN tree = 1..Len(tree) /\ Len(tree) \in Nat
    BY DEF Typed
  <2>2. new(fix, name) \in [1..Len(tree) -> Select]
    BY <1>6, <2>1 DEF new
  <2> QED BY <2>1, <2>2
<1>9. ScopesExist'
  <2>1. /\ DOMAIN tree' = DOMAIN tree
        /\ \A i \in DOMAIN tree : tree'[i].sources = [k \in DOMAIN tree[i].sources |-> FixedSource(name, i, k)]
    BY <1>1, <1>6, <1>7
  <2>2. ASSUME NEW i \in DOMAIN tree, NEW k \in DOMAIN tree[i].sources
        PROVE  tree'[i].sources[k].scope = tree[i].sources[k].scope
    BY <1>5, <2>1
  <2> QED BY <2>1, <2>2 DEF Typed, ScopesExist
<1>10. SameShape(tree, tree')
  BY <1>1, <1>5, <1>6, <1>7 DEF SameShape
<1>11. Named' = Named
  <2>1. /\ DOMAIN tree' = DOMAIN tree
        /\ \A i \in DOMAIN tree : tree'[i].sources = [k \in DOMAIN tree[i].sources |-> FixedSource(name, i, k)]
    BY <1>1, <1>6, <1>7
  <2>2. UNION {{i} \X DOMAIN tree'[i].sources : i \in DOMAIN tree'} = UNION {{i} \X DOMAIN tree[i].sources : i \in DOMAIN tree}
    BY <2>1
  <2>3. \A at \in UNION {{i} \X DOMAIN tree[i].sources : i \in DOMAIN tree} :
          at[1] \in DOMAIN tree /\ at[2] \in DOMAIN tree[at[1]].sources
    OBVIOUS
  <2>4. \A i \in DOMAIN tree : \A k \in DOMAIN tree[i].sources :
          tree'[i].sources[k].name # "" <=> tree[i].sources[k].name # ""
    <3> SUFFICES ASSUME NEW i \in DOMAIN tree, NEW k \in DOMAIN tree[i].sources
                 PROVE  tree'[i].sources[k].name # "" <=> tree[i].sources[k].name # ""
      OBVIOUS
    <3>1. tree'[i].sources[k] = FixedSource(name, i, k)
      BY <2>1
    <3> QED BY <1>5, <3>1
  <2> QED BY <2>2, <2>3, <2>4 DEF Named
<1> QED BY <1>1, <1>8, <1>9, <1>10, <1>11 DEF Typed, RepairStatement

LEMMA TypedInit == Init => Typed
<1> SUFFICES ASSUME Init PROVE Typed
  OBVIOUS
<1>1. catalog \in CatalogSpec /\ Statement(tree)
  BY RequestsAssumption DEF Init
<1>2. ASSUME NEW i \in DOMAIN tree, NEW k \in DOMAIN tree[i].sources, tree[i].sources[k].scope # 0
      PROVE  tree[i].sources[k].scope \in DOMAIN tree
  <2>1. tree \in Seq(Select) /\ tree[i].sources[k].scope < i
    BY <1>1, <1>2 DEF Statement
  <2>2. tree[i].sources \in Seq(Source)
    BY <2>1, SourceTyped
  <2>3. tree[i].sources[k] \in Source
    BY <2>2
  <2>4. tree[i].sources[k].scope \in Nat
    BY <2>3 DEF Source
  <2> QED BY <1>2, <2>1, <2>4
<1> QED BY <1>1, <1>2 DEF Typed, ScopesExist, Statement

LEMMA ConstructTyped == ASSUME Typed, Construct PROVE Typed'
<1>1. tree' = tree /\ (catalog' = catalog \/ catalog' = [catalog EXCEPT !.tables = Filled(catalog)])
  BY DEF Construct
<1>2. Filled(catalog) \subseteq Table
  <2>1. catalog.tables \subseteq Table /\ catalog.default_schema \in Schemas \cup {""}
    BY DEF Typed, CatalogSpec
  <2>2. ASSUME NEW t \in Table
        PROVE  [t EXCEPT !.schema = IF @ = "" THEN catalog.default_schema ELSE @] \in Table
    BY <2>1 DEF Table
  <2> QED BY <2>1, <2>2 DEF Filled
<1>3. catalog' \in CatalogSpec
  BY <1>1, <1>2 DEF Typed, CatalogSpec
<1> QED BY <1>1, <1>3 DEF Typed, ScopesExist

-----------------------------------------------------------------------------
(* Qualification.                                                           *)

Qualified(s) == IF has_schemas /\ catalog.default_schema # "" THEN WithDb(s) ELSE s

\* Only the schemas of names change.
LEMMA QualifyKeepsNames ==
  ASSUME Typed, QualifyTree, pc' = "returned"
  PROVE  /\ Typed' /\ Named' = Named /\ SameShape(tree, tree')
         /\ \A at \in Named : SourceAt(at)' = Qualified(SourceAt(at)) /\ SourceAt(at) \in Source
<1> DEFINE new == [i \in DOMAIN tree |->
             [tree[i] EXCEPT !.sources = [k \in DOMAIN @ |->
                IF has_schemas /\ catalog.default_schema # "" THEN WithDb(@[k]) ELSE @[k]]]]
<1>1. tree' = new /\ catalog' = catalog
  BY DEF QualifyTree
<1>2. ASSUME NEW i \in DOMAIN tree
      PROVE  /\ new[i].sources = [k \in DOMAIN tree[i].sources |-> Qualified(tree[i].sources[k])]
             /\ new[i] \in Select /\ new[i].kind = tree[i].kind /\ new[i].within = tree[i].within
  <2>1. tree[i] \in Select /\ tree[i].sources \in Seq(Source)
    BY SourceTyped DEF Typed
  <2>2. new[i] = [tree[i] EXCEPT !.sources = [k \in DOMAIN tree[i].sources |-> Qualified(tree[i].sources[k])]]
    BY DEF Qualified
  <2>3. ASSUME NEW s \in Source PROVE Qualified(s) \in Source
    BY DEF Qualified, WithDb, Source, Typed, CatalogSpec
  <2>4. [k \in DOMAIN tree[i].sources |-> Qualified(tree[i].sources[k])] \in Seq(Source)
    BY <2>1, <2>3
  <2> HIDE DEF new
  <2> QED BY <2>1, <2>2, <2>4 DEF Select
<1>3. DOMAIN new = DOMAIN tree /\ new \in Seq(Select)
  <2>1. DOMAIN tree = 1..Len(tree) /\ Len(tree) \in Nat
    BY DEF Typed
  <2>2. DOMAIN new = DOMAIN tree
    OBVIOUS
  <2>3. new \in [1..Len(tree) -> Select]
    BY <1>2, <2>1
  <2> HIDE DEF new
  <2> QED BY <2>1, <2>2, <2>3
<1> HIDE DEF new
<1>4. ASSUME NEW i \in DOMAIN tree, NEW k \in DOMAIN tree[i].sources
      PROVE  /\ tree'[i].sources[k] = Qualified(tree[i].sources[k])
             /\ tree[i].sources[k] \in Source
             /\ tree'[i].sources[k].name = tree[i].sources[k].name
             /\ tree'[i].sources[k].scope = tree[i].sources[k].scope
             /\ tree'[i].sources[k].alias = tree[i].sources[k].alias
  <2>1. tree[i].sources[k] \in Source
    BY SourceTyped DEF Typed
  <2>2. tree'[i].sources[k] = Qualified(tree[i].sources[k])
    BY <1>1, <1>2
  <2> QED BY <2>1, <2>2 DEF Qualified, WithDb, Source
<1>5. \A i \in DOMAIN tree : DOMAIN tree'[i].sources = DOMAIN tree[i].sources
  BY <1>1, <1>2
<1>6. UNION {{i} \X DOMAIN tree'[i].sources : i \in DOMAIN tree'} = UNION {{i} \X DOMAIN tree[i].sources : i \in DOMAIN tree}
  BY <1>1, <1>3, <1>5
<1>7. \A at \in UNION {{i} \X DOMAIN tree[i].sources : i \in DOMAIN tree} :
        at[1] \in DOMAIN tree /\ at[2] \in DOMAIN tree[at[1]].sources
  OBVIOUS
<1>8. Named' = Named
  BY <1>4, <1>6, <1>7 DEF Named
<1>9. \A at \in Named : SourceAt(at)' = Qualified(SourceAt(at)) /\ SourceAt(at) \in Source
  BY <1>4, <1>7 DEF Named, SourceAt
<1>10. Typed'
  BY <1>1, <1>3, <1>4, <1>5 DEF Typed, ScopesExist
<1>11. SameShape(tree, tree')
  BY <1>1, <1>2, <1>3, <1>4, <1>5 DEF SameShape
<1> QED BY <1>8, <1>9, <1>10, <1>11

\* A table is bound to each name of a statement on its way to qualification.
Found ==
  /\ Typed
  /\ pc = "qualify" => \A at \in Named : bound[at] = TableAt(at) /\ TableAt(at) # {}
  /\ DefaultNamesBoundTables

LEMMA SameTables ==
  ASSUME UNCHANGED <<catalog, tree>>
  PROVE  /\ Typed => Typed'
         /\ Named' = Named /\ \A at : TableAt(at)' = TableAt(at)
         /\ \A schema, name : by_key(schema, name)' = by_key(schema, name)
<1>1. \A schema, name : by_key(schema, name)' = by_key(schema, name)
  BY DEF by_key, by_name
<1>2. \A name, db : Resolve(name, db)' = Resolve(name, db)
  BY <1>1 DEF Resolve, Sole, by_name, has_schemas
<1> QED BY <1>1, <1>2 DEF Typed, ScopesExist, Named, TableAt, SourceAt

LEMMA BindFinds == ASSUME Found, BindNames PROVE Found'
<1>1. UNCHANGED <<catalog, tree>> /\ bound' = [at \in Named |-> TableAt(at)] /\ pc' \in {"qualify", "repair", "gave_up"}
  BY DEF BindNames
<1>2. ASSUME pc' = "qualify", NEW at \in Named PROVE TableAt(at) # {}
  <2>1. violations' = {} /\ UnknownTables \subseteq violations'
    BY <1>2 DEF BindNames
  <2> QED BY <2>1 DEF UnknownTables
<1>3. Typed' /\ Named' = Named /\ \A at : TableAt(at)' = TableAt(at)
  BY <1>1, SameTables DEF Found
<1>4. pc' # "returned"
  BY <1>1
<1>5. DefaultNamesBoundTables'
  BY <1>4 DEF DefaultNamesBoundTables
<1>6. pc' = "qualify" => \A at \in Named : bound'[at] = TableAt(at) /\ TableAt(at) # {}
  BY <1>1, <1>2
<1> QED BY <1>3, <1>5, <1>6 DEF Found

LEMMA QualifyFinds == ASSUME Found, QualifyTree PROVE Found'
<1>1. CASE pc' = "not_qualified"
  BY <1>1 DEF QualifyTree, Found, Typed, ScopesExist, DefaultNamesBoundTables
<1>2. CASE pc' = "returned"
  <2>1. Typed' /\ Named' = Named /\ catalog' = catalog /\ bound' = bound /\ pc = "qualify"
    BY <1>2, QualifyKeepsNames DEF Found, QualifyTree
  <2>2. ASSUME DefaultHolds', NEW at \in Named PROVE TableAt(at)' = bound[at]
    <3> DEFINE s == SourceAt(at)
               default == catalog.default_schema
    <3>1. SourceAt(at)' = Qualified(s) /\ s \in Source /\ s.name # ""
      BY <1>2, QualifyKeepsNames DEF Found, Named, SourceAt
    <3>2. bound[at] = Resolve(s.name, s.db) /\ bound[at] # {}
      BY <2>1 DEF Found, TableAt
    <3>3. TableAt(at)' = Resolve(Qualified(s).name, Qualified(s).db)
      BY <2>1, <3>1 DEF TableAt, Resolve, by_key, by_name, Sole, has_schemas
    <3>4. CASE Qualified(s) = s
      BY <3>2, <3>3, <3>4
    <3>5. CASE has_schemas /\ default # "" /\ s.db = ""
      <4>1. Qualified(s).name = s.name /\ Qualified(s).db = default
        BY <3>1, <3>5 DEF Qualified, WithDb, Source
      <4>2. by_key(default, s.name) # {}
        <5>1. PICK t \in bound[at] : t.name = s.name
          BY <3>2, ResolveFound DEF by_name
        <5>2. by_key(default, t.name)' # {}
          BY <2>1, <2>2, <3>5, <5>1 DEF DefaultHolds
        <5> QED BY <2>1, <5>1, <5>2 DEF by_key, by_name
      <4> QED BY <3>2, <3>3, <3>5, <4>1, <4>2 DEF Resolve
    <3> QED BY <3>4, <3>5 DEF Qualified, WithDb
  <2> QED BY <1>2, <2>1, <2>2 DEF Found, DefaultNamesBoundTables, ReturnedNamesBoundTables
<1> QED BY <1>1, <1>2 DEF QualifyTree

LEMMA FoundStep == Found /\ [Next]_vars => Found'
<1> SUFFICES ASSUME Found, [Next]_vars PROVE Found'
  OBVIOUS
<1>1. CASE Construct
  <2>1. Typed' /\ pc' \in {"refused", "validate"}
    BY <1>1, ConstructTyped DEF Found, Construct
  <2> QED BY <2>1 DEF Found, DefaultNamesBoundTables
<1>2. CASE BindNames
  BY <1>2, BindFinds
<1>3. CASE RepairStatement
  <2>1. Typed' /\ pc' = "validate"
    BY <1>3, RepairTyped DEF Found, RepairStatement
  <2> QED BY <2>1 DEF Found, DefaultNamesBoundTables
<1>4. CASE QualifyTree
  BY <1>4, QualifyFinds
<1>5. CASE UNCHANGED vars
  <2>1. UNCHANGED <<catalog, tree, pc, bound>>
    BY <1>5 DEF vars
  <2>2. /\ Typed' /\ Named' = Named /\ \A at : TableAt(at)' = TableAt(at)
        /\ \A schema, name : by_key(schema, name)' = by_key(schema, name)
    BY <2>1, SameTables DEF Found
  <2>3. DefaultNamesBoundTables'
    BY <2>1, <2>2 DEF Found, DefaultNamesBoundTables, ReturnedNamesBoundTables, DefaultHolds
  <2> QED BY <2>1, <2>2, <2>3 DEF Found
<1> QED BY <1>1, <1>2, <1>3, <1>4, <1>5 DEF Next

\* The tables that were checked are the tables that are read, when the default
\* schema has the names it is written on.
THEOREM DefaultAlwaysNamesBoundTables == Spec => []DefaultNamesBoundTables
<1>1. Init => Found
  BY TypedInit DEF Init, Found, DefaultNamesBoundTables
<1>2. Found => DefaultNamesBoundTables
  BY DEF Found
<1> QED BY <1>1, <1>2, FoundStep, PTL DEF Spec
-----------------------------------------------------------------------------
(* Looking around.  Every lookup climbs from a select to one it is written  *)
(* in, whose place in the statement is later, until it stops: it exists.    *)

\* What a climb makes of a place: "stop" has the places where it ends.
Climbs(f, N, stop, base, step, up) ==
  f = [j \in 1..N |-> IF j \in stop THEN base[j] ELSE step[j][f[up[j]]]]

LEMMA ClimbExists ==
  ASSUME NEW N \in Nat, NEW V, V # {}, NEW stop, NEW base, NEW step, NEW up,
         \A j \in 1..N : j \in stop => base[j] \in V,
         \A j \in 1..N : j \notin stop => up[j] \in 1..N /\ j < up[j],
         \A j \in 1..N : \A v \in V : step[j][v] \in V
  PROVE  \E f \in [1..N -> V] : Climbs(f, N, stop, base, step, up)
<1> DEFINE D == 1..N
           next(f, j) == IF j \in stop THEN base[j] ELSE step[j][f[up[j]]]
           G == [f \in FunctionsOn(D, V) |-> [j \in D |-> next(f, j)]]
           rank == [j \in D |-> N - j]
<1>1. \A j \in D : rank[j] \in 0..N
  OBVIOUS
<1>2. \A f \in [D -> V] : \A j \in D : next(f, j) \in V
  <2> SUFFICES ASSUME NEW f \in [D -> V], NEW j \in D PROVE next(f, j) \in V
    OBVIOUS
  <2>1. CASE j \in stop
    BY <2>1
  <2>2. CASE j \notin stop
    <3>1. f[up[j]] \in V
      BY <2>2
    <3> QED BY <2>2, <3>1
  <2> QED BY <2>1, <2>2
<1>3. G \in [FunctionsOn(D, V) -> FunctionsOn(D, V)]
  <2> HIDE DEF D, next
  <2> QED BY <1>2 DEF FunctionsOn
<1>4. LowerDecide(G, D, V, rank)
  <2>0. \A f \in [D -> V] : \A j \in D : G[f][j] = next(f, j)
    <3> HIDE DEF D, next
    <3> QED BY DEF FunctionsOn
  <2> SUFFICES ASSUME NEW f \in [D -> V], NEW g \in [D -> V], NEW j \in D,
                      \A i \in D : rank[i] < rank[j] => f[i] = g[i]
               PROVE  next(f, j) = next(g, j)
    <3> HIDE DEF G, D, next, rank
    <3> QED BY <2>0 DEF LowerDecide
  <2>1. CASE j \in stop
    BY <2>1
  <2>2. CASE j \notin stop
    <3>1. up[j] \in D /\ j < up[j] /\ up[j] \in Nat /\ j \in Nat
      BY <2>2
    <3>2. rank[up[j]] < rank[j]
      BY <3>1
    <3>3. f[up[j]] = g[up[j]]
      BY <3>1, <3>2
    <3> QED BY <3>3
  <2> QED BY <2>1, <2>2
<1>5. PICK f \in [D -> V] : G[f] = f
  <2> HIDE DEF D, G, rank
  <2> QED BY <1>1, <1>3, <1>4, RankedFixpointExists
<1>6. f = [j \in D |-> next(f, j)]
  <2>1. f \in FunctionsOn(D, V)
    BY <1>5 DEF FunctionsOn
  <2> HIDE DEF D, next
  <2> QED BY <1>5, <2>1
<1> QED BY <1>6 DEF Climbs

\* What is true where a climb stops, and below a place where it is true, is
\* true everywhere.
LEMMA ByClimbing ==
  ASSUME NEW N \in Nat, NEW S, \A i \in 1..N : (\A j \in 1..N : i < j => j \in S) => i \in S
  PROVE  1..N \subseteq S
<1> DEFINE D == 1..N
           rank == [i \in D |-> N - i]
<1>1. \A i \in D : rank[i] \in Nat
  OBVIOUS
<1>2. ASSUME NEW i \in D, \A j \in D : rank[j] < rank[i] => j \in S PROVE i \in S
  <2>1. \A j \in D : i < j => rank[j] < rank[i]
    OBVIOUS
  <2> HIDE DEF rank
  <2> QED BY <1>2, <2>1
<1> HIDE DEF rank, D
<1>3. \A i \in D : (\A j \in D : rank[j] < rank[i] => j \in S) => i \in S
  BY <1>2
<1>4. D \subseteq S
  BY <1>1, <1>3, AllByRank
<1> QED BY <1>4 DEF D

\* The statement's selects are written in one another.
Shaped ==
  \A i \in DOMAIN tree :
    /\ tree[i].kind = "root" <=> i = Len(tree)
    /\ i # Len(tree) => tree[i].within \in (i + 1)..Len(tree)
    /\ \A k, l \in DOMAIN tree[i].sources : tree[i].sources[k].alias = tree[i].sources[l].alias => k = l

LEMMA ShapeKept ==
  ASSUME Shaped, Typed, Typed', SameShape(tree, tree') PROVE Shaped'
<1>1. Len(tree') = Len(tree)
  <2>1. tree \in Seq(Select) /\ tree' \in Seq(Select) /\ DOMAIN tree' = DOMAIN tree
    BY DEF Typed, SameShape
  <2> QED BY <2>1
<1> QED BY <1>1 DEF Shaped, SameShape

LEMMA KindIs ==
  ASSUME Typed, Shaped, NEW i \in DOMAIN tree
  PROVE  /\ Len(tree) \in Nat /\ DOMAIN tree = 1..Len(tree)
         /\ tree[i].kind \in {"root", "subquery", "derived"}
         /\ tree[i].kind # "root" => tree[i].within \in DOMAIN tree /\ i < tree[i].within
<1>1. tree \in Seq(Select)
  BY DEF Typed
<1>2. tree[i] \in Select /\ Len(tree) \in Nat /\ DOMAIN tree = 1..Len(tree)
  BY <1>1
<1>3. tree[i].kind \in {"root", "subquery", "derived"}
  BY <1>2 DEF Select
<1>4. ASSUME tree[i].kind # "root" PROVE tree[i].within \in DOMAIN tree /\ i < tree[i].within
  <2>1. tree[i].within \in (i + 1)..Len(tree)
    BY <1>4 DEF Shaped
  <2> QED BY <1>2, <2>1
<1> QED BY <1>2, <1>3, <1>4

LEMMA LookupAliasIs ==
  ASSUME Typed, Shaped, NEW alias, NEW i \in DOMAIN tree
  PROVE  LookupAlias(i, alias) =
           IF Aliased(i, alias) # {} \/ ~can_correlate(i) THEN Aliased(i, alias)
           ELSE LookupAlias(tree[i].within, alias)
<1> DEFINE N == Len(tree)
           V == {Aliased(j, alias) : j \in DOMAIN tree}
           stop == {j \in DOMAIN tree : Aliased(j, alias) # {} \/ ~can_correlate(j)}
           base == [j \in DOMAIN tree |-> Aliased(j, alias)]
           step == [j \in DOMAIN tree |-> [v \in V |-> v]]
           up == [j \in DOMAIN tree |-> tree[j].within]
           found == CHOOSE f : f = [j \in DOMAIN tree |->
                      IF Aliased(j, alias) # {} \/ ~can_correlate(j) THEN Aliased(j, alias) ELSE f[tree[j].within]]
<1>1. N \in Nat /\ DOMAIN tree = 1..N
  BY KindIs
<1>2. \A j \in 1..N : j \notin stop => up[j] \in 1..N /\ j < up[j]
  BY <1>1, KindIs DEF can_correlate
<1>3. PICK f \in [1..N -> V] : Climbs(f, N, stop, base, step, up)
  <2>1. \A j \in 1..N : j \in stop => base[j] \in V
    BY <1>1
  <2>2. \A j \in 1..N : \A v \in V : step[j][v] \in V
    BY <1>1
  <2>3. V # {}
    OBVIOUS
  <2> HIDE DEF N, V, stop, base, step, up
  <2> QED BY <1>1, <1>2, <2>1, <2>2, <2>3, ClimbExists
<1>4. f = [j \in DOMAIN tree |->
             IF Aliased(j, alias) # {} \/ ~can_correlate(j) THEN Aliased(j, alias) ELSE f[tree[j].within]]
  <2>1. \A j \in 1..N : f[j] \in V
    OBVIOUS
  <2>2. \A j \in 1..N : j \notin stop => step[j][f[up[j]]] = f[tree[j].within]
    <3> HIDE DEF V, stop
    <3> QED BY <1>1, <1>2, <2>1
  <2>3. f = [j \in 1..N |-> IF j \in stop THEN base[j] ELSE step[j][f[up[j]]]]
    BY <1>3 DEF Climbs
  <2> HIDE DEF V, N, step, up
  <2> QED BY <1>1, <2>2, <2>3
<1>5. found = [j \in DOMAIN tree |->
                 IF Aliased(j, alias) # {} \/ ~can_correlate(j) THEN Aliased(j, alias) ELSE found[tree[j].within]]
  BY <1>4
<1>6. \A j \in DOMAIN tree : LookupAlias(j, alias) = found[j]
  BY DEF LookupAlias
<1> HIDE DEF found
<1>7. CASE Aliased(i, alias) # {} \/ ~can_correlate(i)
  BY <1>5, <1>6, <1>7
<1>8. CASE ~(Aliased(i, alias) # {} \/ ~can_correlate(i))
  <2>1. tree[i].within \in DOMAIN tree
    BY <1>8, KindIs DEF can_correlate
  <2> QED BY <1>5, <1>6, <1>8, <2>1
<1> QED BY <1>7, <1>8

LEMMA FoundAroundIs ==
  ASSUME Typed, Shaped, NEW column, NEW i \in DOMAIN tree
  PROVE  FoundAround(i, column) <=>
           can_correlate(i) /\ \/ Hits(tree[i].within, column) # {} \/ HasOpaque(tree[i].within)
                               \/ FoundAround(tree[i].within, column)
<1> DEFINE N == Len(tree)
           around(j) == Hits(tree[j].within, column) # {} \/ HasOpaque(tree[j].within)
           stop == {j \in DOMAIN tree : ~can_correlate(j) \/ around(j)}
           base == [j \in DOMAIN tree |-> can_correlate(j)]
           step == [j \in DOMAIN tree |-> [v \in BOOLEAN |-> v]]
           up == [j \in DOMAIN tree |-> tree[j].within]
           found == CHOOSE f : f = [j \in DOMAIN tree |->
                      can_correlate(j) /\ \/ Hits(tree[j].within, column) # {} \/ HasOpaque(tree[j].within)
                                          \/ f[tree[j].within]]
<1>1. N \in Nat /\ DOMAIN tree = 1..N
  BY KindIs
<1>2. \A j \in 1..N : j \notin stop => up[j] \in 1..N /\ j < up[j]
  BY <1>1, KindIs DEF can_correlate
<1>3. PICK f \in [1..N -> BOOLEAN] : Climbs(f, N, stop, base, step, up)
  <2>1. \A j \in 1..N : j \in stop => base[j] \in BOOLEAN
    BY <1>1 DEF can_correlate
  <2>2. \A j \in 1..N : \A v \in BOOLEAN : step[j][v] \in BOOLEAN
    BY <1>1
  <2> HIDE DEF N, stop, base, step, up
  <2> QED BY <1>1, <1>2, <2>1, <2>2, ClimbExists
<1>4. f = [j \in DOMAIN tree |-> can_correlate(j) /\ (around(j) \/ f[tree[j].within])]
  <2>1. \A j \in 1..N : f[j] \in BOOLEAN
    OBVIOUS
  <2>2. f = [j \in 1..N |-> IF j \in stop THEN base[j] ELSE step[j][f[up[j]]]]
    BY <1>3 DEF Climbs
  <2>3. ASSUME NEW j \in 1..N PROVE f[j] = (can_correlate(j) /\ (around(j) \/ f[tree[j].within]))
    <3>1. CASE j \in stop
      <4>1. f[j] = base[j]
        BY <2>2, <3>1
      <4>2. base[j] = can_correlate(j)
        BY <1>1
      <4> HIDE DEF base, around
      <4>3. ~can_correlate(j) \/ around(j)
        BY <3>1
      <4> QED BY <4>1, <4>2, <4>3 DEF can_correlate
    <3>2. CASE j \notin stop
      <4>1. can_correlate(j) /\ ~around(j)
        BY <1>1, <3>2
      <4>2. f[j] = step[j][f[up[j]]] /\ up[j] = tree[j].within /\ tree[j].within \in 1..N
        BY <1>1, <1>2, <2>2, <3>2
      <4>3. f[tree[j].within] \in BOOLEAN
        BY <2>1, <4>2
      <4>4. f[j] = f[tree[j].within]
        <5> HIDE DEF up, stop
        <5> QED BY <1>1, <4>2, <4>3
      <4> HIDE DEF around
      <4> QED BY <4>1, <4>3, <4>4 DEF can_correlate
    <3> QED BY <3>1, <3>2
  <2> HIDE DEF around, stop, base, step, up
  <2>4. f = [j \in 1..N |-> f[j]]
    OBVIOUS
  <2> HIDE DEF N
  <2> QED BY <1>1, <2>3, <2>4
<1>5. found = [j \in DOMAIN tree |-> can_correlate(j) /\ (around(j) \/ found[tree[j].within])]
  <2>1. f = [j \in DOMAIN tree |->
               can_correlate(j) /\ \/ Hits(tree[j].within, column) # {} \/ HasOpaque(tree[j].within)
                                   \/ f[tree[j].within]]
    BY <1>4
  <2>2. found = [j \in DOMAIN tree |->
               can_correlate(j) /\ \/ Hits(tree[j].within, column) # {} \/ HasOpaque(tree[j].within)
                                   \/ found[tree[j].within]]
    BY <2>1
  <2> HIDE DEF found
  <2> QED BY <2>2
<1>6. \A j \in DOMAIN tree : FoundAround(j, column) = found[j]
  BY DEF FoundAround
<1> HIDE DEF found, around
<1>7. FoundAround(i, column) <=> can_correlate(i) /\ (around(i) \/ found[tree[i].within])
  BY <1>5, <1>6
<1>8. can_correlate(i) => tree[i].within \in DOMAIN tree
  BY KindIs DEF can_correlate
<1>9. can_correlate(i) => found[tree[i].within] = FoundAround(tree[i].within, column)
  BY <1>6, <1>8
<1> QED BY <1>7, <1>9 DEF around

LEMMA SeenNextIs ==
  ASSUME Typed, Shaped, NEW i \in DOMAIN tree
  PROVE  /\ SeenNext(i) \in Nat
         /\ tree[i].kind = "root" => SeenNext(i) = 0
         /\ tree[i].kind = "subquery" => SeenNext(i) = tree[i].within
         /\ tree[i].kind = "derived" => SeenNext(i) = SeenNext(tree[i].within)
<1> DEFINE N == Len(tree)
           stop == {j \in DOMAIN tree : tree[j].kind # "derived"}
           base == [j \in DOMAIN tree |-> IF tree[j].kind = "root" THEN 0 ELSE tree[j].within]
           step == [j \in DOMAIN tree |-> [v \in Nat |-> v]]
           up == [j \in DOMAIN tree |-> tree[j].within]
           next == CHOOSE f : f = [j \in DOMAIN tree |-> IF tree[j].kind = "root" THEN 0
             ELSE IF tree[j].kind = "subquery" THEN tree[j].within ELSE f[tree[j].within]]
<1>1. N \in Nat /\ DOMAIN tree = 1..N
  BY KindIs
<1>2. \A j \in 1..N : j \notin stop => up[j] \in 1..N /\ j < up[j]
  BY <1>1, KindIs
<1>3. PICK f \in [1..N -> Nat] : Climbs(f, N, stop, base, step, up)
  <2>1. \A j \in 1..N : base[j] \in Nat
    BY <1>1, KindIs
  <2>2. \A j \in 1..N : \A v \in Nat : step[j][v] \in Nat
    BY <1>1
  <2>3. Nat # {}
    OBVIOUS
  <2> HIDE DEF N, stop, base, step, up
  <2> QED BY <1>1, <1>2, <2>1, <2>2, <2>3, ClimbExists
<1>4. \A j \in 1..N : f[j] = IF tree[j].kind = "root" THEN 0
             ELSE IF tree[j].kind = "subquery" THEN tree[j].within ELSE f[tree[j].within]
  <2>1. f = [j \in 1..N |-> IF j \in stop THEN base[j] ELSE step[j][f[up[j]]]]
    BY <1>3 DEF Climbs
  <2> SUFFICES ASSUME NEW j \in 1..N
               PROVE  f[j] = IF tree[j].kind = "root" THEN 0
             ELSE IF tree[j].kind = "subquery" THEN tree[j].within ELSE f[tree[j].within]
    OBVIOUS
  <2>2. tree[j].kind \in {"root", "subquery", "derived"}
    BY <1>1, KindIs
  <2>3. CASE tree[j].kind = "derived"
    <3>1. f[j] = step[j][f[tree[j].within]] /\ tree[j].within \in 1..N
      BY <1>1, <1>2, <2>1, <2>3
    <3>2. f[tree[j].within] \in Nat
      BY <3>1
    <3> HIDE DEF N
    <3> QED BY <1>1, <2>3, <3>1, <3>2
  <2>4. CASE tree[j].kind # "derived"
    <3>1. f[j] = base[j]
      BY <1>1, <2>1, <2>4
    <3>2. base[j] = IF tree[j].kind = "root" THEN 0 ELSE tree[j].within
      BY <1>1
    <3> HIDE DEF base
    <3> QED BY <2>2, <2>4, <3>1, <3>2
  <2> QED BY <2>3, <2>4
<1>5. next \in [1..N -> Nat]
       /\ next = [j \in DOMAIN tree |-> IF tree[j].kind = "root" THEN 0
             ELSE IF tree[j].kind = "subquery" THEN tree[j].within ELSE next[tree[j].within]]
  <2>1. f = [j \in DOMAIN tree |-> IF tree[j].kind = "root" THEN 0
             ELSE IF tree[j].kind = "subquery" THEN tree[j].within ELSE f[tree[j].within]]
    <3> HIDE DEF N
    <3> QED BY <1>1, <1>4
  <2>2. next = [j \in DOMAIN tree |-> IF tree[j].kind = "root" THEN 0
             ELSE IF tree[j].kind = "subquery" THEN tree[j].within ELSE next[tree[j].within]]
    BY <2>1
  <2> HIDE DEF next
  <2> DEFINE S == {j \in 1..N : next[j] \in Nat}
  <2>3. ASSUME NEW j \in 1..N, \A k \in 1..N : j < k => k \in S PROVE j \in S
    <3>1. tree[j].kind \in {"root", "subquery", "derived"}
      BY <1>1, KindIs
    <3>2. CASE tree[j].kind = "root"
      BY <1>1, <2>2, <3>2
    <3>3. CASE tree[j].kind = "subquery"
      <4>1. next[j] = tree[j].within
        BY <1>1, <2>2, <3>3
      <4>2. tree[j].within \in 1..N
        BY <1>1, <3>3, KindIs
      <4> QED BY <1>1, <4>1, <4>2
    <3>4. CASE tree[j].kind = "derived"
      <4>1. next[j] = next[tree[j].within]
        BY <1>1, <2>2, <3>4
      <4>2. tree[j].within \in 1..N /\ j < tree[j].within
        BY <1>1, <3>4, KindIs
      <4> QED BY <2>3, <4>1, <4>2
    <3> QED BY <3>1, <3>2, <3>3, <3>4
  <2>4. 1..N \subseteq S
    <3> HIDE DEF N, S
    <3> QED BY <1>1, <2>3, ByClimbing
  <2>5. \A j \in 1..N : next[j] \in Nat
    BY <2>4
  <2> HIDE DEF N
  <2>6. DOMAIN next = 1..N /\ next = [j \in DOMAIN next |-> next[j]]
    BY <1>1, <2>2
  <2>7. next \in [1..N -> Nat]
    BY <2>5, <2>6
  <2> QED BY <2>2, <2>7
<1>6. \A j \in DOMAIN tree : SeenNext(j) = next[j]
  BY DEF SeenNext
<1> HIDE DEF next
<1>7. tree[i].kind \in {"root", "subquery", "derived"}
        /\ (tree[i].kind # "root" => tree[i].within \in DOMAIN tree)
  BY KindIs
<1> QED BY <1>1, <1>5, <1>6, <1>7

\* What is seen next is further out, or nothing.
LEMMA SeenNextClimbs ==
  ASSUME Typed, Shaped
  PROVE  \A i \in DOMAIN tree : SeenNext(i) # 0 => SeenNext(i) \in DOMAIN tree /\ i < SeenNext(i)
<1> DEFINE S == {i \in DOMAIN tree : SeenNext(i) # 0 => SeenNext(i) \in DOMAIN tree /\ i < SeenNext(i)}
<1>1. Len(tree) \in Nat /\ DOMAIN tree = 1..Len(tree)
  BY DEF Typed
<1>2. ASSUME NEW i \in 1..Len(tree), \A j \in 1..Len(tree) : i < j => j \in S PROVE i \in S
  <2>1. tree[i].kind \in {"root", "subquery", "derived"}
          /\ (tree[i].kind # "root" => tree[i].within \in DOMAIN tree /\ i < tree[i].within)
    BY <1>1, KindIs
  <2>2. CASE tree[i].kind # "derived"
    BY <1>1, <2>1, <2>2, SeenNextIs
  <2>3. CASE tree[i].kind = "derived"
    <3>1. SeenNext(i) = SeenNext(tree[i].within) /\ SeenNext(i) \in Nat
      BY <1>1, <2>3, SeenNextIs
    <3>2. tree[i].within \in S
      BY <1>1, <1>2, <2>1, <2>3
    <3>3. \A j \in DOMAIN tree : j \in Nat
      BY <1>1
    <3> QED BY <1>1, <2>1, <2>3, <3>1, <3>2, <3>3
  <2> QED BY <2>2, <2>3
<1> HIDE DEF S
<1>3. DOMAIN tree \subseteq S
  BY <1>1, <1>2, ByClimbing
<1> QED BY <1>3 DEF S

LEMMA MeantIs ==
  ASSUME Typed, Shaped, NEW having, NEW i \in DOMAIN tree
  PROVE  Meant(i, having) = IF having[i] # {} THEN having[i]
                            ELSE IF SeenNext(i) = 0 THEN {} ELSE Meant(SeenNext(i), having)
<1> DEFINE N == Len(tree)
           V == {having[j] : j \in DOMAIN tree} \cup {{}}
           stop == {j \in DOMAIN tree : having[j] # {} \/ SeenNext(j) = 0}
           base == [j \in DOMAIN tree |-> having[j]]
           step == [j \in DOMAIN tree |-> [v \in V |-> v]]
           up == [j \in DOMAIN tree |-> SeenNext(j)]
           meant == CHOOSE f : f = [j \in DOMAIN tree |->
                      IF having[j] # {} THEN having[j] ELSE IF SeenNext(j) = 0 THEN {} ELSE f[SeenNext(j)]]
<1>1. N \in Nat /\ DOMAIN tree = 1..N
  BY KindIs
<1>2. \A j \in 1..N : j \notin stop => up[j] \in 1..N /\ j < up[j]
  BY <1>1, SeenNextClimbs
<1>3. PICK f \in [1..N -> V] : Climbs(f, N, stop, base, step, up)
  <2>1. \A j \in 1..N : j \in stop => base[j] \in V
    BY <1>1
  <2>2. \A j \in 1..N : \A v \in V : step[j][v] \in V
    BY <1>1
  <2>3. V # {}
    OBVIOUS
  <2> HIDE DEF N, V, stop, base, step, up
  <2> QED BY <1>1, <1>2, <2>1, <2>2, <2>3, ClimbExists
<1>4. \A j \in 1..N : f[j] = IF having[j] # {} THEN having[j] ELSE IF SeenNext(j) = 0 THEN {} ELSE f[SeenNext(j)]
  <2>1. f = [j \in 1..N |-> IF j \in stop THEN base[j] ELSE step[j][f[up[j]]]]
    BY <1>3 DEF Climbs
  <2> SUFFICES ASSUME NEW j \in 1..N
               PROVE  f[j] = IF having[j] # {} THEN having[j] ELSE IF SeenNext(j) = 0 THEN {} ELSE f[SeenNext(j)]
    OBVIOUS
  <2>2. CASE j \in stop
    BY <1>1, <2>1, <2>2
  <2>3. CASE j \notin stop
    <3>1. having[j] = {} /\ SeenNext(j) # 0 /\ SeenNext(j) \in 1..N /\ f[j] = step[j][f[SeenNext(j)]]
      BY <1>1, <1>2, <2>1, <2>3
    <3>2. f[SeenNext(j)] \in V
      BY <3>1
    <3>3. f[j] = f[SeenNext(j)]
      <4> HIDE DEF V, N
      <4> QED BY <1>1, <3>1, <3>2
    <3> QED BY <3>1, <3>3
  <2> QED BY <2>2, <2>3
<1>5. meant = [j \in DOMAIN tree |->
                 IF having[j] # {} THEN having[j] ELSE IF SeenNext(j) = 0 THEN {} ELSE meant[SeenNext(j)]]
  <2>1. f = [j \in DOMAIN tree |->
               IF having[j] # {} THEN having[j] ELSE IF SeenNext(j) = 0 THEN {} ELSE f[SeenNext(j)]]
    <3> HIDE DEF N, V
    <3> QED BY <1>1, <1>4
  <2> QED BY <2>1
<1>6. \A j \in DOMAIN tree : Meant(j, having) = meant[j]
  BY DEF Meant
<1> HIDE DEF meant
<1>7. SeenNext(i) # 0 => SeenNext(i) \in DOMAIN tree
  BY SeenNextClimbs
<1> QED BY <1>5, <1>6, <1>7

LEMMA ReachIs ==
  ASSUME Typed, Shaped, NEW i \in DOMAIN tree
  PROVE  Reach(i) = {i} \cup (IF SeenNext(i) = 0 THEN {} ELSE Reach(SeenNext(i)))
<1> DEFINE N == Len(tree)
           V == SUBSET (DOMAIN tree)
           stop == {j \in DOMAIN tree : SeenNext(j) = 0}
           base == [j \in DOMAIN tree |-> {j}]
           step == [j \in DOMAIN tree |-> [v \in V |-> {j} \cup v]]
           up == [j \in DOMAIN tree |-> SeenNext(j)]
           reach == CHOOSE f : f = [j \in DOMAIN tree |-> {j} \cup (IF SeenNext(j) = 0 THEN {} ELSE f[SeenNext(j)])]
<1>1. N \in Nat /\ DOMAIN tree = 1..N
  BY KindIs
<1>2. \A j \in 1..N : j \notin stop => up[j] \in 1..N /\ j < up[j]
  BY <1>1, SeenNextClimbs
<1>3. PICK f \in [1..N -> V] : Climbs(f, N, stop, base, step, up)
  <2>1. \A j \in 1..N : j \in stop => base[j] \in V
    BY <1>1
  <2>2. \A j \in 1..N : \A v \in V : step[j][v] \in V
    <3> SUFFICES ASSUME NEW j \in DOMAIN tree, NEW v \in V PROVE step[j][v] \in V
      BY <1>1
    <3>1. step[j][v] = {j} \cup v
      OBVIOUS
    <3> QED BY <3>1
  <2>3. V # {}
    OBVIOUS
  <2> HIDE DEF N, V, stop, base, step, up
  <2> QED BY <1>1, <1>2, <2>1, <2>2, <2>3, ClimbExists
<1>4. \A j \in 1..N : f[j] = {j} \cup (IF SeenNext(j) = 0 THEN {} ELSE f[SeenNext(j)])
  <2>1. f = [j \in 1..N |-> IF j \in stop THEN base[j] ELSE step[j][f[up[j]]]]
    BY <1>3 DEF Climbs
  <2> SUFFICES ASSUME NEW j \in 1..N
               PROVE  f[j] = {j} \cup (IF SeenNext(j) = 0 THEN {} ELSE f[SeenNext(j)])
    OBVIOUS
  <2>2. CASE j \in stop
    BY <1>1, <2>1, <2>2
  <2>3. CASE j \notin stop
    <3>1. SeenNext(j) # 0 /\ SeenNext(j) \in 1..N /\ f[j] = step[j][f[SeenNext(j)]]
      BY <1>1, <1>2, <2>1, <2>3
    <3>2. f[SeenNext(j)] \in V
      BY <3>1
    <3>3. f[j] = {j} \cup f[SeenNext(j)]
      <4> HIDE DEF V, N
      <4> QED BY <1>1, <3>1, <3>2
    <3> QED BY <3>1, <3>3
  <2> QED BY <2>2, <2>3
<1>5. reach = [j \in DOMAIN tree |-> {j} \cup (IF SeenNext(j) = 0 THEN {} ELSE reach[SeenNext(j)])]
  <2>1. f = [j \in DOMAIN tree |-> {j} \cup (IF SeenNext(j) = 0 THEN {} ELSE f[SeenNext(j)])]
    <3> HIDE DEF N, V
    <3> QED BY <1>1, <1>4
  <2> QED BY <2>1
<1>6. \A j \in DOMAIN tree : Reach(j) = reach[j]
  BY DEF Reach
<1> HIDE DEF reach
<1>7. SeenNext(i) # 0 => SeenNext(i) \in DOMAIN tree
  BY SeenNextClimbs
<1> QED BY <1>5, <1>6, <1>7

-----------------------------------------------------------------------------
(* What the lookups find, and what the database means.                      *)

LEMMA ReachWithin ==
  ASSUME Typed, Shaped
  PROVE  \A i \in DOMAIN tree :
           /\ i \in Reach(i) /\ Reach(i) \subseteq DOMAIN tree
           /\ SeenNext(i) # 0 => Reach(SeenNext(i)) \subseteq Reach(i)
<1> DEFINE S == {i \in DOMAIN tree : Reach(i) \subseteq DOMAIN tree}
<1>1. Len(tree) \in Nat /\ DOMAIN tree = 1..Len(tree)
  BY DEF Typed
<1>2. \A i \in DOMAIN tree : /\ Reach(i) = {i} \cup (IF SeenNext(i) = 0 THEN {} ELSE Reach(SeenNext(i)))
                             /\ SeenNext(i) # 0 => SeenNext(i) \in DOMAIN tree /\ i < SeenNext(i)
  BY ReachIs, SeenNextClimbs
<1>3. ASSUME NEW i \in DOMAIN tree, \A j \in DOMAIN tree : i < j => j \in S PROVE i \in S
  <2>1. SeenNext(i) # 0 => Reach(SeenNext(i)) \subseteq DOMAIN tree
    BY <1>2, <1>3
  <2> QED BY <1>2, <2>1
<1> HIDE DEF S
<1>4. DOMAIN tree \subseteq S
  BY <1>1, <1>3, ByClimbing
<1> QED BY <1>2, <1>4 DEF S

LEMMA MeantFrom ==
  ASSUME Typed, Shaped, NEW having
  PROVE  \A i \in DOMAIN tree : Meant(i, having) = {} \/ \E j \in Reach(i) : Meant(i, having) = having[j]
<1> DEFINE S == {i \in DOMAIN tree : Meant(i, having) = {} \/ \E j \in Reach(i) : Meant(i, having) = having[j]}
<1>1. Len(tree) \in Nat /\ DOMAIN tree = 1..Len(tree)
  BY DEF Typed
<1>2. ASSUME NEW i \in DOMAIN tree, \A j \in DOMAIN tree : i < j => j \in S PROVE i \in S
  <2>1. /\ i \in Reach(i)
        /\ SeenNext(i) # 0 => Reach(SeenNext(i)) \subseteq Reach(i)
        /\ SeenNext(i) # 0 => SeenNext(i) \in DOMAIN tree /\ i < SeenNext(i)
    BY ReachWithin, SeenNextClimbs
  <2>2. CASE having[i] # {} \/ SeenNext(i) = 0
    <3>1. Meant(i, having) = {} \/ Meant(i, having) = having[i]
      BY <2>2, MeantIs
    <3> QED BY <2>1, <3>1
  <2>3. CASE having[i] = {} /\ SeenNext(i) # 0
    <3>1. Meant(i, having) = Meant(SeenNext(i), having) /\ SeenNext(i) \in S
      BY <1>2, <2>1, <2>3, MeantIs
    <3> QED BY <2>1, <2>3, <3>1
  <2> QED BY <2>2, <2>3
<1> HIDE DEF S
<1>3. DOMAIN tree \subseteq S
  BY <1>1, <1>2, ByClimbing
<1> QED BY <1>3 DEF S

\* The sources with an alias, and those with a column, by select.
AliasedBy(alias) == [j \in DOMAIN tree |-> Aliased(j, alias)]
HavingColumn(column) == [j \in DOMAIN tree |-> Hits(j, column)]

\* What _lookup_alias finds is what the alias means.
LEMMA LookupMeans ==
  ASSUME Typed, Shaped, NEW alias
  PROVE  \A i \in DOMAIN tree :
           LookupAlias(i, alias) # {} => Meant(i, AliasedBy(alias)) = LookupAlias(i, alias)
<1> DEFINE having == AliasedBy(alias)
           S == {i \in DOMAIN tree : LookupAlias(i, alias) # {} => Meant(i, having) = LookupAlias(i, alias)}
<1>1. Len(tree) \in Nat /\ DOMAIN tree = 1..Len(tree)
  BY DEF Typed
<1>2. ASSUME NEW i \in DOMAIN tree, \A j \in DOMAIN tree : i < j => j \in S, LookupAlias(i, alias) # {}
      PROVE  Meant(i, having) = LookupAlias(i, alias)
  <2>1. having[i] = Aliased(i, alias)
    BY DEF AliasedBy
  <2> HIDE DEF having, S
  <2>2. CASE Aliased(i, alias) # {}
    BY <2>1, <2>2, LookupAliasIs, MeantIs
  <2>3. CASE Aliased(i, alias) = {}
    <3>1. can_correlate(i) /\ LookupAlias(i, alias) = LookupAlias(tree[i].within, alias)
      BY <1>2, <2>3, LookupAliasIs
    <3>2. tree[i].within \in DOMAIN tree /\ i < tree[i].within /\ SeenNext(i) = tree[i].within
      BY <3>1, KindIs, SeenNextIs DEF can_correlate
    <3>3. SeenNext(i) # 0
      BY <1>1, <3>2
    <3>4. Meant(i, having) = Meant(tree[i].within, having)
      BY <2>1, <2>3, <3>2, <3>3, MeantIs
    <3>5. tree[i].within \in S
      BY <1>2, <3>2
    <3> QED BY <1>2, <3>1, <3>4, <3>5 DEF S
  <2> QED BY <2>2, <2>3
<1>3. ASSUME NEW i \in DOMAIN tree, \A j \in DOMAIN tree : i < j => j \in S PROVE i \in S
  BY <1>2, <1>3
<1> HIDE DEF S
<1>4. DOMAIN tree \subseteq S
  BY <1>1, <1>3, ByClimbing
<1> QED BY <1>4 DEF S

LEMMA PlainClimbs ==
  ASSUME Typed, Shaped, NEW i \in DOMAIN tree, PlainReach(i), SeenNext(i) # 0
  PROVE  /\ can_correlate(i) /\ SeenNext(i) = tree[i].within /\ SeenNext(i) \in DOMAIN tree
         /\ i < SeenNext(i) /\ PlainReach(SeenNext(i))
<1>1. /\ i \in Reach(i) /\ Reach(SeenNext(i)) \subseteq Reach(i)
      /\ SeenNext(i) \in DOMAIN tree /\ i < SeenNext(i)
  BY ReachWithin, SeenNextClimbs
<1>2. tree[i].kind = "subquery"
  BY <1>1, KindIs, SeenNextIs DEF PlainReach
<1>3. PlainReach(SeenNext(i))
  BY <1>1 DEF PlainReach
<1> QED BY <1>1, <1>2, <1>3, SeenNextIs DEF can_correlate

\* An alias it does not find means nothing.
LEMMA LookupMisses ==
  ASSUME Typed, Shaped, NEW alias
  PROVE  \A i \in DOMAIN tree :
           PlainReach(i) /\ LookupAlias(i, alias) = {} => Meant(i, AliasedBy(alias)) = {}
<1> DEFINE having == AliasedBy(alias)
           S == {i \in DOMAIN tree : PlainReach(i) /\ LookupAlias(i, alias) = {} => Meant(i, having) = {}}
<1>1. Len(tree) \in Nat /\ DOMAIN tree = 1..Len(tree)
  BY DEF Typed
<1>2. ASSUME NEW i \in DOMAIN tree, \A j \in DOMAIN tree : i < j => j \in S,
             PlainReach(i), LookupAlias(i, alias) = {}
      PROVE  Meant(i, having) = {}
  <2>1. having[i] = Aliased(i, alias)
    BY DEF AliasedBy
  <2> HIDE DEF having, S
  <2>2. Aliased(i, alias) = {}
    BY <1>2, LookupAliasIs
  <2>3. CASE SeenNext(i) = 0
    BY <2>1, <2>2, <2>3, MeantIs
  <2>4. CASE SeenNext(i) # 0
    <3>1. /\ can_correlate(i) /\ SeenNext(i) = tree[i].within /\ SeenNext(i) \in DOMAIN tree
          /\ i < SeenNext(i) /\ PlainReach(SeenNext(i))
      BY <1>2, <2>4, PlainClimbs
    <3>2. LookupAlias(SeenNext(i), alias) = {}
      BY <1>2, <2>2, <3>1, LookupAliasIs
    <3>3. Meant(i, having) = Meant(SeenNext(i), having)
      BY <2>1, <2>2, <2>4, MeantIs
    <3>4. SeenNext(i) \in S
      BY <1>2, <3>1
    <3> QED BY <3>1, <3>2, <3>3, <3>4 DEF S
  <2> QED BY <2>3, <2>4
<1>3. ASSUME NEW i \in DOMAIN tree, \A j \in DOMAIN tree : i < j => j \in S PROVE i \in S
  BY <1>2, <1>3
<1> HIDE DEF S
<1>4. DOMAIN tree \subseteq S
  BY <1>1, <1>3, ByClimbing
<1> QED BY <1>4 DEF S

\* A column that may be around a subquery means something, if all is known.
LEMMA AroundMeans ==
  ASSUME Typed, Shaped, NEW column
  PROVE  \A i \in DOMAIN tree :
           FoundAround(i, column) /\ (\A j \in Reach(i) : ~HasOpaque(j)) => Meant(i, HavingColumn(column)) # {}
<1> DEFINE having == HavingColumn(column)
           known(i) == \A j \in Reach(i) : ~HasOpaque(j)
           S == {i \in DOMAIN tree : FoundAround(i, column) /\ known(i) => Meant(i, having) # {}}
<1>1. Len(tree) \in Nat /\ DOMAIN tree = 1..Len(tree)
  BY DEF Typed
<1>2. ASSUME NEW i \in DOMAIN tree, \A j \in DOMAIN tree : i < j => j \in S,
             FoundAround(i, column), known(i)
      PROVE  Meant(i, having) # {}
  <2>1. \A j \in DOMAIN tree : having[j] = Hits(j, column)
    BY DEF HavingColumn
  <2>2. /\ can_correlate(i)
        /\ \/ Hits(tree[i].within, column) # {} \/ HasOpaque(tree[i].within)
           \/ FoundAround(tree[i].within, column)
    BY <1>2, FoundAroundIs
  <2> DEFINE w == tree[i].within
  <2>3. w \in DOMAIN tree /\ i < w /\ SeenNext(i) = w
    BY <2>2, KindIs, SeenNextIs DEF can_correlate
  <2>4. w # 0
    BY <1>1, <2>3
  <2>5. w \in Reach(w) /\ Reach(w) \subseteq Reach(i)
    BY <2>3, <2>4, ReachWithin
  <2>6. known(w) /\ ~HasOpaque(w)
    BY <1>2, <2>5
  <2>7. w \in S
    BY <1>2, <2>3
  <2> HIDE DEF having, known, S, w
  <2>8. CASE Hits(i, column) # {}
    BY <2>1, <2>8, MeantIs
  <2>9. CASE Hits(i, column) = {}
    <3>1. Meant(i, having) = Meant(w, having)
      BY <2>1, <2>3, <2>4, <2>9, MeantIs
    <3>2. CASE Hits(w, column) # {}
      BY <2>1, <2>3, <3>1, <3>2, MeantIs
    <3>3. CASE FoundAround(w, column)
      BY <2>6, <2>7, <3>1, <3>3 DEF S
    <3> QED BY <2>2, <2>6, <3>2, <3>3 DEF w
  <2> QED BY <2>8, <2>9
<1>3. ASSUME NEW i \in DOMAIN tree, \A j \in DOMAIN tree : i < j => j \in S PROVE i \in S
  BY <1>2, <1>3
<1> HIDE DEF S
<1>4. DOMAIN tree \subseteq S
  BY <1>1, <1>3, ByClimbing
<1> QED BY <1>4 DEF S

\* A column that is neither in the select nor around it means nothing.
LEMMA AroundMisses ==
  ASSUME Typed, Shaped, NEW column
  PROVE  \A i \in DOMAIN tree :
           PlainReach(i) /\ Hits(i, column) = {} /\ ~FoundAround(i, column) => Meant(i, HavingColumn(column)) = {}
<1> DEFINE having == HavingColumn(column)
           S == {i \in DOMAIN tree :
                   PlainReach(i) /\ Hits(i, column) = {} /\ ~FoundAround(i, column) => Meant(i, having) = {}}
<1>1. Len(tree) \in Nat /\ DOMAIN tree = 1..Len(tree)
  BY DEF Typed
<1>2. ASSUME NEW i \in DOMAIN tree, \A j \in DOMAIN tree : i < j => j \in S,
             PlainReach(i), Hits(i, column) = {}, ~FoundAround(i, column)
      PROVE  Meant(i, having) = {}
  <2>1. having[i] = Hits(i, column)
    BY DEF HavingColumn
  <2> HIDE DEF having, S
  <2>2. CASE SeenNext(i) = 0
    BY <1>2, <2>1, <2>2, MeantIs
  <2>3. CASE SeenNext(i) # 0
    <3>1. /\ can_correlate(i) /\ SeenNext(i) = tree[i].within /\ SeenNext(i) \in DOMAIN tree
          /\ i < SeenNext(i) /\ PlainReach(SeenNext(i))
      BY <1>2, <2>3, PlainClimbs
    <3>2. Hits(SeenNext(i), column) = {} /\ ~FoundAround(SeenNext(i), column)
      BY <1>2, <3>1, FoundAroundIs
    <3>3. Meant(i, having) = Meant(SeenNext(i), having)
      BY <1>2, <2>1, <2>3, MeantIs
    <3>4. SeenNext(i) \in S
      BY <1>2, <3>1
    <3> QED BY <3>1, <3>2, <3>3, <3>4 DEF S
  <2> QED BY <2>2, <2>3
<1>3. ASSUME NEW i \in DOMAIN tree, \A j \in DOMAIN tree : i < j => j \in S PROVE i \in S
  BY <1>2, <1>3
<1> HIDE DEF S
<1>4. DOMAIN tree \subseteq S
  BY <1>1, <1>3, ByClimbing
<1> QED BY <1>4 DEF S

-----------------------------------------------------------------------------
(* What is reported of a reference, against what the database makes of it.  *)

LEMMA OneSourceByAlias ==
  ASSUME Typed, Shaped, NEW j \in DOMAIN tree, NEW alias, NEW s \in Aliased(j, alias), NEW u \in Aliased(j, alias)
  PROVE  s = u
<1>1. PICK k \in DOMAIN tree[j].sources : s = tree[j].sources[k]
  BY DEF Aliased, Sources
<1>2. PICK l \in DOMAIN tree[j].sources : u = tree[j].sources[l]
  BY DEF Aliased, Sources
<1>3. s.alias = alias /\ u.alias = alias
  BY DEF Aliased
<1>4. k = l
  BY <1>1, <1>2, <1>3 DEF Shaped
<1> QED BY <1>1, <1>2, <1>4

LEMMA LookupFrom ==
  ASSUME Typed, Shaped, NEW i \in DOMAIN tree, NEW alias, LookupAlias(i, alias) # {}
  PROVE  \E j \in Reach(i) : j \in DOMAIN tree /\ LookupAlias(i, alias) = Aliased(j, alias)
<1>1. Meant(i, AliasedBy(alias)) = LookupAlias(i, alias)
  BY LookupMeans
<1>2. PICK j \in Reach(i) : Meant(i, AliasedBy(alias)) = AliasedBy(alias)[j]
  BY <1>1, MeantFrom
<1>3. j \in DOMAIN tree
  BY <1>2, ReachWithin
<1> QED BY <1>1, <1>2, <1>3 DEF AliasedBy

LEMMA HitsFinite ==
  ASSUME Typed, NEW j \in DOMAIN tree, NEW column PROVE IsFiniteSet(Hits(j, column))
<1>1. DOMAIN tree[j].sources = 1..Len(tree[j].sources) /\ Len(tree[j].sources) \in Nat
  BY SourceTyped DEF Typed
<1>2. IsFiniteSet(DOMAIN tree[j].sources)
  BY <1>1, FS_Interval
<1>3. IsFiniteSet(Sources(j))
  BY <1>2, ImageFinite DEF Sources
<1>4. Hits(j, column) \subseteq Sources(j)
  BY DEF Hits
<1> QED BY <1>3, <1>4, FS_Subset

LEMMA MeantFinite ==
  ASSUME Typed, Shaped, NEW i \in DOMAIN tree, NEW column PROVE IsFiniteSet(Meant(i, HavingColumn(column)))
<1>1. CASE Meant(i, HavingColumn(column)) = {}
  BY <1>1, FS_EmptySet
<1>2. CASE Meant(i, HavingColumn(column)) # {}
  <2>1. PICK j \in Reach(i) : Meant(i, HavingColumn(column)) = HavingColumn(column)[j]
    BY <1>2, MeantFrom
  <2>2. j \in DOMAIN tree
    BY <2>1, ReachWithin
  <2> QED BY <2>1, <2>2, HitsFinite DEF HavingColumn
<1> QED BY <1>1, <1>2

\* How often a column of the select itself is meant.
LEMMA OwnMeant ==
  ASSUME Typed, Shaped, NEW i \in DOMAIN tree, NEW column, Hits(i, column) # {}
  PROVE  Meant(i, HavingColumn(column)) = Hits(i, column)
<1>1. HavingColumn(column)[i] = Hits(i, column)
  BY DEF HavingColumn
<1> QED BY <1>1, MeantIs

\* A reference of which a fault is reported does not resolve.
LEMMA FaultIsReal ==
  ASSUME Typed, Shaped, NEW i \in DOMAIN tree, NEW ref, NEW v \in Faults(i, ref),
         ~OrdersByOutput(i, ref), ~HiddenByDerived(i, ref)
  PROVE  ~Resolves(i, ref)
<1>1. CASE ref.alias = ""
  <2> DEFINE hits == Hits(i, ref.column)
             meant == Meant(i, HavingColumn(ref.column))
  <2>1. BareCode(i, ref) # {}
    BY <1>1 DEF Faults
  <2>2. Cardinality(hits) \in Nat /\ (hits = {} => Cardinality(hits) = 0)
    BY HitsFinite, FS_CardinalityType, FS_EmptySet
  <2>3. Resolves(i, ref) <=> (IsOutput(i, ref) \/ Cardinality(meant) = 1)
    BY <1>1 DEF Resolves, HavingColumn
  <2>4. CASE Cardinality(hits) > 1
    <3>1. hits # {}
      BY <2>2, <2>4
    <3>2. meant = hits
      BY <3>1, OwnMeant
    <3>3. ~IsOutput(i, ref)
      BY <1>1, <3>1 DEF IsOutput, OrdersByOutput
    <3> HIDE DEF meant, hits
    <3> QED BY <2>2, <2>3, <2>4, <3>2, <3>3
  <2>5. CASE ~(Cardinality(hits) > 1)
    <3>1. Cardinality(hits) # 1 /\ ~FoundAround(i, ref.column)
      BY <2>1, <2>5 DEF BareCode
    <3>2. hits = {}
      <4>1. hits # {} => Cardinality(hits) # 0
        BY HitsFinite, FS_EmptySet
      <4> HIDE DEF hits
      <4> QED BY <2>2, <2>5, <3>1, <4>1
    <3>3. meant = {}
      BY <1>1, <3>1, <3>2, AroundMisses DEF HiddenByDerived
    <3>4. Cardinality(meant) = 0
      BY <3>3, FS_EmptySet
    <3>5. ref.column \in OwnOutputs(i) => ref.clause \notin {"group", "order"}
      BY <2>1, <2>5, <3>1 DEF BareCode
    <3>6. ~IsOutput(i, ref)
      BY <1>1, <3>5 DEF IsOutput, OrdersByOutput
    <3> HIDE DEF meant
    <3> QED BY <2>3, <3>4, <3>6
  <2> QED BY <2>4, <2>5
<1>2. CASE ref.alias # ""
  <2> DEFINE found == LookupAlias(i, ref.alias)
             meant == Meant(i, AliasedBy(ref.alias))
  <2>1. Resolves(i, ref) <=> \E s \in meant : ref.column \in ColumnsOf(s)
    BY <1>2 DEF Resolves, AliasedBy
  <2>2. CASE found # {}
    <3>1. meant = found
      BY <2>2, LookupMeans
    <3>2. PICK s \in found : ref.column \notin ColumnsOf(s)
      BY <1>2, <2>2 DEF Faults
    <3>3. PICK j \in DOMAIN tree : found = Aliased(j, ref.alias)
      BY <2>2, LookupFrom
    <3>4. \A u \in found : u = s
      BY <3>2, <3>3, OneSourceByAlias
    <3> HIDE DEF found, meant
    <3> QED BY <2>1, <3>1, <3>2, <3>4
  <2>3. CASE found = {}
    <3>1. meant = {}
      BY <1>2, <2>3, LookupMisses DEF HiddenByDerived
    <3> HIDE DEF meant
    <3> QED BY <2>1, <3>1
  <2> QED BY <2>2, <2>3
<1> QED BY <1>1, <1>2

LEMMA NoneOneOrMany == ASSUME NEW n \in Nat, n # 0, n # 1 PROVE n > 1
OBVIOUS

\* A reference that does not resolve is a fault, or ambiguous around the select.
LEMMA UnresolvedIsFault ==
  ASSUME Typed, Shaped, NEW i \in DOMAIN tree, NEW ref, Provable(i, ref), ~Resolves(i, ref)
  PROVE  \/ \E v \in Faults(i, ref) : v.column = ref.column
         \/ ref.alias = "" /\ Hits(i, ref.column) = {} /\ Cardinality(Meant(i, HavingColumn(ref.column))) > 1
<1>1. CASE ref.alias = ""
  <2> DEFINE hits == Hits(i, ref.column)
             meant == Meant(i, HavingColumn(ref.column))
  <2>1. ~IsOutput(i, ref) /\ Cardinality(meant) # 1
    BY <1>1 DEF Resolves, HavingColumn
  <2>2. Cardinality(hits) \in Nat /\ (hits # {} => Cardinality(hits) # 0) /\ (hits = {} => Cardinality(hits) = 0)
    BY HitsFinite, FS_CardinalityType, FS_EmptySet
  <2>3. Cardinality(meant) \in Nat /\ (meant # {} => Cardinality(meant) # 0)
    BY MeantFinite, FS_CardinalityType, FS_EmptySet
  <2>4. ASSUME NEW code, code \in BareCode(i, ref) PROVE \E v \in Faults(i, ref) : v.column = ref.column
    <3>1. Report(code, "", ref) \in Faults(i, ref)
      BY <1>1, <2>4 DEF Faults
    <3> QED BY <3>1 DEF Report
  <2>5. i \in Reach(i) /\ ~HasOpaque(i)
    BY ReachWithin DEF Provable
  <2>6. CASE Cardinality(hits) > 1
    <3>1. "AMBIGUOUS_COLUMN" \in BareCode(i, ref)
      BY <2>6 DEF BareCode
    <3> QED BY <2>4, <3>1
  <2>7. CASE ~(Cardinality(hits) > 1) /\ hits # {}
    <3>1. meant = hits
      BY <2>7, OwnMeant
    <3>2. Cardinality(hits) # 1
      BY <2>1, <3>1
    <3>3. Cardinality(hits) > 1
      <4> HIDE DEF hits
      <4> QED BY <2>2, <2>7, <3>2, NoneOneOrMany
    <3> QED BY <2>7, <3>3
  <2>8. CASE hits = {} /\ FoundAround(i, ref.column)
    <3>1. meant # {}
      BY <2>8, AroundMeans DEF Provable
    <3>2. Cardinality(meant) > 1
      <4> HIDE DEF meant
      <4> QED BY <2>1, <2>3, <3>1
    <3> QED BY <1>1, <2>8, <3>2
  <2>9. CASE hits = {} /\ ~FoundAround(i, ref.column)
    <3>0. ~(Cardinality(hits) > 1) /\ Cardinality(hits) # 1
      <4> HIDE DEF hits
      <4> QED BY <2>2, <2>9
    <3>1. CASE ref.column \in OwnOutputs(i)
      <4>1. PICK item \in tree[i].items : item.as = ref.column /\ item.as # ""
        BY <3>1 DEF OwnOutputs
      <4>2. ref.column \in Outputs(i)
        BY <4>1 DEF Outputs, OutputName
      <4>3. ref.clause \notin {"group", "order"}
        BY <2>1, <2>9, <3>1, <4>2 DEF IsOutput
      <4>4. "ALIAS_MISUSE" \in BareCode(i, ref)
        BY <2>5, <2>9, <3>0, <3>1, <4>3 DEF BareCode
      <4> QED BY <2>4, <4>4
    <3>2. CASE ref.column \notin OwnOutputs(i)
      <4>1. "UNKNOWN_COLUMN" \in BareCode(i, ref)
        BY <2>5, <2>9, <3>0, <3>2 DEF BareCode
      <4> QED BY <2>4, <4>1
    <3> QED BY <3>1, <3>2
  <2> QED BY <2>6, <2>7, <2>8, <2>9
<1>2. CASE ref.alias # ""
  <2> DEFINE found == LookupAlias(i, ref.alias)
             meant == Meant(i, AliasedBy(ref.alias))
  <2>1. \A s \in meant : ref.column \notin ColumnsOf(s)
    BY <1>2 DEF Resolves, AliasedBy
  <2>2. ~StructPlausible(i, ref.alias)
    BY <1>2 DEF Provable
  <2>3. CASE found # {}
    <3>1. meant = found
      BY <2>3, LookupMeans
    <3>2. PICK j \in Reach(i) : j \in DOMAIN tree /\ found = Aliased(j, ref.alias)
      BY <2>3, LookupFrom
    <3>3. PICK s \in found : TRUE
      BY <2>3
    <3>4. ~Opaque(s)
      <4>1. s \in Sources(j)
        BY <3>2, <3>3 DEF Aliased
      <4> QED BY <3>2, <4>1 DEF Provable, HasOpaque
    <3>5. ref.column \notin ColumnsOf(s)
      BY <2>1, <3>1, <3>3
    <3>6. Report("UNKNOWN_COLUMN", DisplayName(s), ref) \in Faults(i, ref)
      BY <1>2, <2>3, <3>3, <3>4, <3>5 DEF Faults
    <3> QED BY <3>6 DEF Report
  <2>4. CASE found = {}
    <3>1. Report("UNKNOWN_TABLE_ALIAS", "", ref) \in Faults(i, ref)
      BY <1>2, <2>2, <2>4 DEF Faults
    <3> QED BY <3>1 DEF Report
  <2> QED BY <2>3, <2>4
<1> QED BY <1>1, <1>2

-----------------------------------------------------------------------------
(* Types.                                                                   *)

ViolationType ==
  [code : Codes, db : Schemas \cup {""}, column : Columns \cup {""},
   table : TableNames \cup Aliases \cup {""}, alias : Aliases \cup {""}]

LEMMA FaultsTyped ==
  ASSUME Typed, Shaped, NEW i \in DOMAIN tree, NEW ref \in Reference
  PROVE  Faults(i, ref) \subseteq ViolationType
<1>1. ref.column \in Columns /\ ref.alias \in Aliases \cup {""}
  BY DEF Reference
<1>2. ASSUME NEW code \in Codes, NEW table \in TableNames \cup Aliases \cup {""}
      PROVE  Report(code, table, ref) \in ViolationType
  BY <1>1 DEF Report, ViolationType
<1>3. BareCode(i, ref) \subseteq Codes
  BY DEF BareCode, Codes
<1>4. ASSUME NEW s \in LookupAlias(i, ref.alias) PROVE DisplayName(s) \in TableNames \cup Aliases \cup {""}
  <2>1. PICK j \in DOMAIN tree : LookupAlias(i, ref.alias) = Aliased(j, ref.alias)
    BY LookupFrom
  <2>2. s \in Source
    BY <2>1, SourceTyped DEF Typed, Aliased
  <2> QED BY <2>2 DEF DisplayName, Source
<1> SUFFICES ASSUME NEW v \in Faults(i, ref) PROVE v \in ViolationType
  OBVIOUS
<1>5. CASE ref.alias = ""
  <2>1. PICK code \in BareCode(i, ref) : v = Report(code, "", ref)
    BY <1>5 DEF Faults
  <2> QED BY <1>2, <1>3, <2>1
<1>6. CASE ref.alias # "" /\ LookupAlias(i, ref.alias) # {}
  <2>1. PICK s \in LookupAlias(i, ref.alias) : v = Report("UNKNOWN_COLUMN", DisplayName(s), ref)
    BY <1>6 DEF Faults
  <2> QED BY <1>2, <1>4, <2>1 DEF Codes
<1>7. CASE ref.alias # "" /\ LookupAlias(i, ref.alias) = {}
  <2>1. v = Report("UNKNOWN_TABLE_ALIAS", "", ref)
    BY <1>7 DEF Faults
  <2> QED BY <1>2, <2>1 DEF Codes
<1> QED BY <1>5, <1>6, <1>7

LEMMA AllFaultsTyped == ASSUME Typed, Shaped PROVE AllFaults \subseteq ViolationType
<1> SUFFICES ASSUME NEW v \in AllFaults PROVE v \in ViolationType
  OBVIOUS
<1>1. PICK i \in DOMAIN tree : v \in UNION {Faults(i, ref) : ref \in References(i)}
  BY DEF AllFaults
<1>2. PICK ref \in References(i) : v \in Faults(i, ref)
  BY <1>1
<1>3. ref \in Reference
  BY ReferencesTyped DEF Typed
<1> QED BY <1>2, <1>3, FaultsTyped

LEMMA NamedIs ==
  ASSUME Typed, NEW at \in Named
  PROVE  /\ at[1] \in DOMAIN tree /\ at[2] \in DOMAIN tree[at[1]].sources
         /\ SourceAt(at) \in Source /\ SourceAt(at) \in Sources(at[1])
<1>0. \A p \in UNION {{i} \X DOMAIN tree[i].sources : i \in DOMAIN tree} :
        p[1] \in DOMAIN tree /\ p[2] \in DOMAIN tree[p[1]].sources
  OBVIOUS
<1>1. at[1] \in DOMAIN tree /\ at[2] \in DOMAIN tree[at[1]].sources
  BY <1>0 DEF Named
<1> QED BY <1>1, SourceTyped DEF Typed, SourceAt, Sources

LEMMA UnknownTablesTyped == ASSUME Typed PROVE UnknownTables \subseteq ViolationType
<1> SUFFICES ASSUME NEW at \in Named PROVE UnknownTable(SourceAt(at)) \in ViolationType
  BY DEF UnknownTables
<1>1. SourceAt(at) \in Source
  BY NamedIs
<1> QED BY <1>1 DEF UnknownTable, ViolationType, Source, Codes

\* A name has at most one table, in a catalog without duplicates.
LEMMA ResolvesOnce ==
  ASSUME ~Duplicates(catalog.tables), NEW name, NEW db
  PROVE  /\ Resolve(name, db) \subseteq catalog.tables
         /\ Cardinality(Resolve(name, db)) <= 1
<1>1. Resolve(name, db) \subseteq catalog.tables
  BY ResolveFound DEF by_name
<1>2. ASSUME NEW schema PROVE \A t, u \in by_key(schema, name) : t = u
  BY DEF by_key, by_name, Duplicates
<1>3. Cardinality(Sole(by_name(name))) <= 1
  BY FS_EmptySet DEF Sole
<1>4. ASSUME NEW S, \A t, u \in S : t = u PROVE Cardinality(S) <= 1
  <2>1. CASE S = {}
    BY <2>1, FS_EmptySet
  <2>2. CASE S # {}
    <3>1. PICK t \in S : S = {t}
      BY <1>4, <2>2
    <3>2. Cardinality(S) = 1
      BY <3>1, FS_Singleton
    <3> QED BY <3>2
  <2> QED BY <2>1, <2>2
<1>5. \/ \E schema : Resolve(name, db) = by_key(schema, name)
      \/ Resolve(name, db) = Sole(by_name(name))
  BY DEF Resolve
<1>6. Cardinality(Resolve(name, db)) <= 1
  BY <1>2, <1>3, <1>4, <1>5
<1> QED BY <1>1, <1>6

\* Faults are found in the statement and the catalog alone.
LEMMA SameFaults ==
  ASSUME UNCHANGED <<catalog, tree>>
  PROVE  AllFaults' = AllFaults /\ UnknownTables' = UnknownTables
<1>1. \A name, db : Resolve(name, db)' = Resolve(name, db)
  BY DEF Resolve, by_key, by_name, Sole, has_schemas
<1>2. \A i : Sources(i)' = Sources(i) /\ Outputs(i)' = Outputs(i) /\ References(i)' = References(i)
  BY DEF Sources, Outputs, References
<1>3. \A s : (Opaque(s)' <=> Opaque(s)) /\ ColumnsOf(s)' = ColumnsOf(s)
  BY <1>1, <1>2 DEF Opaque, ColumnsOf
<1>4. \A i : \A name : Hits(i, name)' = Hits(i, name) /\ Aliased(i, name)' = Aliased(i, name)
  BY <1>2, <1>3 DEF Hits, Aliased
<1>5. \A i : (HasOpaque(i)' <=> HasOpaque(i)) /\ OwnOutputs(i)' = OwnOutputs(i)
              /\ (can_correlate(i)' <=> can_correlate(i))
  BY <1>2, <1>3 DEF HasOpaque, OwnOutputs, can_correlate
<1>6. \A i, alias : LookupAlias(i, alias)' = LookupAlias(i, alias)
  BY <1>4, <1>5 DEF LookupAlias, Aliased, Sources, can_correlate
<1>7. \A i, column : FoundAround(i, column)' = FoundAround(i, column)
  <2> SUFFICES ASSUME NEW i, NEW column PROVE FoundAround(i, column)' = FoundAround(i, column)
    OBVIOUS
  <2> DEFINE around(f, t, hits, opaque) ==
               [j \in DOMAIN t |-> t[j].kind = "subquery" /\ \/ hits[j] # {} \/ opaque[j] \/ f[t[j].within]]
             hits == [j \in DOMAIN tree |-> Hits(tree[j].within, column)]
             opaque == [j \in DOMAIN tree |-> HasOpaque(tree[j].within)]
  <2>1. tree' = tree /\ catalog' = catalog
    OBVIOUS
  <2>2. FoundAround(i, column) = (CHOOSE f : f = around(f, tree, hits, opaque))[i]
    BY DEF FoundAround, can_correlate
  <2>3. FoundAround(i, column)' = (CHOOSE f : f = around(f, tree, hits, opaque))'[i]
    BY DEF FoundAround, can_correlate
  <2>4. (CHOOSE f : f = around(f, tree, hits, opaque))' = (CHOOSE f : f = around(f, tree', hits', opaque'))
    OBVIOUS
  <2>5. hits' = hits /\ opaque' = opaque
    <3>1. \A k : Hits(k, column)' = Hits(k, column) /\ HasOpaque(k)' = HasOpaque(k)
      BY <1>4, <1>5 DEF HasOpaque
    <3> QED BY <2>1, <3>1
  <2> HIDE DEF around, hits, opaque
  <2> QED BY <2>1, <2>2, <2>3, <2>4, <2>5
<1>8. \A i, alias : StructPlausible(i, alias)' <=> StructPlausible(i, alias)
  BY <1>1, <1>2, <1>3 DEF StructPlausible
<1>9. \A i, ref : BareCode(i, ref)' = BareCode(i, ref)
  BY <1>4, <1>5, <1>7 DEF BareCode
<1>10. \A i, ref : Faults(i, ref)' = Faults(i, ref)
  BY <1>3, <1>6, <1>8, <1>9 DEF Faults
<1>11. AllFaults' = AllFaults
  BY <1>2, <1>10 DEF AllFaults
<1>12. UnknownTables' = UnknownTables
  BY SameTables DEF UnknownTables, Named, SourceAt, TableAt
<1> QED BY <1>11, <1>12

\* What was found is kept until the caller has repaired what was reported.
Judged ==
  Bound => /\ violations \subseteq UnknownTables \cup AllFaults
           /\ \A v \in AllFaults : \E w \in violations : Key(v) = Key(w)

\* The caller's attempts, by the point it has come to.
Counted ==
  /\ pc \in {"construct", "refused", "validate", "repair", "gave_up", "qualify", "returned", "not_qualified"}
  /\ attempt \in 0..Attempts
  /\ pc \in {"construct", "validate", "repair"} => attempt < Attempts

\* What is kept of the catalog and of the last answer has its type.
Recorded ==
  /\ pc \notin {"construct", "refused"} => ~Duplicates(catalog.tables)
  /\ pc = "construct" => bound = << >>
  /\ violations \subseteq ViolationType
  /\ \A at \in DOMAIN bound : at \in Named /\ bound[at] \subseteq catalog.tables /\ Cardinality(bound[at]) <= 1

\* The invariant.
Sound == Typed /\ Shaped /\ Counted /\ Recorded /\ Judged

LEMMA SoundInit == Init => Sound
<1> SUFFICES ASSUME Init PROVE Sound
  OBVIOUS
<1>1. Typed
  BY TypedInit
<1>2. Statement(tree)
  BY RequestsAssumption DEF Init
<1>3. Shaped
  BY <1>2 DEF Statement, Shaped
<1>4. Counted
  BY AttemptsAssumption DEF Init, Counted
<1>5. DOMAIN bound = {} /\ violations = {} /\ pc = "construct"
  BY DEF Init
<1> QED BY <1>1, <1>3, <1>4, <1>5 DEF Init, Sound, Recorded, Judged, Bound

LEMMA ConstructSound == ASSUME Sound, Construct PROVE Sound'
<1>1. /\ UNCHANGED <<tree, attempt, violations, bound>> /\ pc = "construct"
      /\ \/ pc' = "refused" /\ catalog' = catalog
         \/ ~Refused(catalog) /\ pc' = "validate" /\ catalog' = [catalog EXCEPT !.tables = Filled(catalog)]
  BY DEF Construct
<1>2. Typed'
  BY ConstructTyped DEF Sound
<1>3. Shaped'
  BY <1>1 DEF Sound, Shaped
<1>4. Counted'
  BY <1>1 DEF Sound, Counted
<1>5. pc' # "refused" => ~Duplicates(catalog'.tables)
  <2>1. ~Refused(catalog) => ~Duplicates(Filled(catalog))
    BY DEF Refused
  <2>2. catalog' = [catalog EXCEPT !.tables = Filled(catalog)] => catalog'.tables = Filled(catalog)
    BY DEF Sound, Typed, CatalogSpec
  <2> QED BY <1>1, <2>1, <2>2
<1>6. Recorded'
  <2>1. DOMAIN bound = {}
    BY <1>1 DEF Sound, Recorded
  <2> QED BY <1>1, <1>5, <2>1 DEF Sound, Recorded
<1> QED BY <1>1, <1>2, <1>3, <1>4, <1>6 DEF Sound, Judged, Bound

LEMMA BindSound == ASSUME Sound, BindNames PROVE Sound'
<1>1. /\ UNCHANGED <<catalog, tree>> /\ pc = "validate" /\ attempt' = attempt + 1
      /\ bound' = [at \in Named |-> TableAt(at)]
      /\ pc' \in {"qualify", "repair", "gave_up"} /\ (pc' = "repair" => attempt' < Attempts)
  BY DEF BindNames
<1>2. PICK R \in ReportedOnce(AllFaults) : violations' = UnknownTables \cup R
  BY DEF BindNames
<1>3. R \subseteq AllFaults /\ \A v \in AllFaults : \E w \in R : Key(v) = Key(w)
  BY DEF ReportedOnce
<1>4. Typed' /\ Shaped'
  BY <1>1 DEF Sound, Typed, Shaped, ScopesExist
<1>5. Counted'
  BY <1>1, AttemptsAssumption DEF Sound, Counted
<1>6. Recorded'
  <2>1. violations' \subseteq ViolationType
    BY <1>2, <1>3, AllFaultsTyped, UnknownTablesTyped DEF Sound
  <2>2. ~Duplicates(catalog.tables)
    BY <1>1 DEF Sound, Recorded
  <2>3. Named' = Named
    BY <1>1 DEF Named
  <2>4. \A at \in Named : TableAt(at) \subseteq catalog.tables /\ Cardinality(TableAt(at)) <= 1
    BY <2>2, ResolvesOnce DEF TableAt
  <2> QED BY <1>1, <2>1, <2>2, <2>3, <2>4 DEF Recorded, ViolationType
<1>7. Judged'
  <2>1. AllFaults' = AllFaults /\ UnknownTables' = UnknownTables
    BY <1>1, SameFaults
  <2> QED BY <1>2, <1>3, <2>1 DEF Judged, Key
<1> QED BY <1>4, <1>5, <1>6, <1>7 DEF Sound

\* What a step leaves of a record whose statement keeps its names.
LEMMA RecordKept ==
  ASSUME Recorded, UNCHANGED <<catalog, violations, bound>>, Named' = Named,
         {pc, pc'} \cap {"construct", "refused"} = {} \/ pc' = pc
  PROVE  Recorded'
<1>1. Duplicates(catalog.tables)' <=> Duplicates(catalog.tables)
  BY DEF Duplicates
<1>2. (pc' \notin {"construct", "refused"} => ~Duplicates(catalog.tables)) /\ (pc' = "construct" => bound = << >>)
  BY DEF Recorded
<1> QED BY <1>1, <1>2 DEF Recorded, ViolationType

LEMMA RepairSound == ASSUME Sound, RepairStatement PROVE Sound'
<1>1. UNCHANGED <<catalog, attempt, violations, bound>> /\ pc = "repair" /\ pc' = "validate"
  BY DEF RepairStatement
<1>2. Typed' /\ SameShape(tree, tree') /\ Named' = Named
  BY RepairTyped DEF Sound
<1>3. Shaped'
  BY <1>2, ShapeKept DEF Sound
<1>4. Counted' /\ Judged'
  BY <1>1 DEF Sound, Counted, Judged, Bound
<1>5. Recorded'
  BY <1>1, <1>2, RecordKept DEF Sound
<1> QED BY <1>2, <1>3, <1>4, <1>5 DEF Sound

LEMMA QualifySound == ASSUME Sound, QualifyTree PROVE Sound'
<1>1. /\ UNCHANGED <<catalog, attempt, violations, bound>> /\ pc = "qualify"
      /\ pc' = "returned" \/ (pc' = "not_qualified" /\ tree' = tree)
  BY DEF QualifyTree
<1>2. Typed' /\ Shaped' /\ Named' = Named
  <2>1. CASE pc' = "returned"
    <3>1. Typed' /\ SameShape(tree, tree') /\ Named' = Named
      BY <2>1, QualifyKeepsNames DEF Sound
    <3> QED BY <3>1, ShapeKept DEF Sound
  <2>2. CASE tree' = tree
    BY <1>1, <2>2 DEF Sound, Typed, ScopesExist, Shaped, Named
  <2> QED BY <1>1, <2>1, <2>2
<1>3. Counted' /\ Judged'
  BY <1>1 DEF Sound, Counted, Judged, Bound
<1>4. Recorded'
  BY <1>1, <1>2, RecordKept DEF Sound
<1> QED BY <1>2, <1>3, <1>4 DEF Sound

LEMMA StutterSound == ASSUME Sound, UNCHANGED vars PROVE Sound'
<1>1. UNCHANGED <<catalog, tree, pc, attempt, violations, bound>>
  BY DEF vars
<1>2. Typed' /\ Shaped' /\ Counted' /\ Named' = Named
  BY <1>1 DEF Sound, Typed, ScopesExist, Shaped, Counted, Named
<1>3. Recorded'
  BY <1>1, <1>2, RecordKept DEF Sound
<1>4. Judged'
  BY <1>1, SameFaults DEF Sound, Judged, Bound, Key
<1> QED BY <1>2, <1>3, <1>4 DEF Sound

LEMMA SoundStep == Sound /\ [Next]_vars => Sound'
<1> SUFFICES ASSUME Sound, [Next]_vars PROVE Sound'
  OBVIOUS
<1>1. CASE Construct
  BY <1>1, ConstructSound
<1>2. CASE BindNames
  BY <1>2, BindSound
<1>3. CASE RepairStatement
  BY <1>3, RepairSound
<1>4. CASE QualifyTree
  BY <1>4, QualifySound
<1>5. CASE UNCHANGED vars
  BY <1>5, StutterSound
<1> QED BY <1>1, <1>2, <1>3, <1>4, <1>5 DEF Next

-----------------------------------------------------------------------------

\* Every state is typed: repairs and qualification leave a statement, what is
\* reported is a violation of bind_names, and a name is bound to one table of
\* the catalog at most, which has no duplicates once it is constructed.
THEOREM TypeCorrect == Spec => []TypeOK
<1>1. Sound => TypeOK
  BY DEF Sound, Typed, Counted, Recorded, ViolationType, TypeOK
<1> QED BY <1>1, SoundInit, SoundStep, PTL DEF Spec

\* A violation that is kept has the column of the fault it stands for.
LEMMA KeyKeepsColumn ==
  ASSUME NEW v \in ViolationType, NEW w \in ViolationType, Key(v) = Key(w) PROVE v.column = w.column
<1>1. \A u \in ViolationType : Key(u).column = u.column
  BY DEF Key, ViolationType
<1> QED BY <1>1

\* A name that the database cannot resolve is reported, whatever the statement:
\* the lookup around subqueries and the output aliases find what is there only,
\* and the fault or another one with its column is in the answer.
THEOREM FaultsAreReportedAlways == Spec => []FaultsAreReported
<1>1. Sound => FaultsAreReported
  <2> SUFFICES ASSUME Sound, Bound, NEW i \in DOMAIN tree, NEW ref \in References(i),
                      Provable(i, ref), ~Resolves(i, ref)
               PROVE  \/ \E v \in violations : v.column = ref.column
                      \/ /\ ref.alias = "" /\ Hits(i, ref.column) = {}
                         /\ Cardinality(Meant(i, [j \in DOMAIN tree |-> Hits(j, ref.column)])) > 1
    BY DEF FaultsAreReported
  <2>1. Typed /\ Shaped /\ Judged /\ Recorded
    BY DEF Sound
  <2>2. \/ \E v \in Faults(i, ref) : v.column = ref.column
        \/ ref.alias = "" /\ Hits(i, ref.column) = {} /\ Cardinality(Meant(i, HavingColumn(ref.column))) > 1
    BY <2>1, UnresolvedIsFault
  <2>3. ASSUME NEW v \in Faults(i, ref), v.column = ref.column
        PROVE  \E w \in violations : w.column = ref.column
    <3>1. v \in AllFaults
      BY DEF AllFaults
    <3>2. PICK w \in violations : Key(v) = Key(w)
      BY <2>1, <3>1 DEF Judged
    <3>3. v \in ViolationType /\ w \in ViolationType
      BY <2>1, <3>1, <3>2, AllFaultsTyped DEF Recorded
    <3> QED BY <2>3, <3>2, <3>3, KeyKeepsColumn
  <2> QED BY <2>2, <2>3 DEF HavingColumn
<1> QED BY <1>1, SoundInit, SoundStep, PTL DEF Spec

\* What is reported is a fault of a reference that does not resolve, except for
\* an ORDER BY that names an output and for a name found nowhere below a derived
\* table in a subquery: no other caller is sent to repair what would run.
THEOREM ReportedIsFaultAlways == Spec => []ReportedIsFault
<1>1. Sound => ReportedIsFault
  <2> SUFFICES ASSUME Sound, Bound, NEW v \in violations, v.code # "UNKNOWN_TABLE"
               PROVE  \E i \in DOMAIN tree : \E ref \in References(i) :
                        /\ v \in Faults(i, ref)
                        /\ ~OrdersByOutput(i, ref) /\ ~HiddenByDerived(i, ref) => ~Resolves(i, ref)
    BY DEF ReportedIsFault
  <2>1. Typed /\ Shaped /\ Judged
    BY DEF Sound
  <2>2. v \notin UnknownTables
    <3>1. \A s : UnknownTable(s).code = "UNKNOWN_TABLE"
      BY DEF UnknownTable
    <3> QED BY <3>1 DEF UnknownTables
  <2>3. v \in AllFaults
    BY <2>1, <2>2 DEF Judged
  <2>4. PICK i \in DOMAIN tree : v \in UNION {Faults(i, ref) : ref \in References(i)}
    BY <2>3 DEF AllFaults
  <2>5. PICK ref \in References(i) : v \in Faults(i, ref)
    BY <2>4
  <2>6. ~OrdersByOutput(i, ref) /\ ~HiddenByDerived(i, ref) => ~Resolves(i, ref)
    BY <2>1, <2>5, FaultIsReal
  <2> QED BY <2>5, <2>6
<1> QED BY <1>1, SoundInit, SoundStep, PTL DEF Spec
=============================================================================
