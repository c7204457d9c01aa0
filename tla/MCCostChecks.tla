---------------------------- MODULE MCCostChecks ----------------------------
(* Statements of one to three selects and up to three sources, over a       *)
(* partitioned table, one partitioned by the column of the row filter, one  *)
(* with a row count only and one without statistics.                        *)
EXTENDS CostChecks

Entries(columns, rows, bytes, partition, columnar) ==
  [columns |-> columns, row_count |-> rows, total_bytes |-> bytes,
   partition_columns |-> partition, columnar |-> columnar]

MCCatalog ==
  [events |-> Entries({"id", "dt", "org"}, None, 60, {"dt"}, TRUE),
   logs   |-> Entries({"id", "org"}, 10, 41, {"org"}, TRUE),
   users  |-> Entries({"id", "dt"}, 20, None, {}, FALSE),
   notes  |-> Entries({"id"}, None, None, {}, TRUE)]

MCPolicy(check, rls, strategy, require, missing, bytes) ==
  [check_joins |-> check, strict_joins |-> strategy = "subquery", rls |-> rls,
   rls_strategy |-> strategy, require_partition_filter |-> require,
   partition_selectivity |-> 10, on_missing_stats |-> missing,
   max_bytes_scanned |-> bytes, max_rows_scanned |-> IF bytes = None THEN 15 ELSE None]

MCPolicies ==
  {MCPolicy(TRUE, TRUE, s, r, "warn", b) : s \in {"predicate", "subquery"}, r \in BOOLEAN, b \in {None, 45}}
    \cup {MCPolicy(FALSE, FALSE, "predicate", FALSE, m, b) : m \in {"ignore", "error"}, b \in {None, 60}}

NamedTable(alias, table, join, on) ==
  [alias |-> alias, table |-> table, scope |-> 0, join |-> join, on |-> on, wrapped |-> FALSE]
DerivedTable(alias, i, join, on) == [NamedTable(alias, "", join, on) EXCEPT !.scope = i]

Plain(alias, column) == [alias |-> alias, column |-> column, compared |-> FALSE]
Compared(alias, column) == [alias |-> alias, column |-> column, compared |-> TRUE]
Cond(uses) == [uses |-> uses, inner |-> {}, compared |-> TRUE]
SubqueryCond(uses, i, compared) == [uses |-> uses, inner |-> {i}, compared |-> compared]

SelectFrom(sources, where, items) ==
  [sources |-> sources, where |-> where, items |-> items, star |-> FALSE]
StarFrom(sources, where) == [SelectFrom(sources, where, {}) EXCEPT !.star = TRUE]

Link(a, b) == Cond({Compared(a, "id"), Compared(b, "id")})
Dt(a) == Cond({Compared(a, "dt")})
IdOf(a) == {Plain(a, "id")}

\* One source: a column, none or a star; filtered or not.
Single(alias, table) ==
  LET from == <<NamedTable(alias, table, "from", {})>>
      wheres == IF table = "events" THEN {{}, {Dt(alias)}} ELSE {{}}
  IN  {SelectFrom(from, w, it) : w \in wheres, it \in {{}, IdOf(alias)}}
        \cup {StarFrom(from, w) : w \in wheres}
Singles == {<<s>> : s \in UNION {Single("a", t) : t \in {"events", "logs", "users", "notes"}}}

\* Two sources: every join, with a filter or a link in the ON or the WHERE.
OnsOf(join) ==
  IF join \in {"comma", "unnest"} THEN {{}}
  ELSE {{}, {Link("a", "b")}, {Dt("a")}, {Link("a", "b"), Dt("a")}, {Link("a", "b"), Dt("b")}}
JoinKinds == {"comma", "inner", "left", "right", "unnest"}
Pairs ==
  {<<SelectFrom(<<NamedTable("a", t, "from", {}),
                  IF j[1] = "unnest" THEN DerivedTable("b", 0, "unnest", {})
                                     ELSE NamedTable("b", "events", j[1], j[2])>>, w, IdOf("a"))>> :
     t \in {"events", "users"}, j \in UNION {{k} \X OnsOf(k) : k \in JoinKinds},
     w \in {{}, {Link("a", "b")}, {Dt("a")}, {Dt("a"), Dt("b")}}}

\* Three sources, linked in any way or not at all.
Chains ==
  {<<SelectFrom(<<NamedTable("a", "users", "from", {}),
                  NamedTable("b", "logs", j, IF j = "comma" THEN {} ELSE {Link("a", "b")}),
                  NamedTable("c", "users", k, IF k = "comma" THEN {} ELSE {Link(o, "c")})>>, w, {})>> :
     j \in {"comma", "left"}, k \in {"comma", "inner", "right"}, o \in {"a", "b"},
     w \in SUBSET {Link("a", "b"), Link("b", "c"), Link("a", "c")}}

\* A subquery in the WHERE or in an ON, with the alias of the outer source or
\* one of its own, correlated or not.
Nested ==
  {<<i, SelectFrom(<<NamedTable("a", "events", "from", {})>>, {SubqueryCond(u, 1, c)} \cup w, IdOf("a"))>> :
     i \in Single("a", "events") \cup Single("b", "events") \cup
           {SelectFrom(<<NamedTable("b", "users", "from", {})>>, {Cond({Compared("b", "id"), Compared("a", "dt")})}, {})},
     u \in {{}, {Compared("a", "org")}}, c \in BOOLEAN, w \in {{}, {Dt("a")}}}
NestedInOn ==
  {<<i, SelectFrom(<<NamedTable("a", "users", "from", {}),
                     NamedTable("b", "events", j, {SubqueryCond({Compared("b", "id")}, 1, c)})>>, {}, IdOf("b"))>> :
     i \in Single("c", "events") \cup Single("b", "events"), j \in {"inner", "left"}, c \in BOOLEAN}

\* A derived table, alone or joined, with or without a subquery beside it.
OverDerived ==
  {<<i, SelectFrom(<<DerivedTable("d", 1, "from", {})>> \o more, w, IdOf("d"))>> :
     i \in Single("a", "events"), w \in {{}, {Dt("d")}},
     more \in {<< >>, <<NamedTable("b", "logs", "comma", {})>>,
               <<NamedTable("b", "events", "left", {Link("d", "b")})>>}}
ThreeSelects ==
  {<<i, o, SelectFrom(<<DerivedTable("d", 1, "from", {})>>, {SubqueryCond(IdOf("d"), 2, TRUE)}, {})>> :
     i \in Single("a", "events"), o \in Single("b", "events")}

MCStatements ==
  Singles \cup Pairs \cup Chains \cup Nested \cup NestedInOn \cup OverDerived \cup ThreeSelects
=============================================================================
