--------------------------- MODULE MCNameBinding ---------------------------
(* Two tables with a column in common, in one schema, in two or in none,    *)
(* and statements of one to three selects over them.                        *)
EXTENDS NameBinding

TableIn(schema, name, columns) ==
  [schema |-> schema, name |-> name, columns |-> columns, structs |-> columns \cap {"note"}]
Orders(schema) == TableIn(schema, "orders", {"id", "total"})
Users(schema) == TableIn(schema, "users", {"id", "note"})

Given(tables, default) == [tables |-> tables, default_schema |-> default]
Plain == Given({Orders(""), Users("")}, "")
MCCatalogs ==
  {Given({Orders(s), Users(u)}, d) : s \in {"", "sales"}, u \in {"", "sales", "hr"}, d \in {"", "sales"}}
    \cup {Given({Orders("sales"), Orders("hr"), Users("sales")}, d) : d \in {"", "hr"}}
    \cup {Given({Orders(""), TableIn("sales", "orders", {"id"})}, "sales")}

NamedAs(alias, db, name) == [alias |-> alias, db |-> db, name |-> name, scope |-> 0]
Derived(alias, i) == [alias |-> alias, db |-> "", name |-> "", scope |-> i]
Col(alias, column, as) == [alias |-> alias, column |-> column, as |-> as]
Ref(alias, column, clause) == [alias |-> alias, column |-> column, clause |-> clause]

SelectOf(kind, within, sources, items, refs) ==
  [kind |-> kind, within |-> within, sources |-> sources, star |-> FALSE, items |-> items, refs |-> refs]
Starred(select) == [select EXCEPT !.star = TRUE, !.items = {}]

\* References of every clause, to a column or none, with an alias, without, or
\* with an unknown one.
RefsOver(aliases) ==
  {Ref(a, c, "where") : a \in aliases \cup {"", "x"}, c \in {"id", "total"}}
    \cup {Ref("", c, k) : c \in {"id", "sum"}, k \in {"group", "order", "where"}}
    \cup {Ref("note", "id", "where")}

Items == {{Col("a", "id", "")}, {Col("", "sum", "")}, {Col("a", "id", "sum")}, {Col("x", "id", ""), Col("", "id", "")}}

Flat ==
  {<<SelectOf("root", 0, from, its, {ref})>> :
     from \in {<<NamedAs("a", d, n)>> : d \in {"", "sales"}, n \in {"orders", "users", "gone"}}
                \cup {<<NamedAs("a", "", "orders"), NamedAs("b", "", n)>> : n \in {"users", "gone"}},
     its \in Items, ref \in RefsOver({"a"})}

\* A subquery in the WHERE, correlated or not.
Correlated ==
  {<<SelectOf("subquery", 2, <<NamedAs("c", "", n)>>, {Col("c", "id", "")}, {ref}),
     SelectOf("root", 0, <<NamedAs("a", "", "orders")>> \o more, {Col("a", "id", "sum")}, {})>> :
     n \in {"users", "gone"}, more \in {<< >>, <<NamedAs("b", "", "users")>>},
     ref \in RefsOver({"a", "c"})}

\* A derived table, and one below it or in a subquery.
Nested ==
  {<<inner, SelectOf("root", 0, <<Derived("d", 1)>>, {it}, {ref})>> :
     inner \in UNION {{s, Starred(s)} : s \in {SelectOf("derived", 2, <<NamedAs("a", "", n)>>, its, {}) :
                                                  n \in {"orders", "gone"}, its \in Items}},
     it \in {Col("d", "sum", ""), Col("", "id", "")}, ref \in RefsOver({"a", "d"})}
ThreeDeep ==
  {<<SelectOf("derived", 2, <<NamedAs("a", "", "gone")>>, {Col("a", "sum", "")}, {}),
     SelectOf("derived", 3, <<Derived("d", 1)>>, {Col("d", "sum", "")}, {}),
     SelectOf("root", 0, <<Derived("e", 2)>>, {Col("e", "sum", "")}, {Ref("e", "total", "where")})>>}
BelowSubquery ==
  {<<SelectOf("derived", 2, <<NamedAs("c", "", "users")>>, {Col("c", "id", "")}, {ref}),
     SelectOf("subquery", 3, <<Derived("d", 1)>>, {Col("d", "id", "")}, {}),
     SelectOf("root", 0, <<NamedAs("a", "", "orders")>>, {Col("a", "id", "")}, {})>> :
     ref \in RefsOver({"a", "c"})}

On(c, t) == [catalog |-> c, statement |-> t]
MCRequests ==
  {On(c, t) : c \in MCCatalogs, t \in Flat}
    \cup {On(Plain, t) : t \in Correlated \cup Nested \cup ThreeDeep \cup BelowSubquery}
=============================================================================
