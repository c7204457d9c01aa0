--------------------------- MODULE MCColumnRules ---------------------------
(* Statements of one to three scopes over a table with a restricted column  *)
(* and one with a column a rule may or may not name.                        *)
EXTENDS ColumnRules

MCColumnsOf == [users |-> <<"id", "ssn">>, staff |-> <<"note", "id">>]

MCTagged == {<<"users", "ssn">>}

Rules(columns, tables, tagged, action) ==
  [columns |-> columns, any_table |-> tables = {}, tables |-> tables,
   tagged |-> tagged, action |-> action]

MCRuleSets ==
  {{}} \cup {{Rules({"ssn"}, {}, FALSE, a)} : a \in {"deny", "exclude_from_star"}}
    \cup {{Rules({"id", "ssn", "note", "s"}, {}, TRUE, a)} : a \in {"deny", "exclude_from_star"}}
    \cup {{Rules({"id"}, {"staff"}, FALSE, "deny")},
          {Rules({"id", "ssn"}, {"users"}, FALSE, "deny")},
          {Rules({"ssn"}, {}, FALSE, "deny"), Rules({"note"}, {"staff"}, FALSE, "exclude_from_star")}}

Table(t) == [table |-> t, scope |-> 0]
Derived(i) == [table |-> "", scope |-> i]
Ref(k, c) == [source |-> k, column |-> c]
ItemOf(name, c, plain) == [name |-> name, ref |-> Ref(1, c), plain |-> plain]

\* A select with the names of its outputs.
Selecting(source, names, star, its, filter) ==
  [scope |-> [op |-> "select", sources |-> <<source>>, star |-> star, items |-> its,
              filter |-> filter],
   names |-> (IF star THEN names ELSE {}) \cup {its[p].name : p \in DOMAIN its}]

\* A column, a renamed or a computed one.
Columns(names) == {ItemOf(n, n, TRUE) : n \in names}
Others(names) == {ItemOf("s", n, b) : n \in names, b \in BOOLEAN}

\* The selects over a source with the given names.
SelectsOf(source, names, filters) ==
  {Selecting(source, names, TRUE, << >>, f) : f \in filters}
    \cup {Selecting(source, names, FALSE, <<it>>, f) : it \in Columns(names) \cup Others(names), f \in filters}
    \cup (IF "s" \in names THEN {}
          ELSE {Selecting(source, names, TRUE, <<it>>, f) : it \in Others(names), f \in filters})

NoFilter == {{}}
Filters(names) == NoFilter \cup {{Ref(1, n)} : n \in names}

NamesIn(t) == {MCColumnsOf[t][p] : p \in {1, 2}}
Bases(filtered) ==
  UNION {SelectsOf(Table(t), NamesIn(t), IF filtered THEN Filters(NamesIn(t)) ELSE NoFilter) :
         t \in Tables}

\* The plainest lists: a star, or one column.
Short(source, names) ==
  {Selecting(source, names, TRUE, << >>, {})}
    \cup {Selecting(source, names, FALSE, <<it>>, {}) : it \in Columns(names)}
Operands == UNION {Short(Table(t), NamesIn(t)) : t \in Tables}

\* No column of the table.
Unresolved == Selecting(Table("users"), {}, FALSE, <<ItemOf("s", "note", TRUE)>>, {})

One == {<<b.scope>> : b \in Bases(TRUE) \cup {Unresolved}}
Two ==
  (UNION {{<<b.scope, s.scope>> : s \in SelectsOf(Derived(1), b.names, NoFilter)} : b \in Bases(TRUE)})
    \cup UNION {{<<b.scope, s.scope>> : s \in SelectsOf(Derived(1), b.names, Filters(b.names))} :
                b \in Bases(FALSE)}
Three ==
  UNION {UNION {{<<b.scope, s.scope, r.scope>> : r \in Short(Derived(2), s.names)} :
                s \in SelectsOf(Derived(1), b.names, NoFilter)} : b \in Bases(FALSE)}

\* A star over two sources.
Joined(b) ==
  <<b.scope, [op |-> "select", sources |-> <<Table("users"), Derived(1)>>, star |-> TRUE,
              items |-> << >>, filter |-> {}]>>
Joins == {Joined(b) : b \in Bases(FALSE)}

\* Two selects with as many outputs, combined, and a list over the result.
Combined(op) == [op |-> op, sources |-> <<Derived(1), Derived(2)>>, star |-> FALSE,
                 items |-> << >>, filter |-> {}]
SetOperations ==
  UNION {{<<b[1].scope, b[2].scope, Combined(op), r.scope>> :
            r \in Short(Derived(3), b[1].names), op \in {"union", "intersect", "except"}} :
         b \in {b \in Operands \X Operands : Cardinality(b[1].names) = Cardinality(b[2].names)}}

MCRequests ==
  {[rules |-> r, scopes |-> s] :
     r \in MCRuleSets, s \in One \cup Two \cup Three \cup Joins \cup SetOperations}

\* Rows in order: the users' ssn follows the id or not, and so does the note.
RowsOf(same) == IF same THEN << <<0, 0>>, <<1, 1>> >> ELSE << <<0, 1>>, <<1, 0>> >>
MCDatabases == {[users |-> RowsOf(a), staff |-> RowsOf(b)] : a \in BOOLEAN, b \in BOOLEAN}
=============================================================================
