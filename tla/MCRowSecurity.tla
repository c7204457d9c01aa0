--------------------------- MODULE MCRowSecurity ---------------------------
(* Statements of one to three sources over a governed and an ungoverned     *)
(* table, with at most one conjunct on the governed column.                 *)
EXTENDS RowSecurity

MCColumnsOf == [orders |-> {"key", "tenant"}, notes |-> {"key"}]

ByTenant(tables, skip) == [tables |-> tables, column |-> "tenant", param |-> "tenant", skip |-> skip]
ByKey == [tables |-> {"orders"}, column |-> "key", param |-> "key", skip |-> FALSE]

Exact == {ByTenant({"orders"}, FALSE)}
RuleSets == {{ByTenant({"orders", "notes"}, TRUE)}, {ByTenant({"orders", "notes"}, FALSE)},
             {ByTenant({"orders"}, FALSE), ByKey}}

Enforcing(rules, strategies, parameterize, conflicts) ==
  [rules : rules, strategy : strategies, parameterize : parameterize, conflict : conflicts]

Passing(kind, vals) == [tenant |-> [kind |-> kind, vals |-> vals],
                        key |-> [kind |-> "scalar", vals |-> {1}]]
Scalar == Passing("scalar", {1})
Missing == Passing("missing", {1})
List == Passing("list", {1, 2})
Unusable == Passing("unusable", {})

Sourced(t, join, cond) == [table |-> t, join |-> join, cond |-> cond]
Froms == {Sourced(t, "from", "none") : t \in Tables}
Joins == {Sourced(t, j, c) : t \in Tables, j \in {"inner", "left", "right", "full"},
                             c \in {"on", "using", "natural"}}
           \cup {Sourced(t, "inner", "cross") : t \in Tables}
OnJoins == {s \in Joins : s.cond = "on"}

Conj(i, form, vals, bare) ==
  [source |-> i, column |-> "tenant", bare |-> bare, vals |-> vals, form |-> form,
   param |-> "tenant"]

\* The conjuncts on the sources up to n that have the column.
Conjuncts(sources, n) ==
  UNION {{Conj(i, "eq", {1}, FALSE), Conj(i, "eq", {2}, FALSE), Conj(i, "in", {1, 2}, FALSE),
          Conj(i, "cast", {1}, FALSE), Conj(i, "placeholder", {}, FALSE),
          Conj(i, "opaque", {1, 2}, FALSE), Conj(i, "eq", {1}, TRUE)} :
         i \in {i \in 1..n : sources[i].table = "orders"}}
Equalities(sources, n) == {c \in Conjuncts(sources, n) : c.form = "eq" /\ c.vals = {1} /\ ~c.bare}

NoOn(sources) == [i \in 1..Len(sources) |-> {}]
Plain(sources) == [sources |-> sources, where |-> {}, on |-> NoOn(sources)]

\* A statement with no conjunct, or with one in the WHERE or an ON.
Written(sources, C(_, _)) ==
  {Plain(sources)}
    \cup {[Plain(sources) EXCEPT !.where = {c}] : c \in C(sources, Len(sources))}
    \cup UNION {{[Plain(sources) EXCEPT !.on[i] = {c}] : c \in C(sources, i)} :
                i \in {i \in 1..Len(sources) : sources[i].cond = "on"}}

Short == {<<s>> : s \in Froms} \cup (Froms \X Joins)
Long == Froms \X Joins \X Joins
ShortQueries == UNION {Written(s, Conjuncts) : s \in Short}
LongQueries == UNION {Written(s, Equalities) : s \in Long}

Asking(policies, bindings, queries) == [policy : policies, params : bindings, query : queries]

MCRequests ==
  Asking(Enforcing({Exact}, {"predicate", "subquery", "require"}, BOOLEAN, {"error"}),
         {Scalar, Missing}, ShortQueries)
    \cup Asking(Enforcing({Exact}, {"predicate", "require"}, {FALSE}, {"warn"}),
                {Scalar, List, Unusable}, ShortQueries)
    \cup Asking(Enforcing(RuleSets, {"predicate", "subquery"}, {FALSE}, {"ignore"}),
                {Scalar}, ShortQueries)
    \cup Asking(Enforcing({Exact}, {"predicate", "subquery"}, {FALSE}, {"error"}),
                {Scalar, List}, LongQueries)

\* Requests enough to show what the two comments leave out.
JoinRequests ==
  Asking(Enforcing({Exact}, {"predicate"}, {FALSE}, {"error"}), {Scalar}, LongQueries)

RowsOf(t) == [MCColumnsOf[t] -> Values]
MCDatabases ==
  {[t \in Tables |-> RowsOf(t)],
   [orders |-> {r \in RowsOf("orders") : r.key = r.tenant}, notes |-> {r \in RowsOf("notes") : r.key = 1}],
   [orders |-> {r \in RowsOf("orders") : r.key # r.tenant}, notes |-> RowsOf("notes")]}
=============================================================================
