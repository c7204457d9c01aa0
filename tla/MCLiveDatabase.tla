--------------------------- MODULE MCLiveDatabase ---------------------------
(* A reflection of one or two schemas that change twice, and two calls that *)
(* share a pool with a reflection.                                 *)
EXTENDS LiveDatabase

MCLower == [x \in {"orders", "Orders", "users", "id", "dt"} |-> IF x = "Orders" THEN "orders" ELSE x]

Rel(kind, columns, keys, n) ==
  [kind |-> kind, columns |-> columns, partition_keys |-> keys, reltuples |-> n, size |-> n + 1]
Plain == Rel("table", {"id"}, {}, 1)
MCRelations == {Plain, Rel("table", {"id", "dt"}, {}, -1), Rel("view", {"id"}, {}, -1),
                Rel("table", {"id", "dt"}, {"dt"}, 2)}

Named(s, n) == <<s, n>>
One(k, r) == [x \in {k} |-> r]
Two(k, r, m, q) == [x \in {k, m} |-> IF x = k THEN r ELSE q]
Databases ==
  {One(Named("app", "orders"), Plain),
   Two(Named("app", "orders"), Plain, Named("app", "users"), Rel("view", {"id"}, {}, -1)),
   Two(Named("app", "orders"), Plain, Named("hr", "orders"), Rel("table", {"id"}, {"dt"}, 2)),
   Two(Named("app", "orders"), Rel("table", {"id"}, {}, -1), Named("app", "users"), Rel("materialized", {"id"}, {}, 0)),
   Two(Named("app", "orders"), Plain, Named("app", "Orders"), Plain)}

Use(source, schemas, views, withStats, calls, by, changes) ==
  [source |-> source, schemas |-> schemas, include_views |-> views, include_stats |-> withStats,
   calls |-> calls, by_engine |-> by, changes |-> changes]
Reflections ==
  {[database |-> d, use |-> u] : d \in Databases,
     u \in {Use("sqlalchemy", <<"app">>, TRUE, TRUE, {}, TRUE, 2), Use("sqlalchemy", <<"app">>, FALSE, TRUE, {}, TRUE, 1),
            Use("sqlalchemy", <<"hr", "app">>, TRUE, TRUE, {}, TRUE, 1),
            Use("glue", <<"app">>, TRUE, TRUE, {}, TRUE, 2), Use("glue", <<"app">>, TRUE, FALSE, {}, TRUE, 1)}}
Explains ==
  {[database |-> One(Named("app", "orders"), Plain), use |-> Use("sqlalchemy", <<"app">>, FALSE, TRUE, Calls, by, 0)] :
     by \in BOOLEAN}
MCSetups == Reflections \cup Explains

Answer(form, cost, rows) == [form |-> form, total_cost |-> cost, plan_rows |-> rows]
MCPayloads == {Answer("decoded", 2, 1), Answer("decoded", 1, 2), Answer("text", 1, None), Answer("bad_text", 1, 1)}
=============================================================================
