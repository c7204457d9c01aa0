---------------------------- MODULE LiveDatabase ----------------------------
(***************************************************************************)
(* What the guard does with a live database: it reflects a catalog from    *)
(* one (catalog_from_sqlalchemy of reflect.py, catalog_from_glue of        *)
(* athena.py) while tables are created, changed and dropped, and asks its  *)
(* planner for the cost of statements (PostgresExplainEstimator of         *)
(* postgres.py), in several calls that share a connection pool with each   *)
(* other and with the reflection.  Whatever is asked of a database may     *)
(* fail, and so may giving back what was taken.                            *)
(***************************************************************************)
EXTENDS Integers, Sequences, FiniteSets

CONSTANTS Schemas, TableNames, Columns,
          Lower,        \* case folding of table and column names
          Relations,    \* what a name may be changed to stand for
          Setups,       \* a database, and what is done with it
          Connections,  \* of the engine's pool
          Calls,        \* of estimate()
          Payloads,     \* the planner's answers
          max_total_cost, max_rows, None

Kinds == {"table", "view", "materialized"}
Key == Schemas \X TableNames

\* reltuples is -1 for a table that was never analysed, and so is Glue's numRows.
Relation == [kind : Kinds, columns : SUBSET Columns, partition_keys : SUBSET Columns,
             reltuples : Nat \cup {-1}, size : Nat]
Database(d) == DOMAIN d \subseteq Key /\ \A k \in DOMAIN d : d[k] \in Relation

Payload == [form : {"decoded", "text", "bad_text", "no_plan"}, total_cost : Nat, plan_rows : Nat \cup {None}]
Setup == [source : {"sqlalchemy", "glue"}, schemas : Seq(Schemas), include_views : BOOLEAN,
          include_stats : BOOLEAN, calls : SUBSET Calls, by_engine : BOOLEAN, changes : Nat]

ASSUME NoneAssumption == None \notin Nat /\ None \notin Connections /\ None \notin Payloads
ASSUME DatabaseAssumption ==
  /\ Lower \in [TableNames \cup Columns -> TableNames \cup Columns]
  /\ Relations \subseteq Relation
  /\ \A q \in Setups :
       /\ Database(q.database) /\ q.use \in Setup /\ q.use.schemas # << >>
       /\ \A i, j \in DOMAIN q.use.schemas : q.use.schemas[i] = q.use.schemas[j] => i = j
       /\ q.use.source = "glue" => Len(q.use.schemas) = 1
ASSUME ExplainAssumption ==
  /\ Payloads \subseteq Payload /\ "own" \notin Connections /\ None \notin {"own", "estimated"}
  /\ max_total_cost \in Nat \cup {None} /\ max_rows \in Nat \cup {None}

VARIABLES
  use,          \* a Setup
  database,
  past,         \* the databases there were since the reflection began
  idle,         \* the connections in the pool
  stage, held,  \* the reflection, and the connection it has
  turn,         \* the position of its schema in use.schemas
  names,        \* still to be looked at
  asked,        \* the kinds of names asked for, for Glue the names listed
  stats, tables,
  at, conn, cursor, failed, payload, result   \* the calls of estimate()

reflecting == <<past, stage, held, turn, names, asked, stats, tables>>
explaining == <<at, conn, cursor, failed, payload, result>>
vars == <<use, database, idle, reflecting, explaining>>

Init ==
  /\ \E q \in Setups : use = q.use /\ database = q.database
  /\ past = {} /\ idle = Connections
  /\ stage = "idle" /\ held = None /\ turn = 1
  /\ names = {} /\ asked = {} /\ stats = << >> /\ tables = {}
  /\ at = [c \in Calls |-> "idle"] /\ conn = [c \in Calls |-> None]
  /\ cursor = [c \in Calls |-> "none"] /\ failed = [c \in Calls |-> FALSE]
  /\ payload = [c \in Calls |-> None] /\ result = [c \in Calls |-> None]

-----------------------------------------------------------------------------
(* The database changes: a table is created, dropped, altered, analysed or  *)
(* becomes a view during its reflection, as long as "changes" allows.       *)

Without(d, k) == [x \in DOMAIN d \ {k} |-> d[x]]
With(d, k, r) == [x \in DOMAIN d \cup {k} |-> IF x = k THEN r ELSE d[x]]

Reflected(k) == \E i \in DOMAIN use.schemas : k[1] = use.schemas[i]

Change ==
  /\ use.changes > 0 /\ stage \in {"stats", "names", "columns", "page"}
  /\ \E k \in {k \in Key : Reflected(k)} :
       \E d \in {Without(database, k)} \cup {With(database, k, r) : r \in Relations} :
         d # database /\ database' = d
  /\ use' = [use EXCEPT !.changes = @ - 1]
  /\ past' = past \cup {database'}
  /\ UNCHANGED <<idle, stage, held, turn, names, asked, stats, tables, explaining>>

-----------------------------------------------------------------------------
(* Reflection.                                                              *)

schema == use.schemas[turn]
Asking == {"stats", "names", "columns"}

Reflect ==
  /\ stage = "idle" /\ past' = {database}
  /\ stage' = IF use.source = "glue" THEN "page" ELSE IF use.include_stats THEN "stats" ELSE "names"
  /\ UNCHANGED <<use, database, idle, held, turn, names, asked, stats, tables, explaining>>

\* Every question to the database has a connection of its own.
CheckOut ==
  /\ stage \in Asking /\ held = None /\ (stage = "columns" => names # {})
  /\ \E k \in idle : held' = k /\ idle' = idle \ {k}
  /\ UNCHANGED <<use, database, past, stage, turn, names, asked, stats, tables, explaining>>

CheckIn == held # None /\ held' = None /\ idle' = idle \cup {held}

WithStats(k) == k \in DOMAIN database /\ database[k].kind # "view" /\ Reflected(k)
NotNegative(n) == IF n < 0 THEN 0 ELSE n
StatsOf(r) == [row_count |-> NotNegative(r.reltuples), total_bytes |-> r.size]

\* _pg_stats; when it fails in between, what was read is kept.
ReadStats ==
  /\ stage = "stats" /\ CheckIn /\ stage' = "names"
  /\ \E read \in SUBSET {k \in Key : WithStats(k)} : stats' = [k \in read |-> StatsOf(database[k])]
  /\ UNCHANGED <<use, database, past, turn, names, asked, tables, explaining>>

KindsToAsk == IF use.include_views THEN Kinds ELSE {"table"}
NextKind == IF "table" \notin asked THEN "table" ELSE IF "view" \notin asked THEN "view" ELSE "materialized"
NamesOf(kind) == {k[2] : k \in {k \in DOMAIN database : k[1] = schema /\ database[k].kind = kind}}

\* Mutant: the list is assigned, not extended.
NamesAssigned(more) == more
NamesWith(more) == names \cup more

\* get_table_names, get_view_names and get_materialized_view_names; the last may fail.
ReadNames ==
  /\ stage = "names" /\ CheckIn
  /\ \/ names' = NamesWith(NamesOf(NextKind))
     \/ NextKind = "materialized" /\ UNCHANGED names
  /\ asked' = asked \cup {NextKind}
  /\ stage' = IF asked' = KindsToAsk THEN "columns" ELSE stage
  /\ UNCHANGED <<use, database, past, turn, stats, tables, explaining>>

\* Table.__post_init__ refuses two columns with the same name.
Clash(r) == \/ r.columns \cap r.partition_keys # {}
            \/ \E c, d \in r.columns \cup r.partition_keys : c # d /\ Lower[c] = Lower[d]

\* Mutant: statistics are looked up by name.
StatsFoundByName(k) ==
  LET same == {x \in DOMAIN stats : x[2] = k[2]}
  IN  IF same = {} THEN [row_count |-> None, total_bytes |-> None] ELSE stats[CHOOSE x \in same : TRUE]

StatsFound(k) == IF k \in DOMAIN stats THEN stats[k] ELSE [row_count |-> None, total_bytes |-> None]

EntryWith(k, columns, keys, known) ==
  [schema |-> k[1], name |-> k[2], columns |-> columns, partition_columns |-> keys,
   row_count |-> known.row_count, total_bytes |-> known.total_bytes]

\* get_columns, in any order; a name that is gone raises, and so does a Table that cannot be built.
ReadColumns ==
  /\ stage = "columns" /\ CheckIn
  /\ \E name \in names :
       LET k == <<schema, name>>
       IN  IF k \notin DOMAIN database \/ Clash([database[k] EXCEPT !.partition_keys = {}])
           THEN stage' = "failed" /\ UNCHANGED <<names, tables>>
           ELSE /\ names' = names \ {name}
                /\ tables' = tables \cup {EntryWith(k, database[k].columns, {}, StatsFound(k))}
                /\ UNCHANGED stage
  /\ UNCHANGED <<use, database, past, turn, asked, stats, explaining>>

NextSchema ==
  /\ stage = "columns" /\ held = None /\ names = {}
  /\ IF turn = Len(use.schemas)
     THEN stage' = "build" /\ UNCHANGED <<turn, asked>>
     ELSE stage' = "names" /\ turn' = turn + 1 /\ asked' = {}
  /\ UNCHANGED <<use, database, past, idle, held, names, stats, tables, explaining>>

-----------------------------------------------------------------------------
(* Glue: the tables of one database, page by page.                          *)

\* _int_param
IntParam(n) == IF n < 0 THEN None ELSE n

GlueEntry(k) ==
  LET r == database[k]
  IN  EntryWith(k, r.columns \cup r.partition_keys, r.partition_keys,
        IF use.include_stats
        THEN [row_count |-> IntParam(r.reltuples), total_bytes |-> IntParam(r.size)]
        ELSE [row_count |-> None, total_bytes |-> None])

Unlisted == {k \in DOMAIN database : k[1] = schema /\ k[2] \notin asked}

\* The next page, of tables no page had; the last one when there are no others.
ReadPage ==
  /\ stage = "page" /\ Unlisted # {}
  /\ \E page \in (SUBSET Unlisted) \ {{}} :
       /\ asked' = asked \cup {k[2] : k \in page}
       /\ IF \E k \in page : Clash(database[k])
          THEN stage' = "failed" /\ UNCHANGED tables
          ELSE tables' = tables \cup {GlueEntry(k) : k \in page} /\ UNCHANGED stage
  /\ UNCHANGED <<use, database, past, idle, held, turn, names, stats, explaining>>

LastPage ==
  /\ stage = "page" /\ Unlisted = {} /\ stage' = "build"
  /\ UNCHANGED <<use, database, past, idle, held, turn, names, asked, stats, tables, explaining>>

\* A question fails: there is no connection in time, or no answer.  Statistics
\* can be done without.
ReflectionFails ==
  /\ stage \in {"stats", "names", "columns", "page"}
  /\ stage' = (IF stage = "stats" THEN "names" ELSE "failed") /\ held' = None
  /\ idle' = IF held = None THEN idle ELSE idle \cup {held}
  /\ UNCHANGED <<use, database, past, turn, names, asked, stats, tables, explaining>>

\* Mutant: two names that differ in case are two tables.
SameNameAsWritten(t, u) == t.schema = u.schema /\ t.name = u.name

SameName(t, u) == t.schema = u.schema /\ Lower[t.name] = Lower[u.name]

\* Catalog.__post_init__
Build ==
  /\ stage = "build"
  /\ stage' = IF \E t, u \in tables : t # u /\ SameName(t, u) THEN "failed" ELSE "catalog"
  /\ UNCHANGED <<use, database, past, idle, held, turn, names, asked, stats, tables, explaining>>

Reflection == \/ Reflect \/ CheckOut \/ ReadStats \/ ReadNames \/ ReadColumns \/ NextSchema
              \/ ReadPage \/ LastPage \/ Build

-----------------------------------------------------------------------------
(* EXPLAIN.  A step either goes on or raises.                               *)

Reach(c, step) == at' = [at EXCEPT ![c] = step]
Raise(c) == failed' = [failed EXCEPT ![c] = TRUE]
Release(c) ==
  /\ conn' = [conn EXCEPT ![c] = None]
  /\ idle' = IF conn[c] \in Connections THEN idle \cup {conn[c]} ELSE idle

Estimate(c) ==
  /\ at[c] = "idle" /\ c \in use.calls /\ Reach(c, "connect")
  /\ UNCHANGED <<use, database, idle, reflecting, conn, cursor, failed, payload, result>>

\* engine.connect() waits for a connection of the pool.
Connect(c) ==
  /\ at[c] = "connect"
  /\ IF use.by_engine
     THEN Reach(c, "execute") /\ \E k \in idle : conn' = [conn EXCEPT ![c] = k] /\ idle' = idle \ {k}
     ELSE Reach(c, "cursor") /\ conn' = [conn EXCEPT ![c] = "own"] /\ UNCHANGED idle
  /\ UNCHANGED <<use, database, reflecting, cursor, failed, payload, result>>

\* There is no connection, or none in time.
ConnectFails(c) ==
  /\ at[c] = "connect" /\ Raise(c) /\ Reach(c, "judge")
  /\ UNCHANGED <<use, database, idle, reflecting, conn, cursor, payload, result>>

\* Mutant: cursor() is called before the "try" that closes the connection.
AfterCursorLost(c) == IF cursor'[c] = "open" THEN "execute" ELSE "judge"

AfterCursor(c) == IF cursor'[c] = "open" THEN "execute" ELSE "close"

OpenCursor(c) ==
  /\ at[c] = "cursor"
  /\ \/ cursor' = [cursor EXCEPT ![c] = "open"] /\ UNCHANGED failed
     \/ Raise(c) /\ UNCHANGED cursor
  /\ Reach(c, AfterCursor(c))
  /\ UNCHANGED <<use, database, idle, reflecting, conn, payload, result>>

Finally(c) == IF use.by_engine THEN "close" ELSE "close_cursor"

Execute(c) ==
  /\ at[c] = "execute"
  /\ \/ Reach(c, "fetch") /\ UNCHANGED failed
     \/ Raise(c) /\ Reach(c, Finally(c))
  /\ UNCHANGED <<use, database, idle, reflecting, conn, cursor, payload, result>>

\* fetchone()[0]; a missing row raises too.
Fetch(c) ==
  /\ at[c] = "fetch" /\ Reach(c, Finally(c))
  /\ \/ \E p \in Payloads : payload' = [payload EXCEPT ![c] = p] /\ UNCHANGED failed
     \/ Raise(c) /\ UNCHANGED payload
  /\ UNCHANGED <<use, database, idle, reflecting, conn, cursor, result>>

CloseCursor(c) ==
  /\ at[c] = "close_cursor" /\ Reach(c, "close")
  /\ cursor' = [cursor EXCEPT ![c] = "closed"]
  /\ \/ Raise(c) \/ UNCHANGED failed
  /\ UNCHANGED <<use, database, idle, reflecting, conn, payload, result>>

\* conn.close(), or the end of "with engine.connect()".
Close(c) ==
  /\ at[c] = "close" /\ Reach(c, "judge") /\ Release(c)
  /\ \/ Raise(c) \/ UNCHANGED failed
  /\ UNCHANGED <<use, database, reflecting, cursor, payload, result>>

Over(n, max) == max # None /\ n > max
\* Mutant: the second limit is looked at only without the first.
OverLimitsEither(cost, rows) ==
  IF max_total_cost # None THEN Over(cost, max_total_cost) ELSE Over(rows, max_rows)

OverLimits(cost, rows) == Over(cost, max_total_cost) \/ Over(rows, max_rows)
PlanRows(p) == IF p.plan_rows = None THEN 0 ELSE p.plan_rows

\* What estimate() returns: a violation, or an estimate without one.
Outcome(c) ==
  IF failed[c] \/ payload[c].form \in {"bad_text", "no_plan"} THEN "COST_ESTIMATION_FAILED"
  ELSE IF OverLimits(payload[c].total_cost, PlanRows(payload[c])) THEN "SCAN_BUDGET_EXCEEDED" ELSE "estimated"

\* Mutant: what failed is tried again.
AfterJudgeRetries(c) == IF failed[c] THEN "connect" ELSE "done"
AfterJudge(c) == "done"

Judge(c) ==
  /\ at[c] = "judge" /\ Reach(c, AfterJudge(c))
  /\ result' = [result EXCEPT ![c] = Outcome(c)]
  /\ UNCHANGED <<use, database, idle, reflecting, conn, cursor, failed, payload>>

Explain(c) == \/ Connect(c) \/ OpenCursor(c) \/ Execute(c) \/ Fetch(c)
              \/ CloseCursor(c) \/ Close(c) \/ Judge(c)

Next == \/ Change \/ Reflection \/ ReflectionFails
        \/ \E c \in Calls : Estimate(c) \/ ConnectFails(c) \/ Explain(c)

Spec == Init /\ [][Next]_vars

\* The database answers, sooner or later; no timeout of the pool is needed.
FairSpec == Spec /\ WF_vars(Reflection) /\ \A c \in Calls : WF_vars(Explain(c))
-----------------------------------------------------------------------------

Entry == [schema : Schemas, name : TableNames, columns : SUBSET Columns, partition_columns : SUBSET Columns,
          row_count : Nat \cup {None}, total_bytes : Nat \cup {None}]

TypeOK ==
  /\ use \in Setup /\ Database(database) /\ \A d \in past : Database(d)
  /\ idle \subseteq Connections /\ held \in Connections \cup {None}
  /\ stage \in {"idle", "stats", "names", "columns", "page", "build", "catalog", "failed"}
  /\ turn \in DOMAIN use.schemas /\ names \subseteq TableNames /\ asked \subseteq Kinds \cup TableNames
  /\ DOMAIN stats \subseteq Key
  /\ \A k \in DOMAIN stats : stats[k] \in [row_count : Nat, total_bytes : Nat]
  /\ tables \subseteq Entry
  /\ stage = "catalog" =>
       \A t, u \in tables : t # u => t.schema # u.schema \/ Lower[t.name] # Lower[u.name]
  /\ at \in [Calls -> {"idle", "connect", "cursor", "execute", "fetch", "close_cursor", "close", "judge", "done"}]
  /\ conn \in [Calls -> Connections \cup {None, "own"}]
  /\ cursor \in [Calls -> {"none", "open", "closed"}] /\ failed \in [Calls -> BOOLEAN]
  /\ payload \in [Calls -> Payloads \cup {None}]
  /\ result \in [Calls -> {None, "estimated", "SCAN_BUDGET_EXCEEDED", "COST_ESTIMATION_FAILED"}]

\* Wherever a question to the database fails, or closing what it used, a
\* connection of the pool is idle or has one holder that still works with it,
\* and a call that has judged left neither a connection nor a cursor open
\* (postgres.py:61-75, reflect.py:32-35).
ConnectionsReturned ==
  /\ \A k \in Connections : k \in idle \/ held = k \/ \E c \in Calls : conn[c] = k
  /\ held # None => held \notin idle /\ stage \in Asking
  /\ \A c \in Calls :
       /\ conn[c] # None => conn[c] \notin idle \cup {held} /\ at[c] \notin {"idle", "connect", "judge", "done"}
       /\ cursor[c] = "open" => conn[c] # None
       /\ \A d \in Calls : c # d /\ conn[c] = conn[d] => conn[c] \in {None, "own"}

\* A call that reports no violation has read a plan, whatever was closed after
\* it, and the plan is within both limits (postgres.py:82-121).
GateHolds ==
  \A c \in Calls : result[c] = "estimated" =>
    /\ payload[c] # None /\ payload[c].form \in {"decoded", "text"}
    /\ max_total_cost # None => payload[c].total_cost <= max_total_cost
    /\ max_rows # None /\ payload[c].plan_rows # None => payload[c].plan_rows <= max_rows

\* Calls that share a pool with each other and with the reflection all return,
\* without the pool's timeout: nobody keeps a connection while waiting for
\* another, or keeps it for ever.
EveryoneReturns ==
  /\ <>(stage \in {"catalog", "failed"})
  /\ \A c \in Calls : at[c] # "idle" ~> at[c] = "done"

Had(d, t) == <<t.schema, t.name>> \in DOMAIN d
Of(d, t) == d[<<t.schema, t.name>>]

\* Glue keeps the keys of partitions apart from the columns; a query needs both.
ListedColumns(r) == IF use.source = "glue" THEN r.columns \cup r.partition_keys ELSE r.columns

\* However the database changes between the queries (reflect.py:75-108,
\* athena.py:72-106), each table of the catalog has the columns that a table of
\* its schema and name had at a time during the reflection, and the statistics
\* it had at a time.  -1, "never analysed", is 0 rows for PostgreSQL and
\* unknown for Glue.
ReflectedAsSeen ==
  stage = "catalog" => \A t \in tables :
    /\ \E d \in past : Had(d, t) /\ t.columns = ListedColumns(Of(d, t))
    /\ t.total_bytes # None => \E d \in past : Had(d, t) /\ Of(d, t).size = t.total_bytes
    /\ t.row_count # None => \E d \in past :
         Had(d, t) /\ \/ Of(d, t).reltuples = t.row_count
                      \/ use.source = "sqlalchemy" /\ Of(d, t).reltuples = -1 /\ t.row_count = 0

\* A table that was there throughout the reflection, unchanged, is in the
\* catalog; a statement on it is not refused because another table came, went
\* or turned into a view between two queries or pages.
StableTablesReflected ==
  stage = "catalog" => \A k \in Key :
    /\ \A d, e \in past : k \in DOMAIN d \cap DOMAIN e /\ d[k] = e[k]
    /\ Reflected(k)
    /\ use.source = "sqlalchemy" =>
         database[k].kind \in (IF use.include_views THEN {"table", "view"} ELSE {"table"})
    => \E t \in tables : t.schema = k[1] /\ t.name = k[2]
=============================================================================
