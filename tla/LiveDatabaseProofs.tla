------------------------- MODULE LiveDatabaseProofs -------------------------
(* Theorems about the reflection of a live database and the calls of the    *)
(* EXPLAIN estimator, for any database, any number of calls, any pool, and  *)
(* any number of changes during the reflection.                             *)
EXTENDS LiveDatabase, TLAPS

\* How statistics are kept, and what the entries of a catalog are made of.
LEMMA CountTyped ==
  ASSUME NEW n \in Nat \cup {-1}
  PROVE  /\ NotNegative(n) \in Nat
         /\ NotNegative(n) = n \/ (n = -1 /\ NotNegative(n) = 0)
         /\ IntParam(n) = n \/ IntParam(n) = None
         /\ IntParam(n) \in Nat \cup {None}
BY DEF NotNegative, IntParam

LEMMA EntryTyped ==
  ASSUME NEW k \in Key, NEW columns \in SUBSET Columns, NEW keys \in SUBSET Columns,
         NEW known \in [row_count : Nat \cup {None}, total_bytes : Nat \cup {None}]
  PROVE  EntryWith(k, columns, keys, known) \in Entry
BY DEF EntryWith, Entry, Key

LEMMA StatsFoundTyped ==
  ASSUME TypeOK, NEW k
  PROVE  StatsFound(k) \in [row_count : Nat \cup {None}, total_bytes : Nat \cup {None}]
BY DEF StatsFound, TypeOK

LEMMA GlueEntryTyped ==
  ASSUME TypeOK, NEW k \in DOMAIN database PROVE GlueEntry(k) \in Entry
<1>1. k \in Key /\ database[k] \in Relation
  BY DEF TypeOK, Database
<1>2. /\ database[k].columns \in SUBSET Columns /\ database[k].partition_keys \in SUBSET Columns
      /\ database[k].reltuples \in Nat \cup {-1} /\ database[k].size \in Nat \cup {-1}
  BY <1>1 DEF Relation
<1>3. IntParam(database[k].reltuples) \in Nat \cup {None} /\ IntParam(database[k].size) \in Nat \cup {None}
  BY <1>2, CountTyped
<1> QED BY <1>1, <1>2, <1>3, EntryTyped DEF GlueEntry

LEMMA SchemaTyped ==
  ASSUME TypeOK PROVE schema \in Schemas
BY DEF TypeOK, Setup, schema

-----------------------------------------------------------------------------
(* Types.                                                                   *)

LEMMA TypeInit == Init => TypeOK
<1> SUFFICES ASSUME Init PROVE TypeOK
  OBVIOUS
<1>1. use \in Setup /\ Database(database) /\ use.schemas # << >>
  BY DatabaseAssumption DEF Init
<1>2. turn \in DOMAIN use.schemas
  BY <1>1 DEF Init, Setup
<1> QED BY <1>1, <1>2 DEF Init, TypeOK, Entry

LEMMA ChangeTyped == TypeOK /\ Change => TypeOK'
<1> SUFFICES ASSUME TypeOK, Change PROVE TypeOK'
  OBVIOUS
<1>1. PICK k \in Key :
        database' \in {Without(database, k)} \cup {With(database, k, r) : r \in Relations}
  BY DEF Change
<1>2. Database(database')
  BY <1>1, DatabaseAssumption DEF TypeOK, Database, Without, With
<1>3. use' \in Setup /\ use'.schemas = use.schemas
  BY DEF Change, TypeOK, Setup
<1>4. \A d1 \in past' : Database(d1)
  BY <1>2 DEF Change, TypeOK
<1> QED BY <1>2, <1>3, <1>4 DEF Change, TypeOK, explaining

LEMMA ReadColumnsTyped == TypeOK /\ ReadColumns => TypeOK'
<1> SUFFICES ASSUME TypeOK, ReadColumns PROVE TypeOK'
  OBVIOUS
<1>1. idle' \subseteq Connections /\ held' \in Connections \cup {None}
  BY DEF ReadColumns, CheckIn, TypeOK
<1>2. tables' \subseteq Entry
  <2> SUFFICES ASSUME NEW name \in names, <<schema, name>> \in DOMAIN database,
                      tables' = tables \cup {EntryWith(<<schema, name>>, database[<<schema, name>>].columns,
                                                      {}, StatsFound(<<schema, name>>))}
               PROVE  tables' \subseteq Entry
    BY DEF ReadColumns, TypeOK
  <2>1. <<schema, name>> \in Key /\ database[<<schema, name>>] \in Relation
    BY DEF TypeOK, Database
  <2> QED BY <2>1, EntryTyped, StatsFoundTyped DEF TypeOK, Relation
<1>3. stage' \in {"columns", "failed"} /\ names' \subseteq names
  BY DEF ReadColumns
<1> QED BY <1>1, <1>2, <1>3 DEF ReadColumns, TypeOK, explaining

LEMMA ReflectionTyped == TypeOK /\ (Reflection \/ ReflectionFails) => TypeOK'
<1> SUFFICES ASSUME TypeOK, Reflection \/ ReflectionFails PROVE TypeOK'
  OBVIOUS
<1> USE DEF explaining
<1>1. CASE Reflect
  BY <1>1 DEF Reflect, TypeOK
<1>2. CASE CheckOut
  <2>1. idle' \subseteq Connections /\ held' \in Connections
    BY <1>2 DEF CheckOut, TypeOK
  <2> QED BY <1>2, <2>1 DEF CheckOut, TypeOK, Asking
<1>3. CASE ReadStats
  <2>1. idle' \subseteq Connections /\ held' \in Connections \cup {None}
    BY <1>3 DEF ReadStats, CheckIn, TypeOK
  <2>2. PICK read \in SUBSET {k \in Key : WithStats(k)} : stats' = [k \in read |-> StatsOf(database[k])]
    BY <1>3 DEF ReadStats
  <2>3. \A k \in read : database[k].reltuples \in Nat \cup {-1} /\ database[k].size \in Nat
    BY DEF WithStats, TypeOK, Database, Relation
  <2>4. \A k \in read : StatsOf(database[k]) \in [row_count : Nat, total_bytes : Nat]
    BY <2>3, CountTyped DEF StatsOf
  <2>5. DOMAIN stats' \subseteq Key /\ \A k \in DOMAIN stats' : stats'[k] \in [row_count : Nat, total_bytes : Nat]
    BY <2>2, <2>4
  <2> QED BY <1>3, <2>1, <2>5 DEF ReadStats, TypeOK
<1>4. CASE ReadNames
  <2>1. idle' \subseteq Connections /\ held' \in Connections \cup {None}
    BY <1>4 DEF ReadNames, CheckIn, TypeOK
  <2>2. names' \subseteq TableNames
    <3>1. NamesOf(NextKind) \subseteq TableNames
      BY DEF NamesOf, TypeOK, Database, Key
    <3> QED BY <1>4, <3>1 DEF ReadNames, NamesWith, TypeOK
  <2>3. asked' \subseteq Kinds \cup TableNames /\ stage' \in {"names", "columns"}
    BY <1>4 DEF ReadNames, NextKind, Kinds, TypeOK
  <2> QED BY <1>4, <2>1, <2>2, <2>3 DEF ReadNames, TypeOK
<1>5. CASE ReadColumns
  BY <1>5, ReadColumnsTyped
<1>6. CASE NextSchema
  <2>1. turn' \in DOMAIN use.schemas
    <3>1. use.schemas \in Seq(Schemas)
      BY DEF TypeOK, Setup
    <3> QED BY <1>6, <3>1 DEF NextSchema, TypeOK
  <2>2. asked' \subseteq Kinds \cup TableNames /\ stage' \in {"build", "names"}
    BY <1>6 DEF NextSchema, TypeOK
  <2> QED BY <1>6, <2>1, <2>2 DEF NextSchema, TypeOK
<1>7. CASE ReadPage
  <2>1. PICK page \in (SUBSET Unlisted) \ {{}} :
          /\ asked' = asked \cup {k[2] : k \in page}
          /\ tables' = tables \/ tables' = tables \cup {GlueEntry(k) : k \in page}
    BY <1>7 DEF ReadPage
  <2>2. page \subseteq DOMAIN database
    BY DEF Unlisted
  <2>3. asked' \subseteq Kinds \cup TableNames
    BY <2>1, <2>2 DEF TypeOK, Database, Key
  <2>4. tables' \subseteq Entry
    BY <2>1, <2>2, GlueEntryTyped DEF TypeOK
  <2>5. stage' \in {"page", "failed"}
    BY <1>7 DEF ReadPage
  <2> QED BY <1>7, <2>3, <2>4, <2>5 DEF ReadPage, TypeOK
<1>8. CASE LastPage
  BY <1>8 DEF LastPage, TypeOK
<1>9. CASE Build
  BY <1>9 DEF Build, SameName, TypeOK
<1>10. CASE ReflectionFails
  <2>1. idle' \subseteq Connections
    BY <1>10 DEF ReflectionFails, TypeOK
  <2> QED BY <1>10, <2>1 DEF ReflectionFails, TypeOK
<1> QED BY <1>1, <1>2, <1>3, <1>4, <1>5, <1>6, <1>7, <1>8, <1>9, <1>10 DEF Reflection

Calling(c) == Estimate(c) \/ ConnectFails(c) \/ Explain(c)

\* What a step of an estimate leaves alone.
LEMMA CallingFrame ==
  ASSUME NEW c \in Calls, Calling(c) PROVE UNCHANGED <<use, database, reflecting>>
BY DEF Calling, Estimate, ConnectFails, Explain, Connect, OpenCursor, Execute, Fetch,
       CloseCursor, Close, Judge

Steps == {"idle", "connect", "cursor", "execute", "fetch", "close_cursor", "close", "judge", "done"}
Results == {None, "estimated", "SCAN_BUDGET_EXCEEDED", "COST_ESTIMATION_FAILED"}

CallsTyped ==
  /\ idle \subseteq Connections
  /\ at \in [Calls -> Steps] /\ conn \in [Calls -> Connections \cup {None, "own"}]
  /\ cursor \in [Calls -> {"none", "open", "closed"}] /\ failed \in [Calls -> BOOLEAN]
  /\ payload \in [Calls -> Payloads \cup {None}] /\ result \in [Calls -> Results]

LEMMA CallingKeepsTypes ==
  ASSUME CallsTyped, NEW c \in Calls, Calling(c) PROVE CallsTyped'
<1> USE DEF CallsTyped, Reach, Raise, Steps
<1>1. CASE Estimate(c)
  BY <1>1 DEF Estimate
<1>2. CASE ConnectFails(c)
  BY <1>2 DEF ConnectFails
<1>3. CASE Connect(c)
  BY <1>3 DEF Connect
<1>4. CASE OpenCursor(c)
  <2>1. AfterCursor(c) \in Steps
    BY DEF AfterCursor
  <2> QED BY <1>4, <2>1 DEF OpenCursor
<1>5. CASE Execute(c)
  <2>1. Finally(c) \in Steps
    BY DEF Finally
  <2>2. CASE Reach(c, "fetch") /\ UNCHANGED failed
    BY <1>5, <2>2 DEF Execute
  <2>3. CASE Raise(c) /\ Reach(c, Finally(c))
    BY <1>5, <2>1, <2>3 DEF Execute
  <2> QED BY <1>5, <2>2, <2>3 DEF Execute
<1>6. CASE Fetch(c)
  <2>1. Finally(c) \in Steps
    BY DEF Finally
  <2> QED BY <1>6, <2>1 DEF Fetch
<1>7. CASE CloseCursor(c)
  BY <1>7 DEF CloseCursor
<1>8. CASE Close(c)
  BY <1>8 DEF Close, Release
<1>9. CASE Judge(c)
  <2>1. Outcome(c) \in Results /\ AfterJudge(c) \in Steps
    BY DEF Outcome, AfterJudge, Results
  <2> QED BY <1>9, <2>1 DEF Judge
<1> QED BY <1>1, <1>2, <1>3, <1>4, <1>5, <1>6, <1>7, <1>8, <1>9 DEF Calling, Explain

LEMMA CallingTyped == ASSUME TypeOK, NEW c \in Calls, Calling(c) PROVE TypeOK'
<1>1. CallsTyped
  BY DEF TypeOK, CallsTyped, Steps, Results
<1>2. CallsTyped'
  BY <1>1, CallingKeepsTypes
<1>3. UNCHANGED <<use, database, past, stage, held, turn, names, asked, stats, tables>>
  BY CallingFrame DEF reflecting
<1> QED BY <1>2, <1>3 DEF TypeOK, CallsTyped, Steps, Results

LEMMA TypeStep == TypeOK /\ [Next]_vars => TypeOK'
<1> SUFFICES ASSUME TypeOK, [Next]_vars PROVE TypeOK'
  OBVIOUS
<1>1. CASE UNCHANGED vars
  BY <1>1 DEF vars, reflecting, explaining, TypeOK
<1> QED BY <1>1, ChangeTyped, ReflectionTyped, CallingTyped DEF Next, Calling

\* Every variable keeps its type, the entries of a catalog included.
THEOREM TypeCorrect == Spec => []TypeOK
BY TypeInit, TypeStep, PTL DEF Spec

-----------------------------------------------------------------------------
(* The pool.                                                                *)

\* Who may hold a connection: a call with a cursor to open, or with an open
\* one, still has it, and only a call with a connection of its own has a cursor.
Holding ==
  /\ ConnectionsReturned
  /\ \A c \in Calls :
       /\ at[c] = "cursor" => conn[c] # None
       /\ at[c] \in {"cursor", "close_cursor"} => ~use.by_engine
       /\ at[c] = "close" => cursor[c] # "open"
       /\ use.by_engine => cursor[c] = "none"

LEMMA HoldingInit == Init => Holding
BY DatabaseAssumption DEF Init, Holding, ConnectionsReturned

\* A question to the database gives back what it took.
LEMMA ReflectionHolds ==
  ASSUME TypeOK, Holding, Change \/ Reflection \/ ReflectionFails PROVE Holding'
<1> USE NoneAssumption, ExplainAssumption DEF Holding, explaining, Asking
<1>1. CASE Change
  <2>1. use'.by_engine = use.by_engine
    BY <1>1 DEF Change, TypeOK, Setup
  <2> QED BY <1>1, <2>1 DEF Change, ConnectionsReturned
<1>2. CASE Reflect
  BY <1>2 DEF Reflect, ConnectionsReturned
<1>3. CASE CheckOut
  <2>1. PICK k \in idle : held' = k /\ idle' = idle \ {k}
    BY <1>3 DEF CheckOut
  <2>2. k \in Connections /\ k # None /\ \A c \in Calls : conn[c] # k
    BY <2>1 DEF TypeOK, ConnectionsReturned
  <2> QED BY <1>3, <2>1, <2>2 DEF CheckOut, ConnectionsReturned
<1>4. CASE ReadStats
  BY <1>4 DEF ReadStats, CheckIn, ConnectionsReturned
<1>5. CASE ReadNames
  BY <1>5 DEF ReadNames, CheckIn, ConnectionsReturned
<1>6. CASE ReadColumns
  BY <1>6 DEF ReadColumns, CheckIn, ConnectionsReturned
<1>7. CASE NextSchema
  BY <1>7 DEF NextSchema, ConnectionsReturned
<1>8. CASE ReadPage
  BY <1>8 DEF ReadPage, ConnectionsReturned
<1>9. CASE LastPage
  BY <1>9 DEF LastPage, ConnectionsReturned
<1>10. CASE Build
  BY <1>10 DEF Build, ConnectionsReturned
<1>11. CASE ReflectionFails
  BY <1>11 DEF ReflectionFails, ConnectionsReturned
<1> QED BY <1>1, <1>2, <1>3, <1>4, <1>5, <1>6, <1>7, <1>8, <1>9, <1>10, <1>11 DEF Reflection

LEMMA CallingHolds ==
  ASSUME TypeOK, Holding, NEW c \in Calls, Calling(c) PROVE Holding'
<1> USE NoneAssumption, ExplainAssumption DEF Holding, Reach, Raise, TypeOK
<1>0. UNCHANGED <<use, stage, held>>
  BY CallingFrame DEF reflecting
<1>1. CASE Estimate(c)
  BY <1>0, <1>1 DEF Estimate, ConnectionsReturned
<1>2. CASE ConnectFails(c)
  BY <1>0, <1>2 DEF ConnectFails, ConnectionsReturned
<1>3. CASE Connect(c)
  BY <1>0, <1>3 DEF Connect, ConnectionsReturned
<1>4. CASE OpenCursor(c)
  BY <1>0, <1>4 DEF OpenCursor, AfterCursor, ConnectionsReturned
<1>5. CASE Execute(c)
  BY <1>0, <1>5 DEF Execute, Finally, ConnectionsReturned
<1>6. CASE Fetch(c)
  BY <1>0, <1>6 DEF Fetch, Finally, ConnectionsReturned
<1>7. CASE CloseCursor(c)
  BY <1>0, <1>7 DEF CloseCursor, ConnectionsReturned
<1>8. CASE Close(c)
  BY <1>0, <1>8 DEF Close, Release, ConnectionsReturned
<1>9. CASE Judge(c)
  BY <1>0, <1>9 DEF Judge, AfterJudge, ConnectionsReturned
<1> QED BY <1>1, <1>2, <1>3, <1>4, <1>5, <1>6, <1>7, <1>8, <1>9 DEF Calling, Explain

LEMMA HoldingStep == TypeOK /\ Holding /\ [Next]_vars => Holding'
<1> SUFFICES ASSUME TypeOK, Holding, [Next]_vars PROVE Holding'
  OBVIOUS
<1>1. CASE UNCHANGED vars
  BY <1>1 DEF vars, reflecting, explaining, Holding, ConnectionsReturned
<1> QED BY <1>1, ReflectionHolds, CallingHolds DEF Next, Calling

\* No failure of a question, of a fetch or of a close loses a connection.
THEOREM ConnectionsReturnedAlways == Spec => []ConnectionsReturned
<1>1. Holding => ConnectionsReturned
  BY DEF Holding
<1> QED BY <1>1, TypeInit, TypeStep, HoldingInit, HoldingStep, PTL DEF Spec

-----------------------------------------------------------------------------
(* The gate.                                                                *)

\* A call that goes on without a failure has an answer when it closes.
Answered ==
  \A c \in Calls :
    /\ result[c] # None => at[c] = "done"
    /\ at[c] \in {"close_cursor", "close", "judge"} /\ ~failed[c] => payload[c] \in Payloads

LEMMA AnsweredStep == TypeOK /\ Answered /\ GateHolds /\ [Next]_vars => Answered' /\ GateHolds'
<1> SUFFICES ASSUME TypeOK, Answered, GateHolds, [Next]_vars PROVE Answered' /\ GateHolds'
  OBVIOUS
<1>1. ASSUME UNCHANGED explaining PROVE Answered' /\ GateHolds'
  BY <1>1 DEF explaining, Answered, GateHolds
<1>2. ASSUME NEW c \in Calls, Calling(c) PROVE Answered' /\ GateHolds'
  <2> USE <1>2 DEF Answered, GateHolds, Reach, Raise
  <2>1. /\ CallsTyped
        /\ \A d \in Calls : result[d] = "estimated" => result[d] # None
    BY ExplainAssumption DEF TypeOK, CallsTyped, Steps, Results
  <2>2. CASE Estimate(c)
    BY <2>1, <2>2 DEF Estimate, CallsTyped
  <2>3. CASE ConnectFails(c)
    BY <2>1, <2>3 DEF ConnectFails, CallsTyped
  <2>4. CASE Connect(c)
    BY <2>1, <2>4 DEF Connect, CallsTyped
  <2>5. CASE OpenCursor(c)
    BY <2>1, <2>5 DEF OpenCursor, AfterCursor, CallsTyped
  <2>6. CASE Execute(c)
    BY <2>1, <2>6 DEF Execute, Finally, CallsTyped
  <2>7. CASE Fetch(c)
    BY <2>1, <2>7 DEF Fetch, Finally, CallsTyped
  <2>8. CASE CloseCursor(c)
    BY <2>1, <2>8 DEF CloseCursor, CallsTyped
  <2>9. CASE Close(c)
    BY <2>1, <2>9 DEF Close, Release, CallsTyped
  <2>10. CASE Judge(c)
    <3>1. Answered'
      BY <2>1, <2>10 DEF Judge, AfterJudge, CallsTyped
    <3>2. ASSUME Outcome(c) = "estimated"
          PROVE  /\ payload[c] # None /\ payload[c].form \in {"decoded", "text"}
                 /\ max_total_cost # None => payload[c].total_cost <= max_total_cost
                 /\ max_rows # None /\ payload[c].plan_rows # None => payload[c].plan_rows <= max_rows
      <4>1. /\ ~failed[c] /\ payload[c].form \notin {"bad_text", "no_plan"}
            /\ ~OverLimits(payload[c].total_cost, PlanRows(payload[c]))
        BY <3>2 DEF Outcome
      <4>2. payload[c] \in Payloads /\ payload[c] \in Payload
        BY <2>10, <4>1, ExplainAssumption DEF Judge
      <4> QED BY <4>1, <4>2, NoneAssumption, ExplainAssumption DEF OverLimits, Over, PlanRows, Payload
    <3>3. GateHolds'
      BY <2>1, <2>10, <3>2 DEF Judge, CallsTyped
    <3> QED BY <3>1, <3>3
  <2> QED BY <2>2, <2>3, <2>4, <2>5, <2>6, <2>7, <2>8, <2>9, <2>10 DEF Calling, Explain
<1>3. Change \/ Reflection \/ ReflectionFails => UNCHANGED explaining
  BY DEF Change, Reflection, ReflectionFails, Reflect, CheckOut, ReadStats, ReadNames, ReadColumns,
         NextSchema, ReadPage, LastPage, Build
<1> QED BY <1>1, <1>2, <1>3 DEF Next, Calling, vars

\* A statement without a violation has a plan within every limit there is.
THEOREM GateAlwaysHolds == Spec => []GateHolds
<1>1. Init => Answered /\ GateHolds
  <2> SUFFICES ASSUME Init PROVE Answered /\ GateHolds
    OBVIOUS
  <2>1. None # "estimated"
    BY ExplainAssumption
  <2> QED BY <2>1 DEF Init, Answered, GateHolds
<1> QED BY <1>1, TypeInit, TypeStep, AnsweredStep, PTL DEF Spec

-----------------------------------------------------------------------------
(* What a reflection has seen.                                              *)

SeenIn(t) ==
  /\ \E d \in past : Had(d, t) /\ t.columns = ListedColumns(Of(d, t))
  /\ t.total_bytes # None => \E d \in past : Had(d, t) /\ Of(d, t).size = t.total_bytes
  /\ t.row_count # None => \E d \in past :
       Had(d, t) /\ \/ Of(d, t).reltuples = t.row_count
                    \/ use.source = "sqlalchemy" /\ Of(d, t).reltuples = -1 /\ t.row_count = 0

\* Between the questions: the statistics and the entries read so far are those
\* of a database there was, and the one there is counts.
AsSeen ==
  /\ stage = "idle" => past = {} /\ tables = {} /\ DOMAIN stats = {}
  /\ stage # "idle" => database \in past
  /\ stage \in Asking => use.source = "sqlalchemy"
  /\ stage = "page" => use.source = "glue"
  /\ \A k \in DOMAIN stats : \E d \in past : k \in DOMAIN d /\ stats[k] = StatsOf(d[k])
  /\ \A t \in tables : SeenIn(t)

LEMMA SeenLater ==
  ASSUME past \subseteq past', use'.source = use.source, NEW t, SeenIn(t) PROVE SeenIn(t)'
BY DEF SeenIn, Had, Of, ListedColumns

LEMMA StatsSeen ==
  ASSUME TypeOK, AsSeen, NEW k, k \in DOMAIN stats
  PROVE  \E d \in past : /\ k \in DOMAIN d /\ d[k].size = stats[k].total_bytes
                         /\ \/ d[k].reltuples = stats[k].row_count
                            \/ d[k].reltuples = -1 /\ stats[k].row_count = 0
<1>1. PICK d \in past : k \in DOMAIN d /\ stats[k] = StatsOf(d[k])
  BY DEF AsSeen
<1>2. d[k].reltuples \in Nat \cup {-1}
  BY <1>1 DEF TypeOK, Database, Relation
<1>3. NotNegative(d[k].reltuples) = d[k].reltuples
        \/ (d[k].reltuples = -1 /\ NotNegative(d[k].reltuples) = 0)
  BY <1>2, CountTyped
<1> QED BY <1>1, <1>3 DEF StatsOf

LEMMA ReadColumnsSees ==
  ASSUME TypeOK, AsSeen, stage = "columns", NEW name, <<schema, name>> \in DOMAIN database
  PROVE  SeenIn(EntryWith(<<schema, name>>, database[<<schema, name>>].columns, {}, StatsFound(<<schema, name>>)))
<1> DEFINE k == <<schema, name>>
           t == EntryWith(k, database[k].columns, {}, StatsFound(k))
<1>1. /\ t.schema = k[1] /\ t.name = k[2] /\ <<t.schema, t.name>> = k
      /\ t.columns = database[k].columns
      /\ t.row_count = StatsFound(k).row_count /\ t.total_bytes = StatsFound(k).total_bytes
  BY DEF EntryWith
<1>2. database \in past /\ use.source = "sqlalchemy"
  BY DEF AsSeen, Asking
<1> HIDE DEF t, k
<1>3. \E d \in past : Had(d, t) /\ t.columns = ListedColumns(Of(d, t))
  BY <1>1, <1>2 DEF Had, Of, k, ListedColumns
<1>4. CASE k \in DOMAIN stats
  <2>1. StatsFound(k) = stats[k]
    BY <1>4 DEF StatsFound
  <2>2. PICK d \in past : /\ k \in DOMAIN d /\ d[k].size = stats[k].total_bytes
                          /\ \/ d[k].reltuples = stats[k].row_count
                             \/ d[k].reltuples = -1 /\ stats[k].row_count = 0
    BY <1>4, StatsSeen
  <2>3. Had(d, t) /\ Of(d, t) = d[k]
    BY <1>1, <2>2 DEF Had, Of
  <2> QED BY <1>1, <1>2, <1>3, <2>1, <2>2, <2>3 DEF SeenIn, t, k
<1>5. CASE k \notin DOMAIN stats
  <2>1. StatsFound(k).row_count = None /\ StatsFound(k).total_bytes = None
    BY <1>5 DEF StatsFound
  <2> QED BY <1>1, <1>3, <2>1 DEF SeenIn, t, k
<1> QED BY <1>4, <1>5

LEMMA GlueSees ==
  ASSUME TypeOK, database \in past, use.source = "glue", NEW k \in DOMAIN database PROVE SeenIn(GlueEntry(k))
<1> DEFINE t == GlueEntry(k)
           r == database[k]
<1>1. k \in Key /\ r.reltuples \in Nat \cup {-1} /\ r.size \in Nat
  BY DEF TypeOK, Database, Relation
<1>2. /\ t.schema = k[1] /\ t.name = k[2] /\ <<t.schema, t.name>> = k
      /\ t.columns = r.columns \cup r.partition_keys
      /\ t.row_count \in {IntParam(r.reltuples), None} /\ t.total_bytes \in {IntParam(r.size), None}
  BY <1>1 DEF GlueEntry, EntryWith, Key
<1>3. IntParam(r.reltuples) \in {r.reltuples, None} /\ IntParam(r.size) \in {r.size, None}
  BY <1>1, CountTyped
<1> HIDE DEF t
<1>4. Had(database, t) /\ Of(database, t) = r
  BY <1>2 DEF Had, Of
<1> QED BY <1>2, <1>3, <1>4 DEF SeenIn, ListedColumns, t

LEMMA AsSeenStep == TypeOK /\ AsSeen /\ [Next]_vars => AsSeen'
<1> SUFFICES ASSUME TypeOK, AsSeen, [Next]_vars PROVE AsSeen'
  OBVIOUS
<1>1. ASSUME UNCHANGED <<use, database, reflecting>> PROVE AsSeen'
  <2>1. \A t \in tables : SeenIn(t)'
    BY <1>1, SeenLater DEF AsSeen, reflecting
  <2> QED BY <1>1, <2>1 DEF AsSeen, reflecting
<1>2. CASE Change
  <2>1. use'.source = use.source
    BY <1>2 DEF Change, TypeOK, Setup
  <2>2. past' = past \cup {database'} /\ tables' = tables /\ stats' = stats /\ stage' = stage /\ stage # "idle"
    BY <1>2 DEF Change
  <2>3. \A t \in tables : SeenIn(t)'
    BY <2>1, <2>2, SeenLater DEF AsSeen
  <2> QED BY <2>1, <2>2, <2>3 DEF AsSeen
<1>3. CASE Reflect
  <2>1. stage = "idle" /\ past' = {database} /\ database' = database /\ use' = use /\ tables' = tables
          /\ stats' = stats /\ stage' \in {"page", "stats", "names"}
          /\ (stage' = "page" <=> use.source = "glue")
    BY <1>3 DEF Reflect
  <2>2. use.source \in {"sqlalchemy", "glue"}
    BY DEF TypeOK, Setup
  <2> QED BY <2>1, <2>2 DEF AsSeen, Asking
<1> DEFINE Kept == /\ UNCHANGED <<use, database, past>> /\ stage # "idle" /\ stage' # "idle"
                   /\ stage' \in Asking => stage \in Asking
                   /\ stage' = "page" => stage = "page"
<1>4. ASSUME Kept, stats' = stats, \A t \in tables' : t \in tables \/ SeenIn(t) PROVE AsSeen'
  <2>1. \A t \in tables' : SeenIn(t)'
    BY <1>4, SeenLater DEF AsSeen
  <2> QED BY <1>4, <2>1 DEF AsSeen
<1>5. CASE ReadStats
  <2>1. Kept /\ tables' = tables
    BY <1>5 DEF ReadStats, Asking
  <2>2. PICK read \in SUBSET {k \in Key : WithStats(k)} : stats' = [k \in read |-> StatsOf(database[k])]
    BY <1>5 DEF ReadStats
  <2>3. \A k \in DOMAIN stats' : k \in DOMAIN database /\ stats'[k] = StatsOf(database[k])
    BY <2>2 DEF WithStats
  <2>4. \A t \in tables : SeenIn(t)'
    BY <2>1, SeenLater DEF AsSeen
  <2> QED BY <2>1, <2>3, <2>4 DEF AsSeen
<1>6. CASE ReadColumns
  <2>1. Kept /\ stats' = stats
    BY <1>6 DEF ReadColumns, Asking
  <2>2. ASSUME NEW t \in tables', t \notin tables PROVE SeenIn(t)
    <3>1. PICK name \in names :
            /\ <<schema, name>> \in DOMAIN database
            /\ t = EntryWith(<<schema, name>>, database[<<schema, name>>].columns, {}, StatsFound(<<schema, name>>))
      BY <1>6, <2>2 DEF ReadColumns
    <3> QED BY <1>6, <3>1, ReadColumnsSees DEF ReadColumns
  <2> QED BY <1>4, <2>1, <2>2
<1>7. CASE ReadPage
  <2>1. Kept /\ stats' = stats /\ database \in past /\ use.source = "glue"
    BY <1>7 DEF ReadPage, Asking, AsSeen
  <2>2. ASSUME NEW t \in tables', t \notin tables PROVE SeenIn(t)
    <3>1. PICK k \in DOMAIN database : t = GlueEntry(k)
      BY <1>7, <2>2 DEF ReadPage, Unlisted
    <3> QED BY <2>1, <3>1, GlueSees
  <2> QED BY <1>4, <2>1, <2>2
<1>8. CASE CheckOut \/ ReadNames \/ NextSchema \/ LastPage \/ Build \/ ReflectionFails
  <2>1. Kept /\ stats' = stats /\ tables' = tables
    BY <1>8 DEF CheckOut, ReadNames, NextSchema, LastPage, Build, ReflectionFails, Asking
  <2> QED BY <1>4, <2>1
<1>9. ASSUME NEW c \in Calls, Calling(c) PROVE AsSeen'
  BY <1>1, <1>9, CallingFrame
<1> QED BY <1>1, <1>2, <1>3, <1>5, <1>6, <1>7, <1>8, <1>9 DEF Next, Reflection, Calling, vars

LEMMA AsSeenInit == Init => AsSeen
BY DEF Init, AsSeen, Asking

\* A catalog tells of each table only what was true of it at some time.
THEOREM ReflectedAsSeenAlways == Spec => []ReflectedAsSeen
<1>1. AsSeen => ReflectedAsSeen
  BY DEF AsSeen, ReflectedAsSeen, SeenIn
<1> QED BY <1>1, TypeInit, TypeStep, AsSeenInit, AsSeenStep, PTL DEF Spec

-----------------------------------------------------------------------------
(* What a reflection may not miss.                                          *)

Stable(k) == \A d, e \in past : k \in DOMAIN d \cap DOMAIN e /\ d[k] = e[k]
Wanted(k) ==
  /\ Stable(k) /\ Reflected(k)
  /\ use.source = "sqlalchemy" =>
       database[k].kind \in (IF use.include_views THEN {"table", "view"} ELSE {"table"})

InTables(k) == \E t \in tables : t.schema = k[1] /\ t.name = k[2]

\* Where a wanted table is while its schema, or its database, is gone through.
Covered(k) ==
  /\ use.source = "glue" =>
       /\ stage = "page" /\ k[2] \in asked => InTables(k)
       /\ stage \in {"build", "catalog"} => InTables(k)
  /\ use.source = "sqlalchemy" => \A i \in DOMAIN use.schemas : k[1] = use.schemas[i] =>
       /\ i < turn => InTables(k)
       /\ i = turn /\ stage = "names" /\ database[k].kind \in asked => k[2] \in names
       /\ i = turn /\ stage = "columns" => k[2] \in names \/ InTables(k)
       /\ stage \in {"build", "catalog"} => InTables(k)

Complete ==
  /\ stage \in {"idle", "stats"} => asked = {} /\ turn = 1
  /\ stage # "idle" => database \in past
  /\ stage \in Asking => use.source = "sqlalchemy"
  /\ stage = "page" => use.source = "glue"
  /\ use.source = "glue" => turn = 1 /\ Len(use.schemas) = 1
  /\ \A k \in Key : Wanted(k) => Covered(k)

LEMMA CompleteInit == Init => Complete
<1> SUFFICES ASSUME Init PROVE Complete
  OBVIOUS
<1>1. use.source = "glue" => Len(use.schemas) = 1
  BY DatabaseAssumption DEF Init
<1>2. use \in Setup
  BY DatabaseAssumption DEF Init
<1>3. \A k \in Key : Covered(k)
  BY <1>2 DEF Init, Covered, Setup
<1> QED BY <1>1, <1>3 DEF Init, Complete, Asking

LEMMA CompleteStep == TypeOK /\ Complete /\ [Next]_vars => Complete'
<1> SUFFICES ASSUME TypeOK, Complete, [Next]_vars PROVE Complete'
  OBVIOUS
<1>0. /\ use \in Setup /\ use.schemas \in Seq(Schemas) /\ turn \in DOMAIN use.schemas
      /\ Database(database)
  BY DEF TypeOK, Setup
<1>1. ASSUME UNCHANGED <<use, database, past>>, NEW k \in Key
      PROVE  Wanted(k)' => Wanted(k)
  BY <1>1 DEF Wanted, Stable, Reflected
<1>2. ASSUME UNCHANGED <<use, database, reflecting>> PROVE Complete'
  BY <1>2 DEF reflecting, Complete, Covered, Wanted, Stable, Reflected, InTables
<1>3. CASE Change
  <2>1. UNCHANGED <<stage, turn, names, asked, tables>> /\ past' = past \cup {database'} /\ stage # "idle"
    BY <1>3 DEF Change
  <2>2. /\ use'.source = use.source /\ use'.schemas = use.schemas /\ use'.include_views = use.include_views
    BY <1>0, <1>3 DEF Change, Setup
  <2>3. database \in past
    BY <2>1 DEF Complete
  <2>4. ASSUME NEW k \in Key, Wanted(k)' PROVE Covered(k)'
    <3>1. Stable(k) /\ database'[k] = database[k]
      BY <2>1, <2>3, <2>4 DEF Wanted, Stable
    <3>2. Wanted(k)
      BY <2>2, <2>4, <3>1 DEF Wanted, Reflected
    <3>3. Covered(k)
      BY <3>2 DEF Complete
    <3> QED BY <2>1, <2>2, <3>1, <3>3 DEF Covered, InTables
  <2> QED BY <2>1, <2>2, <2>4 DEF Complete
<1>4. CASE Reflect
  <2>1. /\ stage = "idle" /\ past' = {database} /\ UNCHANGED <<use, database, turn, asked, names, tables>>
        /\ stage' \in {"page", "stats", "names"}
        /\ stage' = "page" <=> use.source = "glue"
    BY <1>4 DEF Reflect
  <2>2. turn = 1 /\ asked = {}
    BY <2>1 DEF Complete
  <2>3. \A k \in Key : Covered(k)'
    BY <1>0, <2>1, <2>2 DEF Covered, InTables
  <2>4. use.source \in {"sqlalchemy", "glue"}
    BY <1>0 DEF Setup
  <2> QED BY <2>1, <2>2, <2>3, <2>4 DEF Complete, Asking
<1> DEFINE Kept == UNCHANGED <<use, database, past>> /\ stage # "idle"
<1>5. ASSUME Kept, UNCHANGED <<turn, names, asked, tables>>, stage' \in {stage, "failed"} PROVE Complete'
  <2>1. \A k \in Key : Wanted(k)' => Covered(k)'
    BY <1>1, <1>5 DEF Complete, Covered, InTables
  <2> QED BY <1>5, <2>1 DEF Complete, Asking
<1>6. ASSUME Kept, UNCHANGED <<turn, names, asked, tables>>, stage = "stats", stage' = "names" PROVE Complete'
  <2>1. asked = {} /\ turn = 1 /\ use.source = "sqlalchemy"
    BY <1>6 DEF Complete, Asking
  <2>2. \A k \in Key : Covered(k)'
    BY <1>0, <1>6, <2>1 DEF Covered, InTables
  <2> QED BY <1>6, <2>1, <2>2 DEF Complete, Asking
<1>7. CASE CheckOut
  BY <1>5, <1>7 DEF CheckOut, Asking
<1>8. CASE ReadStats
  BY <1>6, <1>8 DEF ReadStats
<1>9. CASE ReadNames
  <2>1. /\ Kept /\ UNCHANGED <<turn, tables>> /\ stage = "names" /\ use.source = "sqlalchemy"
        /\ asked' = asked \cup {NextKind}
        /\ stage' = IF asked' = KindsToAsk THEN "columns" ELSE stage
        /\ names' = names \cup NamesOf(NextKind) \/ (NextKind = "materialized" /\ names' = names)
    BY <1>9 DEF ReadNames, NamesWith, Complete, Asking
  <2>2. ASSUME NEW k \in Key, Wanted(k)' PROVE Covered(k)'
    <3>1. Wanted(k) /\ Covered(k)
      BY <1>1, <2>1, <2>2 DEF Complete
    <3>2. k \in DOMAIN database /\ database[k].kind \in KindsToAsk /\ database[k].kind # "materialized"
      BY <2>1, <3>1 DEF Wanted, Stable, KindsToAsk, Kinds, Complete
    <3>3. ASSUME k[1] = schema, database[k].kind \in asked' PROVE k[2] \in names'
      <4>1. CASE database[k].kind \in asked
        BY <1>0, <2>1, <3>1, <3>3, <4>1 DEF Covered, schema
      <4>2. CASE database[k].kind = NextKind
        <5>1. k[2] \in NamesOf(NextKind)
          BY <3>2, <3>3, <4>2 DEF NamesOf
        <5> QED BY <2>1, <3>2, <4>2, <5>1
      <4> QED BY <2>1, <3>3, <4>1, <4>2
    <3>4. stage' \in {"names", "columns"} /\ (stage' = "columns" => database[k].kind \in asked')
      BY <2>1, <3>2
    <3> QED BY <2>1, <3>1, <3>3, <3>4 DEF Covered, InTables, schema
  <2> QED BY <2>1, <2>2 DEF Complete, Asking
<1>10. CASE ReadColumns
  <2>1. Kept /\ UNCHANGED <<turn, asked>> /\ stage = "columns" /\ use.source = "sqlalchemy"
    BY <1>10 DEF ReadColumns, Complete, Asking
  <2>2. CASE stage' = "failed" /\ UNCHANGED <<names, tables>>
    BY <1>5, <2>1, <2>2
  <2>3. ASSUME NEW name \in names, names' = names \ {name}, stage' = stage,
               tables' = tables \cup {EntryWith(<<schema, name>>, database[<<schema, name>>].columns,
                                               {}, StatsFound(<<schema, name>>))}
        PROVE  Complete'
    <3>1. ASSUME NEW k \in Key, Wanted(k)' PROVE Covered(k)'
      <4>1. Covered(k)
        BY <1>1, <2>1, <3>1 DEF Complete
      <4>2. InTables(k) => InTables(k)'
        BY <2>3 DEF InTables
      <4>3. k[1] = schema /\ k[2] = name => InTables(k)'
        <5> DEFINE t == EntryWith(<<schema, name>>, database[<<schema, name>>].columns,
                                  {}, StatsFound(<<schema, name>>))
        <5>1. t.schema = schema /\ t.name = name
          BY DEF EntryWith
        <5>2. t \in tables'
          BY <2>3
        <5> HIDE DEF t
        <5> QED BY <5>1, <5>2 DEF InTables
      <4>4. ASSUME NEW i \in DOMAIN use.schemas, k[1] = use.schemas[i], i = turn
            PROVE  k[2] \in names' \/ InTables(k)'
        <5>1. k[2] \in names \/ InTables(k)
          BY <2>1, <4>1, <4>4 DEF Covered
        <5>2. k[1] = schema
          BY <4>4 DEF schema
        <5> QED BY <2>3, <4>2, <4>3, <5>1, <5>2
      <4>5. ASSUME NEW i \in DOMAIN use.schemas, k[1] = use.schemas[i], i < turn
            PROVE  InTables(k)'
        BY <2>1, <4>1, <4>2, <4>5 DEF Covered
      <4> QED BY <2>1, <2>3, <4>4, <4>5 DEF Covered
    <3> QED BY <2>1, <2>3, <3>1 DEF Complete, Asking
  <2> QED BY <1>10, <2>2, <2>3 DEF ReadColumns
<1>11. CASE NextSchema
  <2>1. Kept /\ UNCHANGED tables /\ stage = "columns" /\ use.source = "sqlalchemy" /\ names = {} /\ names' = names
    BY <1>11 DEF NextSchema, Complete, Asking
  <2>2. ASSUME NEW k \in Key, Wanted(k)' PROVE Covered(k)'
    <3>1. Covered(k)
      BY <1>1, <2>1, <2>2 DEF Complete
    <3>2. \A i \in DOMAIN use.schemas : k[1] = use.schemas[i] /\ i <= turn => InTables(k)
      BY <1>0, <2>1, <3>1 DEF Covered
    <3>3. CASE turn = Len(use.schemas) /\ stage' = "build" /\ turn' = turn
      BY <1>0, <2>1, <3>2, <3>3 DEF Covered, InTables
    <3>4. CASE stage' = "names" /\ turn' = turn + 1 /\ asked' = {}
      BY <1>0, <2>1, <3>2, <3>4 DEF Covered, InTables
    <3> QED BY <1>11, <3>3, <3>4 DEF NextSchema
  <2> QED BY <1>11, <2>1, <2>2 DEF NextSchema, Complete, Asking
<1>12. CASE ReadPage
  <2>1. Kept /\ UNCHANGED turn /\ stage = "page" /\ use.source = "glue"
    BY <1>12 DEF ReadPage, Complete
  <2>2. PICK page \in (SUBSET Unlisted) \ {{}} :
          /\ asked' = asked \cup {k[2] : k \in page}
          /\ \/ stage' = "failed"
             \/ tables' = tables \cup {GlueEntry(k) : k \in page} /\ stage' = stage
    BY <1>12 DEF ReadPage
  <2>3. ASSUME NEW k \in Key, Wanted(k)', stage' # "failed" PROVE Covered(k)'
    <3>1. Covered(k) /\ Reflected(k)
      BY <1>1, <2>1, <2>3 DEF Complete, Wanted
    <3>2. k[1] = schema
      BY <1>0, <2>1, <3>1 DEF Reflected, schema, Complete
    <3>3. ASSUME NEW x \in page, k[2] = x[2] PROVE InTables(k)'
      <4>1. x \in Key /\ x[1] = schema
        BY <1>0 DEF Unlisted, Database
      <4>2. GlueEntry(x).schema = k[1] /\ GlueEntry(x).name = k[2]
        BY <3>2, <3>3, <4>1 DEF GlueEntry, EntryWith
      <4> QED BY <2>2, <2>3, <4>2 DEF InTables
    <3>4. k[2] \in asked' => InTables(k)'
      BY <2>1, <2>2, <2>3, <3>1, <3>3 DEF Covered, InTables
    <3> QED BY <2>1, <2>2, <2>3, <3>4 DEF Covered
  <2>4. ASSUME stage' = "failed" PROVE \A k \in Key : Covered(k)'
    BY <2>1, <2>4 DEF Covered
  <2> QED BY <2>1, <2>2, <2>3, <2>4 DEF Complete, Asking
<1>13. CASE LastPage
  <2>1. /\ Kept /\ UNCHANGED <<turn, asked, tables, names>> /\ stage = "page" /\ stage' = "build"
        /\ use.source = "glue" /\ Unlisted = {} /\ database \in past
    BY <1>13 DEF LastPage, Complete
  <2>2. ASSUME NEW k \in Key, Wanted(k)' PROVE Covered(k)'
    <3>1. Covered(k) /\ Wanted(k)
      BY <1>1, <2>1, <2>2 DEF Complete
    <3>2. k[1] = schema /\ k \in DOMAIN database
      BY <1>0, <2>1, <3>1 DEF Wanted, Stable, Reflected, schema, Complete
    <3>3. k[2] \in asked
      BY <2>1, <3>2 DEF Unlisted
    <3> QED BY <2>1, <3>1, <3>3 DEF Covered, InTables
  <2> QED BY <2>1, <2>2 DEF Complete, Asking
<1>14. CASE Build
  <2>1. /\ Kept /\ UNCHANGED <<turn, names, asked, tables>> /\ stage = "build" /\ stage' \in {"catalog", "failed"}
    BY <1>14 DEF Build
  <2>2. \A k \in Key : Wanted(k)' => Covered(k)'
    BY <1>1, <2>1 DEF Complete, Covered, InTables
  <2> QED BY <2>1, <2>2 DEF Complete, Asking
<1>15. CASE ReflectionFails
  <2>1. Kept /\ UNCHANGED <<turn, names, asked, tables>> /\ stage' = IF stage = "stats" THEN "names" ELSE "failed"
    BY <1>15 DEF ReflectionFails
  <2> QED BY <1>5, <1>6, <2>1
<1>16. ASSUME NEW c \in Calls, Calling(c) PROVE Complete'
  BY <1>2, <1>16, CallingFrame
<1> QED BY <1>2, <1>3, <1>4, <1>7, <1>8, <1>9, <1>10, <1>11, <1>12, <1>13, <1>14, <1>15, <1>16
        DEF Next, Reflection, Calling, vars

\* Whatever else comes and goes, a table that stays is in the catalog.
THEOREM StableTablesAlwaysReflected == Spec => []StableTablesReflected
<1>1. TypeOK /\ Complete => StableTablesReflected
  <2> SUFFICES ASSUME TypeOK, Complete, stage = "catalog", NEW k \in Key, Wanted(k) PROVE InTables(k)
    BY DEF StableTablesReflected, Wanted, Stable, InTables
  <2>1. Covered(k) /\ use.source \in {"sqlalchemy", "glue"} /\ Reflected(k)
    BY DEF Complete, TypeOK, Setup, Wanted
  <2> QED BY <2>1 DEF Covered, Reflected
<1> QED BY <1>1, TypeInit, TypeStep, CompleteInit, CompleteStep, PTL DEF Spec
=============================================================================
