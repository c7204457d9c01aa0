---------------------------- MODULE RowSecurity ----------------------------
(***************************************************************************)
(* Row-level security, sqlguard/rls.py: apply_rls on the references of one *)
(* scope, then the statement it returns run by a database.                 *)
(*                                                                         *)
(* The scan looks at one table reference per step against the conjuncts    *)
(* the statement was written with; only then are the queued predicates     *)
(* injected, one reference per step, into the WHERE, a join's ON or a      *)
(* filtered subquery around the reference.  The caller may hand the        *)
(* returned statement to validate() again, or run it.                      *)
(*                                                                         *)
(* The statement's own conditions other than its conjuncts on governed     *)
(* columns are data: a join condition is equality of keys with the source  *)
(* before it.  The database evaluates the joins left to right.  "ref" is   *)
(* the same statement, as written, on tables that hold only the rows the   *)
(* rules allow.                                                            *)
(***************************************************************************)
EXTENDS Naturals, Sequences, JoinAlgebra

CONSTANTS Columns,      \* of them "key" is the one joins compare
          ColumnsOf,    \* ColumnsOf[t]: the columns of table t; its domain are the tables
          Values,
          Params,       \* names of RLS parameters
          Requests,     \* policy, params and statement of a call of validate()
          Databases     \* the contents of the tables

Tables == DOMAIN ColumnsOf

Rule == [tables : SUBSET Tables, column : Columns, param : Params, skip : BOOLEAN]
PolicyType == [rules : SUBSET Rule, strategy : {"predicate", "subquery", "require"},
               parameterize : BOOLEAN, conflict : {"error", "warn", "ignore"}]

\* A param is not passed, or has a scalar or a list value, or one that
\* _convert_value cannot render.  "vals" are the values the caller may see;
\* of a missing param, what it binds to the placeholder when the statement runs.
ParamValue == [kind : {"missing", "scalar", "list", "unusable"}, vals : SUBSET Values]

\* A conjunct "source.column IN vals".  "cast" is an equality with a CAST of a
\* literal, "opaque" any condition the scan does not take apart, such as an OR.
Conjunct == [source : Nat, column : Columns, bare : BOOLEAN, vals : SUBSET Values,
             form : {"eq", "in", "cast", "placeholder", "opaque"}, param : Params]

Source == [table : Tables, join : {"from", "inner", "left", "right", "full"},
           cond : {"none", "on", "using", "natural", "cross"}]

Query(q) ==
  /\ q.sources \in Seq(Source) /\ q.sources # << >>
  /\ q.where \in SUBSET Conjunct
  /\ q.on \in [1..Len(q.sources) -> SUBSET Conjunct]
  /\ \A i \in 1..Len(q.sources) :
       /\ q.sources[i].join = "from" <=> i = 1
       /\ q.sources[i].join = "from" <=> q.sources[i].cond = "none"
       /\ q.sources[i].cond # "on" => q.on[i] = {}
       /\ \A c \in q.on[i] : c.source \in 1..i

ASSUME RequestsAssumption ==
  \A q \in Requests :
    q.policy \in PolicyType /\ q.params \in [Params -> ParamValue] /\ Query(q.query)

VARIABLES request,
          where, on, wrap,   \* the predicates injected so far, by place
          pc, pass,
          next,              \* the reference the scan comes to next
          injections,        \* queued: <<reference, predicates>>
          violations,
          db, rel, ref       \* the run of the statement, join by join

policy == request.policy
params == request.params
query == request.query

injected == <<where, on, wrap>>
execution == <<db, rel, ref>>
vars == <<request, where, on, wrap, pc, pass, next, injections,
          violations, db, rel, ref>>

References == 1..Len(query.sources)
TableOf(i) == query.sources[i].table

Init ==
  /\ request \in Requests
  /\ where = {}
  /\ on = [i \in References |-> {}]
  /\ wrap = [i \in References |-> {}]
  /\ pc = "scan" /\ pass = 1 /\ next = 1
  /\ injections = << >>
  /\ violations = {}
  /\ db = [t \in Tables |-> {}] /\ rel = {} /\ ref = {}

-----------------------------------------------------------------------------
(* The scan.                                                                *)

\* The rules whose table pattern matches, and those whose column exists.
Matching(i) == {r \in policy.rules : TableOf(i) \in r.tables}
Governing(i) == {r \in Matching(i) : r.column \in ColumnsOf[TableOf(i)]}

\* _scope_predicate_pool.  A wrapped reference is scanned in the subquery's own
\* scope, where the predicates of the wrap are all there is.
PoolWithoutOn(i) == IF wrap[i] # {} THEN wrap[i] ELSE query.where \cup where

Pool(i) ==
  IF wrap[i] # {} THEN wrap[i]
  ELSE query.where \cup where \cup UNION {query.on[j] \cup on[j] : j \in References}

ColumnMatches(c, i, r) ==
  /\ c.source = i /\ c.column = r.column
  /\ c.bare => Len(query.sources) = 1

Expected(r) == params[r.param].kind = "scalar"
IsLiteral(c) == c.form \in {"eq", "in"}

\* The rule's own predicate is among the conjuncts.
PresentIn(conjuncts, i, r) ==
  \E c \in conjuncts :
    /\ ColumnMatches(c, i, r)
    /\ \/ c.form = "placeholder" /\ c.param = r.param
       \/ Expected(r) /\ IsLiteral(c) /\ c.vals = params[r.param].vals

AlreadyPresent(i, r) == PresentIn(Pool(i), i, r)

\* A literal that is not the caller's; a CAST never compares equal to one.
Conflicting(i, r) ==
  /\ Expected(r)
  /\ \E c \in Pool(i) :
       /\ ColumnMatches(c, i, r)
       /\ c.form = "cast" \/ (IsLiteral(c) /\ c.vals # params[r.param].vals)

\* The rules of the reference that have a value to filter by.
Applicable(i) ==
  {r \in Governing(i) : \/ params[r.param].kind \in {"scalar", "list"}
                        \/ params[r.param].kind = "missing" /\ policy.parameterize}
Unfiltered(i) == {r \in Applicable(i) : ~AlreadyPresent(i, r)}

Reported(code, rules, is_error) ==
  {[code |-> code, column |-> r.column, is_error |-> is_error] : r \in rules}

ScanReports(i) ==
  Reported("RLS_CONFIG_ERROR", {r \in Matching(i) \ Governing(i) : ~r.skip}, TRUE)
    \cup Reported("RLS_CONFIG_ERROR",
                  {r \in Governing(i) : params[r.param].kind = "unusable"}, TRUE)
    \cup Reported("RLS_PARAM_MISSING",
                  {r \in Governing(i) : params[r.param].kind = "missing" /\ ~policy.parameterize},
                  TRUE)
    \cup Reported("TENANT_FILTER_CONFLICT",
                  {r \in Applicable(i) : Conflicting(i, r) /\ policy.conflict # "ignore"},
                  policy.conflict = "error")
    \cup Reported("MISSING_TENANT_FILTER",
                  {r \in Unfiltered(i) : policy.strategy = "require"}, TRUE)

\* _build_predicate.
Predicate(i, r) ==
  [source |-> i, column |-> r.column, bare |-> FALSE, param |-> r.param,
   vals |-> IF params[r.param].kind = "missing" THEN {} ELSE params[r.param].vals,
   form |-> CASE params[r.param].kind = "missing" -> "placeholder"
              [] params[r.param].kind = "list" -> "in"
              [] OTHER -> "eq"]

\* Mutant: a reference is queued although it has no predicates.
QueueAnything(i, preds) == Append(injections, <<i, preds>>)

Queue(i, preds) == IF preds = {} THEN injections ELSE Append(injections, <<i, preds>>)

\* One reference of the scope against every rule.
ScanReference ==
  /\ pc = "scan" /\ next \in References
  /\ violations' = violations \cup ScanReports(next)
  /\ injections' = IF policy.strategy = "require" THEN injections
                   ELSE Queue(next, {Predicate(next, r) : r \in Unfiltered(next)})
  /\ next' = next + 1
  /\ UNCHANGED <<request, injected, pc, pass, execution>>

EndScan ==
  /\ pc = "scan" /\ next \notin References
  /\ pc' = "inject"
  /\ UNCHANGED <<request, injected, pass, next, injections, violations, execution>>

-----------------------------------------------------------------------------
(* The injection.                                                           *)

\* Mutants: LEFT joins are treated as INNER ones, RIGHT joins as LEFT ones.
PlacementLeftInWhere(s) ==
  IF s.join \in {"right", "full"} \/ s.cond = "using" THEN "wrap" ELSE "where"
PlacementRightInOn(s) ==
  IF s.join = "full" \/ s.cond = "using" THEN "wrap"
  ELSE IF s.join \in {"left", "right"} THEN "on" ELSE "where"

\* Where _inject puts the predicates of a reference under "predicate".
Placement(s) ==
  IF \/ s.join \in {"right", "full"} \/ s.cond = "using"
     \/ s.join = "left" /\ s.cond # "on"
    THEN "wrap"
  ELSE IF s.join = "left" THEN "on" ELSE "where"

\* A wrapped reference takes further predicates inside its subquery.
PlaceFor(i) ==
  IF policy.strategy = "subquery" \/ wrap[i] # {} THEN "wrap"
  ELSE Placement(query.sources[i])

Inject ==
  /\ pc = "inject" /\ injections # << >>
  /\ LET i == Head(injections)[1]
         preds == Head(injections)[2]
     IN  \/ /\ PlaceFor(i) = "where"
            /\ where' = where \cup preds
            /\ UNCHANGED <<on, wrap>>
         \/ /\ PlaceFor(i) = "on"
            /\ on' = [on EXCEPT ![i] = @ \cup preds]
            /\ UNCHANGED <<where, wrap>>
         \/ /\ PlaceFor(i) = "wrap"
            /\ wrap' = [wrap EXCEPT ![i] = @ \cup preds]
            /\ UNCHANGED <<where, on>>
  /\ injections' = Tail(injections)
  /\ UNCHANGED <<request, pc, pass, next, violations, execution>>

Return ==
  /\ pc = "inject" /\ injections = << >>
  /\ pc' = "returned"
  /\ UNCHANGED <<request, injected, pass, next, injections, violations, execution>>

Accepted == \A v \in violations : ~v.is_error

-----------------------------------------------------------------------------
(* What the caller does with a statement that was accepted.                 *)

\* It validates the returned statement again, with the same params.
Revalidate ==
  /\ pc = "returned" /\ Accepted /\ pass = 1
  /\ pc' = "scan" /\ pass' = 2 /\ next' = 1 /\ violations' = {}
  /\ UNCHANGED <<request, injected, injections, execution>>

NullRow == << >>

\* A row of a table has columns.
ASSUME DatabasesAssumption == \A d \in Databases : \A t \in Tables : NullRow \notin d[t]

Accepting(c) == IF c.form = "placeholder" THEN params[c.param].vals ELSE c.vals

\* A conjunct is true of the joined row x; it never is of a null row.
Holds(c, x) == x[c.source] # NullRow /\ x[c.source][c.column] \in Accepting(c)

\* Of the rows of reference i's table, those that its rules allow.
AllowedRow(i, row) == \A r \in Governing(i) : row[r.column] \in params[r.param].vals
AllowedRows(i, rows) == {row \in rows : AllowedRow(i, row)}

\* And those the reference stands for once it is wrapped.
WrappedRows(i, rows) ==
  {row \in rows : \A c \in wrap[i] : row[c.column] \in Accepting(c)}

\* The joined row l with the row r of source i.
Extend(l, r, i) == [j \in 1..i |-> IF j = i THEN r ELSE l[j]]

\* The pairs the condition of join i accepts, with the extra conjuncts cs.
Accepts(i, L, R, cs) ==
  {p \in L \X R :
     /\ query.sources[i].cond # "cross"
          => p[1][i - 1] # NullRow /\ p[1][i - 1].key = p[2].key
     /\ \A c \in cs : Holds(c, Extend(p[1], p[2], i))}

\* The first i-1 sources joined with the rows of the i-th.
JoinWith(i, L, R, cs) ==
  LET pairs == Join(query.sources[i].join, L, R, Accepts(i, L, R, cs),
                    [j \in 1..(i - 1) |-> NullRow], NullRow)
  IN  {Extend(p[1], p[2], i) : p \in pairs}

\* The database runs the statement: the FROM source, the joins in order, the
\* WHERE.  "next" is the source that is joined next.
Execute ==
  /\ pc = "returned" /\ Accepted
  /\ pc' = "execute" /\ next' = 2
  /\ \E contents \in Databases :
       /\ db' = contents
       /\ rel' = {[j \in {1} |-> row] : row \in WrappedRows(1, contents[TableOf(1)])}
       /\ ref' = {[j \in {1} |-> row] : row \in AllowedRows(1, contents[TableOf(1)])}
  /\ UNCHANGED <<request, injected, pass, injections, violations>>

JoinSource ==
  /\ pc = "execute" /\ next \in References
  /\ LET rows == db[TableOf(next)]
     IN  /\ rel' = JoinWith(next, rel, WrappedRows(next, rows), query.on[next] \cup on[next])
         /\ ref' = JoinWith(next, ref, AllowedRows(next, rows), query.on[next])
  /\ next' = next + 1
  /\ UNCHANGED <<request, injected, pc, pass, injections, violations, db>>

FilterWhere ==
  /\ pc = "execute" /\ next \notin References
  /\ pc' = "done"
  /\ rel' = {x \in rel : \A c \in query.where \cup where : Holds(c, x)}
  /\ ref' = {x \in ref : \A c \in query.where : Holds(c, x)}
  /\ UNCHANGED <<request, injected, pass, next, injections, violations, db>>

Next ==
  \/ ScanReference \/ EndScan \/ Inject \/ Return
  \/ Revalidate \/ Execute \/ JoinSource \/ FilterWhere

Spec == Init /\ [][Next]_vars

-----------------------------------------------------------------------------

ViolationType == [code : {"RLS_CONFIG_ERROR", "RLS_PARAM_MISSING",
                          "TENANT_FILTER_CONFLICT", "MISSING_TENANT_FILTER"},
                  column : Columns, is_error : BOOLEAN]

TypeOK ==
  /\ request \in Requests
  /\ where \subseteq Conjunct
  /\ on \in [References -> SUBSET Conjunct]
  /\ wrap \in [References -> SUBSET Conjunct]
  /\ pc \in {"scan", "inject", "returned", "execute", "done"}
  /\ pass \in {1, 2}
  /\ next \in 1..(Len(query.sources) + 1)
  /\ injections \in Seq(References \X ((SUBSET Conjunct) \ {{}}))
  /\ violations \subseteq ViolationType
  /\ pc = "execute" => \A x \in rel \cup ref : DOMAIN x = 1..(next - 1)

\* Join j keeps every row of reference i, whatever its ON says.
Preserves(j, i) ==
  \/ query.sources[j].join = "full"
  \/ query.sources[j].join = "left" /\ i < j
  \/ query.sources[j].join = "right" /\ i = j

\* The statement has the rule's predicate nowhere but in the ON of joins that
\* preserve the reference, where it filters nothing.
MisreadOn(i, r) ==
  LET written(J) == query.where \cup UNION {query.on[j] : j \in J}
  IN  /\ PresentIn(written(References), i, r)
      /\ ~PresentIn(written({j \in References : ~Preserves(j, i)}), i, r)

\* Row x of the result shows of reference i a null row or an allowed one.
ShowsAllowed(x, i) == x[i] = NullRow \/ AllowedRow(i, x[i])

\* The invariant of rls.py:3-6: "no row of a governed table may flow into the
\* result unless the governing predicate was applied at that table reference".
GovernedRowsFiltered ==
  pc = "done" => \A x \in rel : \A i \in References : ShowsAllowed(x, i)

\* The same for every statement whose own conjuncts the scan reads rightly:
\* an accepted statement shows no row of a governed table that a rule forbids,
\* whichever way the joins combine the references and the three places a
\* predicate can be injected at (rls.py:202-287, 342-362).
FilteredUnlessMisread ==
  pc = "done" =>
    \A i \in References : (\A r \in Governing(i) : ~MisreadOn(i, r)) =>
      \A x \in rel : ShowsAllowed(x, i)

NothingMisread == \A i \in References : \A r \in Governing(i) : ~MisreadOn(i, r)

\* Predicates of reference i went to the WHERE although a later join null-extends i.
NulledBeforeWhere(i) ==
  /\ \E c \in where : c.source = i
  /\ \E j \in References : j > i /\ query.sources[j].join \in {"right", "full"}

\* An accepted statement returns what it would as written on tables that hold
\* nothing but allowed rows: the injection takes the forbidden rows away and
\* otherwise changes no row, no null extension and no match (rls.py:8-13).
\* Excluded are conjuncts misread (run rls_reference), and references a later
\* RIGHT or FULL join null-extends after their predicate went to the WHERE: there
\* "WHERE is equivalent" (rls.py:356) does not hold.
FilteredAsReference ==
  pc = "done" /\ NothingMisread /\ (\A i \in References : ~NulledBeforeWhere(i)) =>
    rel = ref

\* Validating a returned statement again is stable: no predicate is queued, no
\* violation reported (tests/test_fuzz.py:180-188, invariant 4), when no
\* reference has two rules and no list is passed, which the scan never finds.
SecondPassAddsNothing ==
  /\ pass = 2
  /\ \A i \in References : \A r, s \in Matching(i) :
       r = s /\ params[r.param].kind # "list"
  => injections = << >> /\ Accepted
=============================================================================
