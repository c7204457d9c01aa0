---------------------------- MODULE ColumnRules ----------------------------
(***************************************************************************)
(* Column rules, sqlguard/rewrite.py: the select lists of a qualified      *)
(* statement, the check of the references its author wrote and the pass    *)
(* that drops restricted items from expanded stars, then the returned      *)
(* statement run by a database.                                            *)
(*                                                                         *)
(* A statement is the sequence of its scopes in the order traverse_scope   *)
(* yields them: a derived table, a CTE or an operand comes before the      *)
(* scope that reads it, the root is last.  A select reads one or two       *)
(* sources; a set operation has two selects as operands.  Each pass takes  *)
(* the scopes in that order, one per step.                                 *)
(*                                                                         *)
(* An item keeps the position it was written at, so a list with dropped    *)
(* items is the same function on fewer positions.  The database runs the   *)
(* statement on two contents that differ in hidden columns only.           *)
(***************************************************************************)
EXTENDS Naturals, Sequences, FiniteSets

CONSTANTS Names,        \* of columns and of select items
          ColumnsOf,    \* ColumnsOf[t]: the columns of table t, in order
          Tagged,       \* the <<table, column>> with the tag of the tag rules
          Requests,     \* a policy's rules and a statement as written
          Wanted,       \* what a WHERE compares its columns with
          Databases,    \* the contents of the tables, row by row
          MaxDepth      \* the deepest _depth of resolve_column_origin, 12

Tables == DOMAIN ColumnsOf

\* A rule for some column names of any table ("*") or of some tables.
Rule == [columns : SUBSET Names, any_table : BOOLEAN, tables : SUBSET Tables,
         tagged : BOOLEAN, action : {"deny", "exclude_from_star"}]

\* A catalog table, or with table "" the scope of that number.
Source == [table : Tables, scope : {0}] \cup [table : {""}, scope : Nat \ {0}]

Reference == [source : {1, 2}, column : Names]
\* A plain item is a column, possibly renamed; the others compute from one.
Item == [name : Names, ref : Reference, plain : BOOLEAN]

\* "star" is the mark of mark_star_selects, "items" what is written beside it.
Scope == [op : {"select", "union", "intersect", "except"}, sources : Seq(Source),
          star : BOOLEAN, items : Seq(Item), filter : SUBSET Reference]

\* What the author refers to in a scope.
ReferencesIn(s) == s.filter \cup {s.items[p].ref : p \in DOMAIN s.items}

Statement(scopes) ==
  /\ scopes \in Seq(Scope) /\ scopes # << >>
  /\ \A i \in DOMAIN scopes :
       LET s == scopes[i]
       IN  /\ Len(s.sources) \in {1, 2}
           /\ \A k \in DOMAIN s.sources : s.sources[k].scope < i
           /\ \A ref \in ReferencesIn(s) : ref.source \in DOMAIN s.sources
           /\ s.op # "select" =>
                /\ Len(s.sources) = 2 /\ ~s.star /\ s.items = << >> /\ s.filter = {}
                /\ \A k \in {1, 2} : s.sources[k].scope # 0
                                     /\ scopes[s.sources[k].scope].op = "select"

ASSUME TablesAssumption ==
  "" \notin Tables /\ \A t \in Tables : ColumnsOf[t] \in Seq(Names)
ASSUME RequestsAssumption ==
  \A q \in Requests : q.rules \subseteq Rule /\ Statement(q.scopes)
ASSUME DepthAssumption == MaxDepth \in Nat \ {0}

VARIABLES request,
          items,        \* the select list of each scope, by position
          pc, next,     \* the pass and the scope it comes to next
          violations,
          db, twin,     \* the two contents
          rows, twinRows \* what each scope returns on them

rules == request.rules
scopes == request.scopes
lists == <<items, violations>>
execution == <<db, twin, rows, twinRows>>
vars == <<request, items, pc, next, violations, db, twin, rows, twinRows>>

ScopeIds == DOMAIN scopes
Root == Len(scopes)
IsSelect(i) == scopes[i].op = "select"

Init ==
  /\ request \in Requests
  /\ items = [i \in ScopeIds |-> << >>]
  /\ pc = "qualify" /\ next = 1
  /\ violations = {}
  /\ db = << >> /\ twin = << >>
  /\ rows = [i \in ScopeIds |-> {}] /\ twinRows = rows

\* A pass goes to the next scope; after the root the next pass starts.
Continue(following) ==
  IF next < Root THEN next' = next + 1 /\ UNCHANGED pc
                 ELSE next' = 1 /\ pc' = following

-----------------------------------------------------------------------------
(* Names and lineage.                                                       *)

\* Mutant: the right operand names the outputs.
ListOfRight(i) == IF IsSelect(i) THEN i ELSE scopes[i].sources[2].scope

\* The select whose list names the outputs of scope i: a set operation has
\* those of its left operand.
ListOf(i) == IF IsSelect(i) THEN i ELSE scopes[i].sources[1].scope

\* The output names of a source, by position.
NamesOf(s) ==
  IF s.scope = 0 THEN ColumnsOf[s.table]
  ELSE [p \in DOMAIN items[ListOf(s.scope)] |-> items[ListOf(s.scope)][p].name]

Positions(s, name) == {p \in DOMAIN NamesOf(s) : NamesOf(s)[p] = name}
First(P) == CHOOSE p \in P : \A q \in P : p <= q
Resolves(i, ref) == Positions(scopes[i].sources[ref.source], ref.column) # {}

\* A reference together with the scope it is written in.
At(i, ref) == [scope |-> i, ref |-> ref]
SourceOf(at) == scopes[at.scope].sources[at.ref.source]
Lost == [scope |-> 0, ref |-> [source |-> 1, column |-> ""]]

\* One step of resolve_column_origin: from a column of a derived source to the
\* column that the source's first item of that name passes through.
Follow(at) ==
  IF at = Lost \/ SourceOf(at).scope = 0 THEN at
  ELSE LET list == ListOf(SourceOf(at).scope)
           P == Positions(SourceOf(at), at.ref.column)
       IN  IF P = {} \/ ~items[list][First(P)].plain THEN Lost
           ELSE At(list, items[list][First(P)].ref)

NoOrigin == [table |-> "", column |-> ""]

\* Where a reference leads in so many steps.
Lineage(at) ==
  LET trace[n \in Nat] == IF n = 0 THEN at ELSE Follow(trace[n - 1])
  IN  trace

\* The table column behind a reference, unless it is computed, no longer in
\* the list of its source, or too deep.
Origin(at) ==
  LET end == Lineage(at)[MaxDepth]
  IN  IF end = Lost \/ SourceOf(end).scope # 0 THEN NoOrigin
      ELSE [table |-> SourceOf(end).table, column |-> end.ref.column]

\* Mutant: every rule needs to know the table.
RuleNeedsTable(r, origin, name) ==
  /\ origin # NoOrigin
  /\ origin.column \in r.columns
  /\ r.tagged => <<origin.table, origin.column>> \in Tagged
  /\ r.any_table \/ origin.table \in r.tables

\* Table and tag rules need an origin; the others go by the name if need be.
RuleMatches(r, origin, name) ==
  /\ (IF origin = NoOrigin THEN name ELSE origin.column) \in r.columns
  /\ r.tagged => <<origin.table, origin.column>> \in Tagged
  /\ r.any_table \/ origin.table \in r.tables

MatchingRules(at) == {r \in rules : RuleMatches(r, Origin(at), at.ref.column)}

-----------------------------------------------------------------------------
(* The passes.                                                              *)

\* The items a star stands for.
StarItems(i) ==
  LET of(k) == LET s == scopes[i].sources[k]
               IN  [p \in 1..Len(NamesOf(s)) |->
                      [name |-> NamesOf(s)[p], plain |-> TRUE,
                       ref |-> [source |-> k, column |-> NamesOf(s)[p]]]]
  IN  IF Len(scopes[i].sources) = 1 THEN of(1) ELSE of(1) \o of(2)

Expanded(i) == (IF scopes[i].star THEN StarItems(i) ELSE << >>) \o scopes[i].items

Written(i) == ReferencesIn(scopes[i])

\* qualify() expands the marked lists, the inner ones first, and gives up at a
\* reference it cannot resolve: SEMANTIC_ERROR, and nothing is returned.
Qualify ==
  /\ pc = "qualify"
  /\ \/ /\ \A ref \in Written(next) : Resolves(next, ref)
        /\ items' = [items EXCEPT ![next] = Expanded(next)]
        /\ Continue("check")
     \/ /\ \E ref \in Written(next) : ~Resolves(next, ref)
        /\ pc' = "not_qualified"
        /\ UNCHANGED <<items, next>>
  /\ UNCHANGED <<request, violations, execution>>

\* Mutant: whatever is in a starred list is exempt, computed items too.
ExemptAnything(i, p) == scopes[i].star

\* Plain items of a starred list are left to the drop pass.
Exempt(i, p) == scopes[i].star /\ items[i][p].plain

ExplicitReferences(i) ==
  scopes[i].filter \cup {items[i][p].ref : p \in {p \in DOMAIN items[i] : ~Exempt(i, p)}}

Denied(at) == \E r \in MatchingRules(at) : r.action = "deny"

\* One scope of the first pass: explicit references to denied columns.
CheckReferences ==
  /\ pc = "check"
  /\ violations' = violations \cup
       {[code |-> "COLUMN_DENIED", table |-> Origin(at).table, column |-> at.ref.column] :
          at \in {at \in {At(next, ref) : ref \in ExplicitReferences(next)} : Denied(at)}}
  /\ Continue("drop")
  /\ UNCHANGED <<request, items, execution>>

\* The positions of a starred list no rule matches.
Kept(i) ==
  {p \in DOMAIN items[i] : items[i][p].plain => MatchingRules(At(i, items[i][p].ref)) = {}}

\* One scope of the second pass.  Lineage is looked up in lists that the pass
\* has been through already.
DropItems ==
  /\ pc = "drop"
  /\ \/ /\ ~scopes[next].star \/ Kept(next) = DOMAIN items[next]
        /\ UNCHANGED lists
     \/ /\ scopes[next].star /\ Kept(next) = {} /\ items[next] # << >>
        /\ violations' = violations \cup
             {[code |-> "EMPTY_SELECT", table |-> "", column |-> ""]}
        /\ UNCHANGED items
     \/ /\ scopes[next].star /\ Kept(next) \notin {{}, DOMAIN items[next]}
        /\ items' = [items EXCEPT ![next] = [p \in Kept(next) |-> items[next][p]]]
        /\ UNCHANGED violations
  /\ Continue("returned")
  /\ UNCHANGED <<request, execution>>

Accepted == violations = {}

-----------------------------------------------------------------------------
(* The database.                                                            *)

\* What the rules hide: denied columns, and the other restricted ones unless
\* the author asked a table for them.
AskedFor(t, c) ==
  \E i \in ScopeIds : \E ref \in Written(i) :
    scopes[i].sources[ref.source].table = t /\ ref.column = c

Hidden(t, c) ==
  \E r \in rules : /\ RuleMatches(r, [table |-> t, column |-> c], c)
                   /\ r.action = "deny" \/ ~AskedFor(t, c)

Agree(d, e) ==
  \A t \in Tables :
    /\ DOMAIN d[t] = DOMAIN e[t]
    /\ \A k \in DOMAIN d[t], p \in DOMAIN ColumnsOf[t] :
         d[t][k][p] = e[t][k][p] \/ Hidden(t, ColumnsOf[t][p])

Execute ==
  /\ pc = "returned" /\ Accepted
  /\ db' \in Databases /\ twin' \in Databases /\ Agree(db', twin')
  /\ pc' = "run"
  /\ UNCHANGED <<request, lists, next, rows, twinRows>>

\* References the database cannot resolve, and operands it cannot combine.
Dangling(i) ==
  \E ref \in scopes[i].filter \cup {items[i][p].ref : p \in DOMAIN items[i]} : ~Resolves(i, ref)

Operand(i, k) == scopes[i].sources[k].scope
Misaligned(i) ==
  ~IsSelect(i) /\ Cardinality(DOMAIN items[Operand(i, 1)])
                    # Cardinality(DOMAIN items[Operand(i, 2)])

SourceRows(s, contents, results) ==
  IF s.scope = 0 THEN {contents[s.table][k] : k \in DOMAIN contents[s.table]}
                 ELSE results[s.scope]

\* The value of a reference in the joined row x.
ValueOf(i, ref, x) == x[ref.source][First(Positions(scopes[i].sources[ref.source], ref.column))]

Select(i, contents, results) ==
  LET from(k) == SourceRows(scopes[i].sources[k], contents, results)
      joined == IF Len(scopes[i].sources) = 1 THEN {<<l>> : l \in from(1)}
                                              ELSE from(1) \X from(2)
  IN  {[p \in DOMAIN items[i] |-> ValueOf(i, items[i][p].ref, x)] :
         x \in {x \in joined : \A ref \in scopes[i].filter : ValueOf(i, ref, x) = Wanted}}

\* The rows of the right operand, put at the positions of the left one.
Realigned(i, results) ==
  LET L == DOMAIN items[Operand(i, 1)]
      R == DOMAIN items[Operand(i, 2)]
      at(p) == CHOOSE q \in R : Cardinality({x \in R : x < q}) = Cardinality({x \in L : x < p})
  IN  {[p \in L |-> row[at(p)]] : row \in results[Operand(i, 2)]}

Combine(i, results) ==
  LET left == results[Operand(i, 1)]
      right == Realigned(i, results)
  IN  CASE scopes[i].op = "union" -> left \cup right
        [] scopes[i].op = "intersect" -> left \cap right
        [] scopes[i].op = "except" -> left \ right

Evaluate(i, contents, results) ==
  IF IsSelect(i) THEN Select(i, contents, results) ELSE Combine(i, results)

RunScope ==
  /\ pc = "run" /\ ~Dangling(next) /\ ~Misaligned(next)
  /\ rows' = [rows EXCEPT ![next] = Evaluate(next, db, rows)]
  /\ twinRows' = [twinRows EXCEPT ![next] = Evaluate(next, twin, twinRows)]
  /\ Continue("done")
  /\ UNCHANGED <<request, lists, db, twin>>

\* The database refuses the statement.
Reject ==
  /\ pc = "run" /\ (Dangling(next) \/ Misaligned(next))
  /\ pc' = IF Dangling(next) THEN "unresolved" ELSE "misaligned"
  /\ UNCHANGED <<request, lists, next, execution>>

Next == Qualify \/ CheckReferences \/ DropItems \/ Execute \/ RunScope \/ Reject

Spec == Init /\ [][Next]_vars

-----------------------------------------------------------------------------

ViolationType == [code : {"COLUMN_DENIED"}, table : Tables \cup {""}, column : Names]
                   \cup [code : {"EMPTY_SELECT"}, table : {""}, column : {""}]

Shaped(results, i) ==
  \A row \in results[i] : DOMAIN row = DOMAIN items[ListOf(i)]

TypeOK ==
  /\ rules \subseteq Rule /\ Statement(scopes)
  /\ DOMAIN items = ScopeIds
  /\ \A i \in ScopeIds : DOMAIN items[i] \subseteq Nat /\ \A p \in DOMAIN items[i] : items[i][p] \in Item
  /\ pc \in {"qualify", "not_qualified", "check", "drop", "returned",
             "run", "done", "unresolved", "misaligned"}
  /\ next \in ScopeIds
  /\ violations \subseteq ViolationType
  /\ DOMAIN rows = ScopeIds /\ DOMAIN twinRows = ScopeIds
  /\ \A i \in ScopeIds : Shaped(rows, i) /\ Shaped(twinRows, i)

\* What an accepted statement returns does not depend on a hidden column: not
\* through an item, a WHERE or the operands of a set operation, whatever the
\* chain of lists and names it would have to come through (rewrite.py:71-181;
\* policy.py:103-109 for what the two actions promise).  Every reference is
\* seen to by exactly one of the two passes, or it would be seen to by none.
HiddenNeverMatters == pc = "done" => rows[Root] = twinRows[Root]

Renames(i) == \E p \in DOMAIN scopes[i].items : scopes[i].items[p].name # scopes[i].items[p].ref.column
OnlyDenies == \A r \in rules : r.action = "deny"
OnlyNames == \A r \in rules : r.any_table /\ ~r.tagged
FlatStars == \A i \in ScopeIds : scopes[i].star =>
               \A k \in DOMAIN scopes[i].sources : scopes[i].sources[k].scope = 0

\* Dropped items are not missed by the scopes around them, without set
\* operations and with deny rules only, when stars read tables only, or when
\* the rules go by names alone and no starred list renames a column
\* (rewrite.py:148-173).  The first pass must have refused every scope that
\* asks for an item the second pass drops.
DroppedOnlyWhereUnused ==
  /\ OnlyDenies /\ \A i \in ScopeIds : IsSelect(i)
  /\ FlatStars \/ (OnlyNames /\ \A i \in ScopeIds : scopes[i].star => ~Renames(i))
  => pc # "unresolved"

\* tests/test_fuzz.py:195 on validating an output again: "assert second.valid".
\* A returned statement whose references do not resolve is refused by the
\* second call's name binding, as it is by the database.
ReturnedStatementResolves == pc # "unresolved"
=============================================================================
