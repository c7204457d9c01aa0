------------------------- MODULE RowSecurityProofs -------------------------
(* Theorems about row-level security for statements with any number of      *)
(* sources and conjuncts, every policy, params and database.                *)
EXTENDS RowSecurity, TLAPS

\* The statement of the request, typed.
LEMMA RequestTyped ==
  ASSUME request \in Requests
  PROVE  /\ policy \in PolicyType
         /\ params \in [Params -> ParamValue]
         /\ query.sources \in Seq(Source) /\ query.sources # << >>
         /\ query.where \in SUBSET Conjunct
         /\ query.on \in [References -> SUBSET Conjunct]
         /\ \A i \in References :
              /\ query.sources[i].join = "from" <=> i = 1
              /\ query.sources[i].join = "from" <=> query.sources[i].cond = "none"
              /\ query.sources[i].cond # "on" => query.on[i] = {}
              /\ \A c \in query.on[i] : c.source \in 1..i
BY RequestsAssumption DEF Query, policy, params, query, References

LEMMA ReferencesTyped ==
  ASSUME request \in Requests
  PROVE  /\ Len(query.sources) \in Nat \ {0}
         /\ References \subseteq Nat
         /\ \A i \in References : query.sources[i] \in Source
BY RequestTyped DEF References

\* What the scan builds is a conjunct on the reference.
LEMMA PredicateTyped ==
  ASSUME request \in Requests, NEW i \in References, NEW r \in policy.rules
  PROVE  /\ Predicate(i, r) \in Conjunct
         /\ Predicate(i, r).source = i
<1>1. r \in Rule /\ params[r.param] \in ParamValue /\ i \in Nat
  BY RequestTyped, ReferencesTyped DEF PolicyType, Rule
<1>2. r.column \in Columns /\ r.param \in Params /\ params[r.param].vals \in SUBSET Values
  BY <1>1 DEF Rule, ParamValue
<1> QED BY <1>1, <1>2 DEF Predicate, Conjunct

LEMMA ReportsTyped ==
  ASSUME request \in Requests, NEW i \in References
  PROVE  ScanReports(i) \subseteq ViolationType
<1>1. \A r \in policy.rules : r.column \in Columns
  BY RequestTyped DEF PolicyType, Rule
<1>2. \A code \in {"RLS_CONFIG_ERROR", "RLS_PARAM_MISSING", "TENANT_FILTER_CONFLICT",
                   "MISSING_TENANT_FILTER"} :
        \A rules \in SUBSET policy.rules : \A e \in BOOLEAN :
          Reported(code, rules, e) \subseteq ViolationType
  BY <1>1 DEF Reported, ViolationType
<1> DEFINE missing == {r \in Governing(i) : params[r.param].kind = "missing" /\ ~policy.parameterize}
           unusable == {r \in Governing(i) : params[r.param].kind = "unusable"}
           conflicting == {r \in Applicable(i) : Conflicting(i, r) /\ policy.conflict # "ignore"}
           required == {r \in Unfiltered(i) : policy.strategy = "require"}
           absent == {r \in Matching(i) \ Governing(i) : ~r.skip}
<1>3. /\ missing \subseteq policy.rules /\ unusable \subseteq policy.rules
      /\ conflicting \subseteq policy.rules /\ required \subseteq policy.rules
      /\ absent \subseteq policy.rules
  BY DEF Unfiltered, Applicable, Governing, Matching
<1>4. /\ Reported("RLS_CONFIG_ERROR", absent, TRUE) \subseteq ViolationType
      /\ Reported("RLS_CONFIG_ERROR", unusable, TRUE) \subseteq ViolationType
      /\ Reported("RLS_PARAM_MISSING", missing, TRUE) \subseteq ViolationType
      /\ Reported("TENANT_FILTER_CONFLICT", conflicting, policy.conflict = "error") \subseteq ViolationType
      /\ Reported("MISSING_TENANT_FILTER", required, TRUE) \subseteq ViolationType
  <2> HIDE DEF missing, unusable, conflicting, required, absent
  <2> QED BY <1>2, <1>3
<1> QED BY <1>4 DEF ScanReports

-----------------------------------------------------------------------------
(* Type correctness.                                                        *)

Entries == References \X ((SUBSET Conjunct) \ {{}})

LEMMA QueueTyped ==
  ASSUME request \in Requests, NEW i \in References, injections \in Seq(Entries)
  PROVE  Queue(i, {Predicate(i, r) : r \in Unfiltered(i)}) \in Seq(Entries)
<1> DEFINE preds == {Predicate(i, r) : r \in Unfiltered(i)}
<1> SUFFICES Queue(i, preds) \in Seq(Entries)
  OBVIOUS
<1>1. Unfiltered(i) \subseteq policy.rules
  BY DEF Unfiltered, Applicable, Governing, Matching
<1>2. preds \in SUBSET Conjunct
  BY <1>1, PredicateTyped
<1>3. CASE preds = {}
  BY <1>3 DEF Queue
<1>4. CASE preds # {}
  <2>1. <<i, preds>> \in Entries
    BY <1>2, <1>4 DEF Entries
  <2> HIDE DEF preds
  <2> QED BY <2>1, <1>4 DEF Queue
<1> QED BY <1>3, <1>4

\* Where a row of the joined relation has its components.
Shaped(rows, n) == \A x \in rows : DOMAIN x = 1..n

LEMMA JoinShaped ==
  ASSUME NEW i \in Nat, NEW L, NEW R, NEW cs
  PROVE  Shaped(JoinWith(i, L, R, cs), i)
BY DEF Shaped, JoinWith, Extend

\* What an injection does: the predicates at the head go to one of three places.
InjectedAt(i, preds) ==
  /\ Head(injections) = <<i, preds>>
  /\ \/ /\ PlaceFor(i) = "where" /\ where' = where \cup preds
        /\ UNCHANGED <<on, wrap>>
     \/ /\ PlaceFor(i) = "on" /\ on' = [on EXCEPT ![i] = on[i] \cup preds]
        /\ UNCHANGED <<where, wrap>>
     \/ /\ PlaceFor(i) = "wrap" /\ wrap' = [wrap EXCEPT ![i] = wrap[i] \cup preds]
        /\ UNCHANGED <<where, on>>

LEMMA InjectEffect ==
  ASSUME TypeOK, Inject
  PROVE  /\ \E i \in References, preds \in SUBSET Conjunct : InjectedAt(i, preds)
         /\ injections \in Seq(Entries) /\ injections # << >>
         /\ injections' = Tail(injections)
<1>1. /\ injections \in Seq(Entries) /\ injections # << >>
      /\ injections' = Tail(injections)
  BY DEF Inject, TypeOK, Entries
<1>2. Head(injections) \in Entries
  BY <1>1
<1>3. PICK i \in References, preds \in SUBSET Conjunct : Head(injections) = <<i, preds>>
  BY <1>2 DEF Entries
<1>4. Head(injections)[1] = i /\ Head(injections)[2] = preds
  BY <1>3
<1>5. InjectedAt(i, preds)
  BY <1>3, <1>4 DEF Inject, InjectedAt
<1> QED BY <1>1, <1>5

LEMMA TypeStep == TypeOK /\ [Next]_vars => TypeOK'
<1> SUFFICES ASSUME TypeOK, [Next]_vars PROVE TypeOK'
  OBVIOUS
<1>1. request \in Requests /\ request' = request
  BY DEF TypeOK, Next, vars, ScanReference, EndScan, Inject, Return, Revalidate, Execute,
         JoinSource, FilterWhere
<1>2. /\ query' = query /\ References' = References /\ policy' = policy /\ params' = params
  BY <1>1 DEF query, References, policy, params
<1> USE ReferencesTyped DEF injected, execution
<1>3. CASE UNCHANGED vars
  BY <1>3, <1>2 DEF vars, TypeOK
<1>4. CASE ScanReference
  <2>1. next \in References /\ next' = next + 1 /\ next' \in 1..(Len(query.sources) + 1)
    BY <1>1, <1>4 DEF ScanReference, References
  <2>2. violations' \subseteq ViolationType
    BY <1>1, <1>4, <2>1, ReportsTyped DEF ScanReference, TypeOK
  <2>3. injections' \in Seq(Entries)
    BY <1>1, <1>4, <2>1, QueueTyped DEF ScanReference, TypeOK, Entries
  <2>4. UNCHANGED <<injected, pc, pass, execution>> /\ pc = "scan"
    BY <1>4 DEF ScanReference
  <2> QED BY <1>1, <1>2, <2>1, <2>2, <2>3, <2>4 DEF TypeOK, Entries
<1>5. CASE EndScan \/ Return
  BY <1>1, <1>2, <1>5 DEF TypeOK, EndScan, Return
<1>6. CASE Inject
  <2>1. PICK i \in References, preds \in SUBSET Conjunct : InjectedAt(i, preds)
    BY <1>6, InjectEffect
  <2>2. injections' \in Seq(Entries)
    <3>1. injections \in Seq(Entries) /\ injections # << >> /\ injections' = Tail(injections)
      BY <1>6, InjectEffect
    <3> QED BY <3>1
  <2>3. /\ where' \subseteq Conjunct
        /\ on' \in [References -> SUBSET Conjunct]
        /\ wrap' \in [References -> SUBSET Conjunct]
    <3>1. CASE where' = where \cup preds /\ UNCHANGED <<on, wrap>>
      BY <2>1, <3>1 DEF TypeOK
    <3>2. CASE on' = [on EXCEPT ![i] = on[i] \cup preds] /\ UNCHANGED <<where, wrap>>
      BY <2>1, <3>2 DEF TypeOK
    <3>3. CASE wrap' = [wrap EXCEPT ![i] = wrap[i] \cup preds] /\ UNCHANGED <<where, on>>
      BY <2>1, <3>3 DEF TypeOK
    <3> QED BY <2>1, <3>1, <3>2, <3>3 DEF InjectedAt
  <2>4. UNCHANGED <<pc, pass, next, violations, execution>> /\ pc = "inject"
    BY <1>6 DEF Inject
  <2> QED BY <1>1, <1>2, <2>2, <2>3, <2>4 DEF TypeOK, Entries
<1>7. CASE Revalidate
  BY <1>1, <1>2, <1>7 DEF TypeOK, Revalidate
<1>8. CASE Execute
  <2>1. \A x \in rel' \cup ref' : DOMAIN x = 1..1
    BY <1>8 DEF Execute
  <2>2. next' = 2 /\ next' \in 1..(Len(query.sources) + 1) /\ next' - 1 = 1
    BY <1>1, <1>8 DEF Execute
  <2> QED BY <1>1, <1>2, <1>8, <2>1, <2>2 DEF TypeOK, Execute
<1>9. CASE JoinSource
  <2>1. next \in References /\ next' = next + 1 /\ next' \in 1..(Len(query.sources) + 1)
    BY <1>1, <1>9 DEF JoinSource, References
  <2>2. Shaped(rel', next) /\ Shaped(ref', next) /\ next' - 1 = next
    BY <1>1, <1>9, <2>1, JoinShaped DEF JoinSource
  <2> QED BY <1>1, <1>2, <1>9, <2>1, <2>2 DEF TypeOK, JoinSource, Shaped
<1>10. CASE FilterWhere
  BY <1>1, <1>2, <1>10 DEF TypeOK, FilterWhere
<1> QED BY <1>3, <1>4, <1>5, <1>6, <1>7, <1>8, <1>9, <1>10 DEF Next

\* The variables stay in their types: a queued reference always has predicates,
\* the injected ones are conjuncts on sources of the statement.
THEOREM TypeCorrect == Spec => []TypeOK
<1>1. Init => TypeOK
  <2> SUFFICES ASSUME Init PROVE TypeOK
    OBVIOUS
  <2>1. request \in Requests
    BY DEF Init
  <2> QED BY <2>1, ReferencesTyped DEF Init, TypeOK
<1> QED BY <1>1, TypeStep, PTL DEF Spec

-----------------------------------------------------------------------------
(* Every rule of every reference is taken care of: the statement holds a    *)
(* predicate that filters the reference, or one is queued, or the scan      *)
(* misread the statement's own.                                             *)

Filters(c, i, r) ==
  c.source = i /\ c.column = r.column /\ Accepting(c) \subseteq params[r.param].vals

\* The conjuncts a row of reference i cannot pass by without being accepted.
Effective(i) ==
  wrap[i] \cup query.where \cup where
    \cup UNION {query.on[j] \cup on[j] : j \in {j \in References : ~Preserves(j, i)}}

Enforced(i, r) == \E c \in Effective(i) : Filters(c, i, r)

Queued(i, r) ==
  \E k \in 1..Len(injections) : /\ injections[k][1] = i
                                /\ Predicate(i, r) \in injections[k][2]

Due(i, r) == Enforced(i, r) \/ MisreadOn(i, r) \/ Queued(i, r)

\* Injected predicates are about the reference they are injected at, and only
\* LEFT joins get some in their ON.
WellPlaced ==
  /\ \A i \in References : \A c \in wrap[i] : c.source = i
  /\ \A i \in References : \A c \in on[i] : c.source = i /\ query.sources[i].join = "left"
  /\ \A k \in 1..Len(injections) : \A c \in injections[k][2] : c.source = injections[k][1]

AllDue ==
  Accepted => \A i \in References : (pc = "scan" => i < next) =>
                \A r \in Governing(i) : Due(i, r)

Staged ==
  /\ pc \in {"returned", "execute", "done"} => injections = << >>
  /\ pc \in {"execute", "done"} => Accepted

Kept == UNCHANGED <<request, where, on, wrap>>

\* Definitions that depend on the request alone.
LEMMA SameRequest ==
  ASSUME request' = request
  PROVE  /\ References' = References /\ query' = query /\ policy' = policy /\ params' = params
         /\ \A i : Governing(i)' = Governing(i)
         /\ \A i, r : MisreadOn(i, r)' = MisreadOn(i, r)
         /\ \A i, r : Predicate(i, r)' = Predicate(i, r)
         /\ \A c, i, r : Filters(c, i, r)' = Filters(c, i, r)
         /\ \A i, j : Preserves(j, i)' = Preserves(j, i)
<1>1. /\ References' = References /\ query' = query /\ policy' = policy /\ params' = params
  BY DEF References, query, policy, params
<1>2. \A i : Governing(i)' = Governing(i)
  BY <1>1 DEF Governing, Matching, TableOf
<1>3. \A i, j : Preserves(j, i)' = Preserves(j, i)
  BY <1>1 DEF Preserves
<1>4. \A S, i, r : PresentIn(S, i, r)' = PresentIn(S, i, r)
  BY <1>1 DEF PresentIn, ColumnMatches, Expected, IsLiteral
<1>5. \A i, r : MisreadOn(i, r)' = MisreadOn(i, r)
  BY <1>1, <1>3, <1>4 DEF MisreadOn
<1>6. \A i, r : Predicate(i, r)' = Predicate(i, r)
  BY <1>1 DEF Predicate
<1>7. \A c, i, r : Filters(c, i, r)' = Filters(c, i, r)
  BY <1>1 DEF Filters, Accepting
<1> QED BY <1>1, <1>2, <1>3, <1>5, <1>6, <1>7

\* Injecting takes nothing away.
LEMMA StaysEnforced ==
  ASSUME request' = request, where \subseteq where',
         \A j \in References : on[j] \subseteq on'[j] /\ wrap[j] \subseteq wrap'[j],
         NEW i \in References, NEW r, Enforced(i, r)
  PROVE  Enforced(i, r)'
<1>1. PICK c \in Effective(i) : Filters(c, i, r)
  BY DEF Enforced
<1>2. c \in Effective(i)'
  BY SameRequest DEF Effective
<1> QED BY <1>1, <1>2, SameRequest DEF Enforced

\* The scan's own predicate filters by the caller's values.
LEMMA PredicateFilters ==
  ASSUME NEW i, NEW r
  PROVE  Filters(Predicate(i, r), i, r)
<1>1. CASE params[r.param].kind = "missing"
  BY <1>1 DEF Filters, Predicate, Accepting
<1>2. CASE params[r.param].kind # "missing"
  <2>1. /\ Predicate(i, r).form # "placeholder"
        /\ Predicate(i, r).vals = params[r.param].vals
        /\ Predicate(i, r).source = i /\ Predicate(i, r).column = r.column
    BY <1>2 DEF Predicate
  <2> QED BY <2>1 DEF Filters, Accepting
<1> QED BY <1>1, <1>2

\* What the scan takes for the rule's predicate is one.
LEMMA PresentFilters ==
  ASSUME NEW S, NEW i, NEW r, PresentIn(S, i, r)
  PROVE  \E c \in S : Filters(c, i, r) /\ ColumnMatches(c, i, r)
                        /\ PresentIn({c}, i, r)
<1>1. PICK c \in S :
        /\ ColumnMatches(c, i, r)
        /\ \/ c.form = "placeholder" /\ c.param = r.param
           \/ Expected(r) /\ IsLiteral(c) /\ c.vals = params[r.param].vals
  BY DEF PresentIn
<1>2. Accepting(c) = params[r.param].vals
  BY <1>1 DEF Accepting, IsLiteral
<1>3. PresentIn({c}, i, r)
  BY <1>1 DEF PresentIn
<1> QED BY <1>1, <1>2, <1>3 DEF Filters, ColumnMatches

LEMMA PresentMonotone ==
  ASSUME NEW S, NEW T, S \subseteq T, NEW i, NEW r, PresentIn(S, i, r)
  PROVE  PresentIn(T, i, r)
BY DEF PresentIn

\* What is already present is enforced, or misread.
LEMMA PresentIsDue ==
  ASSUME TypeOK, WellPlaced, NEW i \in References, NEW r, AlreadyPresent(i, r)
  PROVE  Enforced(i, r) \/ MisreadOn(i, r)
<1>1. PICK c \in Pool(i) : Filters(c, i, r) /\ PresentIn({c}, i, r)
  BY PresentFilters DEF AlreadyPresent
<1>2. CASE c \in wrap[i] \cup query.where \cup where
  BY <1>1, <1>2 DEF Enforced, Effective
<1>3. CASE \E j \in References : c \in on[j]
  <2>1. PICK j \in References : c \in on[j]
    BY <1>3
  <2>2. j = i /\ query.sources[j].join = "left" /\ i \in Nat
    BY <1>1, <2>1, ReferencesTyped DEF WellPlaced, Filters, TypeOK
  <2>3. ~Preserves(j, i)
    BY <2>2 DEF Preserves
  <2>4. c \in Effective(i)
    BY <2>1, <2>3 DEF Effective
  <2> QED BY <1>1, <2>4 DEF Enforced
<1>4. CASE \E j \in References : c \in query.on[j]
  <2>1. PICK j \in References : c \in query.on[j]
    BY <1>4
  <2> DEFINE written(J) == query.where \cup UNION {query.on[k] : k \in J}
             unpreserved == {k \in References : ~Preserves(k, i)}
  <2>2. c \in written(References)
    BY <2>1
  <2>3. PresentIn(written(References), i, r)
    <3>1. {c} \subseteq written(References)
      BY <2>2
    <3> HIDE DEF written
    <3> QED BY <1>1, <3>1, PresentMonotone
  <2>4. CASE PresentIn(written(unpreserved), i, r)
    <3>1. PICK d \in written(unpreserved) : Filters(d, i, r)
      <4> HIDE DEF written
      <4> QED BY <2>4, PresentFilters
    <3>2. d \in Effective(i)
      BY <3>1 DEF Effective
    <3> QED BY <3>1, <3>2 DEF Enforced
  <2>5. CASE ~PresentIn(written(unpreserved), i, r)
    BY <2>3, <2>5 DEF MisreadOn
  <2> QED BY <2>4, <2>5
<1> QED BY <1>1, <1>2, <1>3, <1>4 DEF Pool

Placed == WellPlaced /\ AllDue /\ Staged

\* Steps that touch neither the places nor the queue.
LEMMA QuietStep ==
  ASSUME Kept, UNCHANGED injections
  PROVE  /\ WellPlaced => WellPlaced'
         /\ \A i \in References : \A r : Due(i, r) => Due(i, r)'
<1>1. WellPlaced => WellPlaced'
  BY SameRequest DEF Kept, WellPlaced
<1>2. \A i \in References : \A r : Queued(i, r) => Queued(i, r)'
  BY SameRequest DEF Kept, Queued
<1>3. \A i \in References : \A r : Enforced(i, r) => Enforced(i, r)'
  BY StaysEnforced DEF Kept
<1>4. \A i \in References : \A r : MisreadOn(i, r) => MisreadOn(i, r)'
  BY SameRequest DEF Kept
<1> QED BY <1>1, <1>2, <1>3, <1>4 DEF Due

\* An accepted scan of a reference finds, or queues, every governing rule's
\* predicate.
LEMMA ScanDue ==
  ASSUME TypeOK, WellPlaced, ScanReference, Accepted',
         NEW r \in Governing(next)
  PROVE  \/ Enforced(next, r)
         \/ MisreadOn(next, r)
         \/ /\ r \in Unfiltered(next)
            /\ injections' = Append(injections, <<next, {Predicate(next, q) : q \in Unfiltered(next)}>>)
<1>1. next \in References /\ request \in Requests
  BY DEF ScanReference, TypeOK
<1>2. r \in policy.rules /\ params[r.param] \in ParamValue
  BY <1>1, RequestTyped DEF Governing, Matching, PolicyType, Rule
<1>3. \A v \in ScanReports(next) : ~v.is_error
  BY DEF Accepted, ScanReference
<1>4. params[r.param].kind # "unusable"
  <2> SUFFICES ASSUME params[r.param].kind = "unusable" PROVE FALSE
    OBVIOUS
  <2>1. [code |-> "RLS_CONFIG_ERROR", column |-> r.column, is_error |-> TRUE]
          \in ScanReports(next)
    BY DEF ScanReports, Reported
  <2> QED BY <1>3, <2>1
<1>5. ~(params[r.param].kind = "missing" /\ ~policy.parameterize)
  <2> SUFFICES ASSUME params[r.param].kind = "missing" /\ ~policy.parameterize PROVE FALSE
    OBVIOUS
  <2>1. [code |-> "RLS_PARAM_MISSING", column |-> r.column, is_error |-> TRUE]
          \in ScanReports(next)
    BY DEF ScanReports, Reported
  <2> QED BY <1>3, <2>1
<1>6. r \in Applicable(next)
  BY <1>2, <1>4, <1>5 DEF Applicable, ParamValue
<1>7. CASE AlreadyPresent(next, r)
  BY <1>1, <1>7, PresentIsDue
<1>8. CASE ~AlreadyPresent(next, r)
  <2>1. r \in Unfiltered(next)
    BY <1>6, <1>8 DEF Unfiltered
  <2>2. policy.strategy # "require"
    <3> SUFFICES ASSUME policy.strategy = "require" PROVE FALSE
      OBVIOUS
    <3>1. [code |-> "MISSING_TENANT_FILTER", column |-> r.column, is_error |-> TRUE]
            \in ScanReports(next)
      BY <2>1 DEF ScanReports, Reported
    <3> QED BY <1>3, <3>1
  <2> DEFINE preds == {Predicate(next, q) : q \in Unfiltered(next)}
  <2>3. preds # {}
    BY <2>1
  <2>4. injections' = Queue(next, preds)
    BY <2>2 DEF ScanReference
  <2>5. injections' = Append(injections, <<next, preds>>)
    <3> HIDE DEF preds
    <3> QED BY <2>3, <2>4 DEF Queue
  <2> QED BY <2>1, <2>5
<1> QED BY <1>7, <1>8

\* The queue after one more entry.
LEMMA AppendQueue ==
  ASSUME NEW S, NEW q \in Seq(S), NEW e
  PROVE  /\ Len(Append(q, e)) = Len(q) + 1 /\ Len(q) \in Nat
         /\ \A k \in 1..Len(q) : Append(q, e)[k] = q[k]
         /\ Append(q, e)[Len(q) + 1] = e
OBVIOUS

LEMMA TailQueue ==
  ASSUME NEW S, NEW q \in Seq(S), q # << >>
  PROVE  /\ Len(Tail(q)) = Len(q) - 1 /\ Len(q) \in Nat \ {0}
         /\ \A k \in 1..Len(Tail(q)) : Tail(q)[k] = q[k + 1]
         /\ Head(q) = q[1]
OBVIOUS

LEMMA ScanStep ==
  ASSUME TypeOK, Placed, ScanReference
  PROVE  Placed'
<1> DEFINE preds == {Predicate(next, q) : q \in Unfiltered(next)}
<1>1. /\ next \in References /\ next \in Nat /\ next' = next + 1 /\ pc = "scan" /\ pc' = "scan"
      /\ Kept /\ request' = request /\ injections \in Seq(Entries) /\ request \in Requests
      /\ UNCHANGED injected
  BY ReferencesTyped DEF ScanReference, injected, Kept, TypeOK, Entries
<1>2. Accepted' => Accepted
  BY DEF ScanReference, Accepted
<1>3. \/ injections' = injections
      \/ injections' = Append(injections, <<next, preds>>)
  BY DEF ScanReference, Queue
<1>4. \A i \in References : \A r : Queued(i, r) => Queued(i, r)'
  <2>1. CASE injections' = injections
    BY <1>1, <2>1, SameRequest DEF Queued
  <2>2. CASE injections' = Append(injections, <<next, preds>>)
    <3> TAKE i \in References
    <3> TAKE r
    <3> HAVE Queued(i, r)
    <3>1. PICK k \in 1..Len(injections) : /\ injections[k][1] = i
                                          /\ Predicate(i, r) \in injections[k][2]
      BY DEF Queued
    <3>2. k \in 1..Len(injections') /\ injections'[k] = injections[k]
      BY <1>1, <2>2, <3>1, AppendQueue
    <3>3. Predicate(i, r)' = Predicate(i, r)
      BY <1>1, SameRequest
    <3> QED BY <3>1, <3>2, <3>3 DEF Queued
  <2> QED BY <1>3, <2>1, <2>2
<1>5. \A i \in References : \A r : Due(i, r) => Due(i, r)'
  <2>1. \A i \in References : \A r : Enforced(i, r) => Enforced(i, r)'
    BY <1>1, StaysEnforced DEF Kept
  <2>2. \A i \in References : \A r : MisreadOn(i, r) => MisreadOn(i, r)'
    BY <1>1, SameRequest
  <2> QED BY <1>4, <2>1, <2>2 DEF Due
<1>6. WellPlaced'
  <2>1. \A c \in preds : c.source = next
    BY <1>1, PredicateTyped DEF Unfiltered, Applicable, Governing, Matching
  <2>2. \A k \in 1..Len(injections') : \A c \in injections'[k][2] : c.source = injections'[k][1]
    <3>1. CASE injections' = injections
      BY <3>1 DEF Placed, WellPlaced
    <3>2. CASE injections' = Append(injections, <<next, preds>>)
      <4> TAKE k \in 1..Len(injections')
      <4>1. CASE k \in 1..Len(injections)
        BY <1>1, <3>2, <4>1, AppendQueue DEF Placed, WellPlaced
      <4>2. CASE k = Len(injections) + 1
        <5>1. injections'[k] = <<next, preds>>
          BY <1>1, <3>2, <4>2, AppendQueue
        <5> HIDE DEF preds
        <5> QED BY <2>1, <5>1
      <4> QED BY <1>1, <3>2, <4>1, <4>2, AppendQueue
    <3> QED BY <1>3, <3>1, <3>2
  <2> QED BY <1>1, <2>2, SameRequest DEF Placed, WellPlaced, injected
<1>7. AllDue'
  <2> SUFFICES ASSUME Accepted', NEW i \in References, i < next + 1, NEW r \in Governing(i)
               PROVE  Due(i, r)'
    BY <1>1, SameRequest DEF AllDue
  <2>1. i \in Nat
    BY <1>1, ReferencesTyped
  <2>2. CASE i < next
    BY <1>1, <1>2, <1>5, <2>2 DEF Placed, AllDue
  <2>3. CASE i = next
    <3>1. CASE Enforced(next, r) \/ MisreadOn(next, r)
      BY <1>1, <1>5, <2>3, <3>1 DEF Due
    <3>2. CASE injections' = Append(injections, <<next, preds>>) /\ r \in Unfiltered(next)
      <4>1. /\ Len(injections) + 1 \in 1..Len(injections')
            /\ injections'[Len(injections) + 1] = <<next, preds>>
        BY <1>1, <3>2, AppendQueue
      <4>2. Predicate(next, r) \in preds
        BY <3>2
      <4>3. Predicate(i, r)' = Predicate(next, r)
        BY <1>1, <2>3, SameRequest
      <4> HIDE DEF preds
      <4> QED BY <2>3, <4>1, <4>2, <4>3 DEF Due, Queued
    <3> QED BY <2>3, <3>1, <3>2, ScanDue DEF Placed
  <2> QED BY <1>1, <2>1, <2>2, <2>3
<1>8. Staged'
  BY <1>1 DEF Staged
<1> QED BY <1>6, <1>7, <1>8 DEF Placed

\* The predicates leave the queue and are enforced where they go: in the WHERE,
\* in the subquery, or in the ON of the LEFT join that brings the reference in.
LEMMA InjectStep ==
  ASSUME TypeOK, Placed, Inject
  PROVE  Placed'
<1>1. PICK i \in References, preds \in SUBSET Conjunct : InjectedAt(i, preds)
  BY InjectEffect
<1>2. /\ injections \in Seq(Entries) /\ injections # << >> /\ injections' = Tail(injections)
      /\ request' = request /\ request \in Requests /\ pc = "inject" /\ pc' = "inject"
      /\ violations' = violations
  BY InjectEffect DEF Inject, TypeOK
<1>3. /\ Len(injections') = Len(injections) - 1 /\ Len(injections) \in Nat \ {0}
      /\ \A k \in 1..Len(injections') : injections'[k] = injections[k + 1]
      /\ injections[1] = <<i, preds>>
  BY <1>1, <1>2, TailQueue DEF InjectedAt
<1>4. \A c \in preds : c.source = i
  BY <1>3 DEF Placed, WellPlaced
<1>5. /\ where \subseteq where'
      /\ \A j \in References : on[j] \subseteq on'[j] /\ wrap[j] \subseteq wrap'[j]
  <2>1. CASE where' = where \cup preds /\ UNCHANGED <<on, wrap>>
    BY <2>1
  <2>2. CASE on' = [on EXCEPT ![i] = on[i] \cup preds] /\ UNCHANGED <<where, wrap>>
    BY <2>2 DEF TypeOK
  <2>3. CASE wrap' = [wrap EXCEPT ![i] = wrap[i] \cup preds] /\ UNCHANGED <<where, on>>
    BY <2>3 DEF TypeOK
  <2> QED BY <1>1, <2>1, <2>2, <2>3 DEF InjectedAt
<1>6. PlaceFor(i) = "on" => query.sources[i].join = "left"
  BY DEF PlaceFor, Placement
<1>7. preds \subseteq Effective(i)'
  <2>1. CASE where' = where \cup preds /\ UNCHANGED <<on, wrap>>
    BY <2>1 DEF Effective
  <2>2. CASE on' = [on EXCEPT ![i] = on[i] \cup preds] /\ PlaceFor(i) = "on"
    <3>1. i \in Nat /\ ~Preserves(i, i)
      BY <1>2, <1>6, <2>2, ReferencesTyped DEF Preserves
    <3>2. preds \subseteq on'[i]
      BY <2>2 DEF TypeOK
    <3> QED BY <1>2, <3>1, <3>2, SameRequest DEF Effective
  <2>3. CASE wrap' = [wrap EXCEPT ![i] = wrap[i] \cup preds]
    <3>1. preds \subseteq wrap'[i]
      BY <2>3 DEF TypeOK
    <3> QED BY <3>1 DEF Effective
  <2> QED BY <1>1, <2>1, <2>2, <2>3 DEF InjectedAt
<1>8. WellPlaced'
  <2>1. \A j \in References : \A c \in wrap'[j] : c.source = j
    <3>1. CASE wrap' = wrap
      BY <3>1 DEF Placed, WellPlaced
    <3>2. CASE wrap' = [wrap EXCEPT ![i] = wrap[i] \cup preds]
      BY <1>4, <3>2 DEF Placed, WellPlaced, TypeOK
    <3> QED BY <1>1, <3>1, <3>2 DEF InjectedAt
  <2>2. \A j \in References : \A c \in on'[j] : c.source = j /\ query.sources[j].join = "left"
    <3>1. CASE on' = on
      BY <3>1 DEF Placed, WellPlaced
    <3>2. CASE on' = [on EXCEPT ![i] = on[i] \cup preds] /\ PlaceFor(i) = "on"
      BY <1>4, <1>6, <3>2 DEF Placed, WellPlaced, TypeOK
    <3> QED BY <1>1, <3>1, <3>2 DEF InjectedAt
  <2>3. \A k \in 1..Len(injections') : \A c \in injections'[k][2] : c.source = injections'[k][1]
    <3> TAKE k \in 1..Len(injections')
    <3>1. k + 1 \in 1..Len(injections) /\ injections'[k] = injections[k + 1]
      BY <1>3
    <3> QED BY <3>1 DEF Placed, WellPlaced
  <2> QED BY <1>2, <2>1, <2>2, <2>3, SameRequest DEF WellPlaced
<1>9. ASSUME NEW j \in References, NEW r, Due(j, r)
      PROVE  Due(j, r)'
  <2>1. CASE Enforced(j, r)
    BY <1>2, <1>5, <2>1, StaysEnforced DEF Due
  <2>2. CASE MisreadOn(j, r)
    BY <1>2, <2>2, SameRequest DEF Due
  <2>3. CASE Queued(j, r)
    <3>1. PICK k \in 1..Len(injections) : /\ injections[k][1] = j
                                          /\ Predicate(j, r) \in injections[k][2]
      BY <2>3 DEF Queued
    <3>2. CASE k = 1
      <4>1. j = i /\ Predicate(j, r) \in preds
        BY <1>3, <3>1, <3>2
      <4>2. Filters(Predicate(j, r), j, r)'
        BY <1>2, PredicateFilters, SameRequest
      <4>3. Predicate(j, r)' = Predicate(j, r)
        BY <1>2, SameRequest
      <4>4. \E c \in Effective(j)' : Filters(c, j, r)'
        <5>1. Predicate(j, r) \in Effective(j)'
          BY <1>7, <4>1
        <5>2. Filters(Predicate(j, r), j, r)
          BY PredicateFilters
        <5> QED BY <1>2, <5>1, <5>2, SameRequest
      <4> QED BY <4>4 DEF Due, Enforced
    <3>3. CASE k # 1
      <4>1. k - 1 \in 1..Len(injections') /\ injections'[k - 1] = injections[k]
        BY <1>3, <3>1, <3>3
      <4>2. Predicate(j, r)' = Predicate(j, r)
        BY <1>2, SameRequest
      <4> QED BY <3>1, <4>1, <4>2 DEF Due, Queued
    <3> QED BY <3>2, <3>3
  <2> QED BY <1>9, <2>1, <2>2, <2>3 DEF Due
<1>10. AllDue'
  BY <1>2, <1>9, SameRequest DEF Placed, AllDue, Accepted
<1>11. Staged'
  BY <1>2 DEF Staged
<1> QED BY <1>8, <1>10, <1>11 DEF Placed

LEMMA PlacedStep ==
  ASSUME TypeOK, Placed, [Next]_vars
  PROVE  Placed'
<1> USE DEF injected, execution, Kept
<1>1. CASE ScanReference
  BY <1>1, ScanStep
<1>2. CASE Inject
  BY <1>2, InjectStep
<1>3. ASSUME Kept, UNCHANGED <<injections, violations, next, pc>> PROVE Placed'
  <2>1. Accepted' = Accepted
    BY <1>3 DEF Accepted
  <2> QED BY <1>3, <2>1, QuietStep, SameRequest DEF Placed, AllDue, Staged
<1>4. CASE EndScan
  <2>1. /\ Kept /\ UNCHANGED <<injections, violations, next>> /\ pc = "scan" /\ pc' = "inject"
        /\ next \notin References
    BY <1>4 DEF EndScan
  <2>2. \A i \in References : i < next
    BY <2>1, ReferencesTyped DEF TypeOK, References
  <2>3. Accepted' = Accepted
    BY <2>1 DEF Accepted
  <2> QED BY <2>1, <2>2, <2>3, QuietStep, SameRequest DEF Placed, AllDue, Staged
<1>5. CASE Return
  <2>1. /\ Kept /\ UNCHANGED <<injections, violations, next>> /\ pc = "inject" /\ pc' = "returned"
        /\ injections = << >>
    BY <1>5 DEF Return
  <2>2. Accepted' = Accepted
    BY <2>1 DEF Accepted
  <2> QED BY <2>1, <2>2, QuietStep, SameRequest DEF Placed, AllDue, Staged
<1>6. CASE Revalidate
  <2>1. /\ Kept /\ UNCHANGED injections /\ pc = "returned" /\ pc' = "scan" /\ next' = 1
        /\ Accepted
    BY <1>6 DEF Revalidate
  <2> QED BY <2>1, QuietStep, SameRequest DEF Placed, AllDue, Staged
<1>7. CASE Execute \/ JoinSource \/ FilterWhere
  <2>1. /\ Kept /\ UNCHANGED <<injections, violations>> /\ pc \in {"returned", "execute"}
        /\ pc' \in {"execute", "done"} /\ (pc = "returned" => Accepted)
    BY <1>7 DEF Execute, JoinSource, FilterWhere
  <2>2. Accepted' = Accepted
    BY <2>1 DEF Accepted
  <2> QED BY <2>1, <2>2, QuietStep, SameRequest DEF Placed, AllDue, Staged
<1> QED BY <1>1, <1>2, <1>3, <1>4, <1>5, <1>6, <1>7 DEF Next, vars

\* The scan and the injection leave no rule of an accepted statement aside.
LEMMA PlacedAlways == Spec => []Placed
<1>1. Init => Placed
  <2> SUFFICES ASSUME Init PROVE Placed
    OBVIOUS
  <2>1. References \subseteq Nat
    BY ReferencesTyped DEF Init
  <2> QED BY <2>1 DEF Init, Placed, WellPlaced, AllDue, Staged, References
<1> QED BY <1>1, PlacedStep, TypeCorrect, PTL DEF Spec

-----------------------------------------------------------------------------
(* The run of the statement.                                                *)

Meets(row, c) == row[c.column] \in Accepting(c)

\* Once joins 1..n-1 are done, the row x has of reference i is a null row, or
\* one that meets the conjuncts of its subquery and of every ON that can
\* reject it.
Passed(x, i, n) ==
  \/ x[i] = NullRow
  \/ /\ \A c \in wrap[i] : Meets(x[i], c)
     /\ \A j \in References : j < n /\ ~Preserves(j, i) =>
          \A c \in query.on[j] \cup on[j] : c.source = i => Meets(x[i], c)

Running ==
  pc = "execute" =>
    /\ next >= 2
    /\ \A n : n = next => \A x \in rel : \A i \in References : i < n => Passed(x, i, n)

Finished ==
  pc = "done" =>
    \A x \in rel : \A i \in References :
      x[i] = NullRow \/ \A c \in Effective(i) : c.source = i => Meets(x[i], c)

\* Where a row of a join comes from.
LEMMA JoinedRow ==
  ASSUME request \in Requests, NEW k \in References, k # 1,
         NEW L, NEW R, NEW cs, NEW y \in JoinWith(k, L, R, cs)
  PROVE  \E l, r :
           /\ y = Extend(l, r, k)
           /\ \/ l \in L /\ r \in R /\ \A c \in cs : Holds(c, y)
              \/ l \in L /\ r = NullRow /\ query.sources[k].join \in {"left", "full"}
              \/ r \in R /\ l = [j \in 1..(k - 1) |-> NullRow]
                 /\ query.sources[k].join \in {"right", "full"}
<1> DEFINE join == query.sources[k].join
           ok == Accepts(k, L, R, cs)
           nulls == [j \in 1..(k - 1) |-> NullRow]
<1>1. join \in {"inner", "left", "right", "full"}
  BY RequestTyped, ReferencesTyped DEF Source
<1>2. PICK p \in Join(join, L, R, ok, nulls, NullRow) : y = Extend(p[1], p[2], k)
  BY DEF JoinWith
<1>3. \/ p \in InnerJoin(L, R, ok)
      \/ p \in LoneLeft(L, R, ok) \X {NullRow} /\ join \in {"left", "full"}
      \/ p \in {nulls} \X LoneRight(L, R, ok) /\ join \in {"right", "full"}
  <2> HIDE DEF ok, nulls, join
  <2> QED BY <1>1, <1>2 DEF Join, FullJoin, LeftJoin, RightJoin
<1>4. CASE p \in InnerJoin(L, R, ok)
  <2>1. p[1] \in L /\ p[2] \in R /\ p \in ok
    BY <1>4 DEF InnerJoin
  <2>2. \A c \in cs : Holds(c, y)
    BY <1>2, <2>1 DEF Accepts
  <2> QED BY <1>2, <2>1, <2>2
<1>5. CASE p \in LoneLeft(L, R, ok) \X {NullRow} /\ join \in {"left", "full"}
  <2>1. p[1] \in L /\ p[2] = NullRow
    BY <1>5 DEF LoneLeft
  <2> QED BY <1>2, <1>5, <2>1
<1>6. CASE p \in {nulls} \X LoneRight(L, R, ok) /\ join \in {"right", "full"}
  <2>1. p[1] = nulls /\ p[2] \in R
    <3> HIDE DEF nulls
    <3> QED BY <1>6 DEF LoneRight
  <2> QED BY <1>2, <1>6, <2>1
<1> QED BY <1>3, <1>4, <1>5, <1>6

\* One join more.
LEMMA JoinPasses ==
  ASSUME TypeOK, WellPlaced, NEW k \in References, k # 1,
         NEW L, NEW R,
         \A x \in L : \A i \in References : i < k => Passed(x, i, k),
         \A row \in R : \A c \in wrap[k] : Meets(row, c),
         NEW y \in JoinWith(k, L, R, query.on[k] \cup on[k]),
         NEW i \in References, i < k + 1
  PROVE  Passed(y, i, k + 1)
<1>1. request \in Requests /\ i \in Nat /\ k \in Nat /\ i \in 1..k /\ References \subseteq Nat
  BY ReferencesTyped DEF TypeOK, References
<1>2. PICK l, r :
        /\ y = Extend(l, r, k)
        /\ \/ l \in L /\ r \in R /\ \A c \in query.on[k] \cup on[k] : Holds(c, y)
           \/ l \in L /\ r = NullRow /\ query.sources[k].join \in {"left", "full"}
           \/ r \in R /\ l = [j \in 1..(k - 1) |-> NullRow]
              /\ query.sources[k].join \in {"right", "full"}
  BY <1>1, JoinedRow
<1>3. y[i] = IF i = k THEN r ELSE l[i]
  BY <1>1, <1>2 DEF Extend
<1>4. CASE i = k
  <2>1. \A j \in References : j < k => \A c \in query.on[j] \cup on[j] : c.source # k
    BY <1>1, RequestTyped DEF WellPlaced
  <2>2. CASE r = NullRow
    BY <1>3, <1>4, <2>2 DEF Passed
  <2>3. CASE r \in R /\ \A c \in query.on[k] \cup on[k] : Holds(c, y)
    <3>1. \A c \in query.on[k] \cup on[k] : c.source = k => Meets(y[k], c)
      BY <2>3 DEF Holds, Meets
    <3>2. \A c \in wrap[k] : Meets(y[k], c)
      BY <1>3, <1>4, <2>3
    <3>3. \A j \in References : j < k + 1 => j < k \/ j = k
      BY <1>1
    <3> QED BY <1>4, <2>1, <3>1, <3>2, <3>3 DEF Passed
  <2>4. CASE r \in R /\ query.sources[k].join \in {"right", "full"}
    <3>1. Preserves(k, k)
      BY <2>4 DEF Preserves
    <3>2. \A c \in wrap[k] : Meets(y[k], c)
      BY <1>3, <1>4, <2>4
    <3>3. \A j \in References : j < k + 1 => j < k \/ j = k
      BY <1>1
    <3> QED BY <1>4, <2>1, <3>1, <3>2, <3>3 DEF Passed
  <2> QED BY <1>2, <2>2, <2>3, <2>4
<1>5. CASE i # k
  <2>1. i < k /\ y[i] = l[i] /\ i \in 1..(k - 1)
    BY <1>1, <1>3, <1>5
  <2>2. CASE l = [j \in 1..(k - 1) |-> NullRow]
    BY <2>1, <2>2 DEF Passed
  <2>3. CASE l \in L /\ (\/ \A c \in query.on[k] \cup on[k] : Holds(c, y)
                         \/ query.sources[k].join \in {"left", "full"})
    <3>1. Passed(l, i, k)
      BY <2>1, <2>3
    <3>2. CASE l[i] = NullRow
      BY <2>1, <3>2 DEF Passed
    <3>3. CASE l[i] # NullRow
      <4>1. /\ \A c \in wrap[i] : Meets(y[i], c)
            /\ \A j \in References : j < k /\ ~Preserves(j, i) =>
                 \A c \in query.on[j] \cup on[j] : c.source = i => Meets(y[i], c)
        BY <2>1, <3>1, <3>3 DEF Passed
      <4>2. ~Preserves(k, i) => \A c \in query.on[k] \cup on[k] : c.source = i => Meets(y[i], c)
        BY <2>1, <2>3 DEF Preserves, Holds, Meets
      <4>3. \A j \in References : j < k + 1 => j < k \/ j = k
        BY <1>1
      <4> QED BY <4>1, <4>2, <4>3 DEF Passed
    <3> QED BY <3>2, <3>3
  <2> QED BY <1>2, <2>2, <2>3
<1> QED BY <1>4, <1>5

LEMMA RunStep ==
  ASSUME TypeOK, Placed, Running, Finished, [Next]_vars
  PROVE  Running' /\ Finished'
<1>1. request \in Requests /\ References \subseteq Nat /\ WellPlaced
  BY ReferencesTyped DEF TypeOK, Placed
<1>2. ASSUME Kept
      PROVE  /\ References' = References
             /\ \A x, i, n : Passed(x, i, n)' = Passed(x, i, n)
             /\ \A i : Effective(i)' = Effective(i)
             /\ \A row, c : Meets(row, c)' = Meets(row, c)
  <2>1. query' = query /\ params' = params /\ References' = References
        /\ \A i, j : Preserves(j, i)' = Preserves(j, i)
    BY <1>2, SameRequest DEF Kept
  <2>2. \A row, c : Meets(row, c)' = Meets(row, c)
    BY <2>1 DEF Meets, Accepting
  <2>3. \A x, i, n : Passed(x, i, n)' = Passed(x, i, n)
    BY <1>2, <2>1, <2>2 DEF Passed, Kept
  <2>4. \A i : Effective(i)' = Effective(i)
    BY <1>2, <2>1 DEF Effective, Kept
  <2> QED BY <2>1, <2>2, <2>3, <2>4
<1>3. CASE pc' \notin {"execute", "done"}
  BY <1>3 DEF Running, Finished
<1>4. CASE UNCHANGED vars
  BY <1>2, <1>4 DEF vars, Kept, Running, Finished
<1>5. CASE Execute
  <2>1. /\ Kept /\ pc' = "execute" /\ next' = 2
        /\ \E rows : rel' = {[j \in {1} |-> row] : row \in WrappedRows(1, rows)}
    BY <1>5 DEF Execute, Kept, injected
  <2>2. PICK rows : rel' = {[j \in {1} |-> row] : row \in WrappedRows(1, rows)}
    BY <2>1
  <2>3. ASSUME NEW x \in rel', NEW i \in References, i < 2
        PROVE  Passed(x, i, 2)
    <3>1. i = 1
      BY <1>1, <2>3 DEF References
    <3>2. PICK row \in WrappedRows(1, rows) : x = [j \in {1} |-> row]
      BY <2>2, <2>3
    <3>3. \A c \in wrap[1] : Meets(x[1], c)
      BY <3>2 DEF WrappedRows, Meets
    <3>4. query.on[1] = {} /\ on[1] = {}
      BY <1>1, <3>1, <2>3, RequestTyped DEF WellPlaced
    <3>5. \A j \in References : j < 2 => j = 1
      BY <1>1 DEF References
    <3> QED BY <3>1, <3>3, <3>4, <3>5 DEF Passed
  <2> QED BY <1>2, <2>1, <2>3 DEF Running, Finished
<1>6. CASE JoinSource
  <2> DEFINE rows == WrappedRows(next, db[TableOf(next)])
  <2>1. /\ Kept /\ pc = "execute" /\ pc' = "execute" /\ next' = next + 1 /\ next \in References
        /\ rel' = JoinWith(next, rel, rows, query.on[next] \cup on[next])
    BY <1>6 DEF JoinSource, Kept, injected
  <2>2. next \in Nat /\ next # 1 /\ next + 1 >= 2
    BY <1>1, <2>1 DEF Running
  <2>3. \A row \in rows : \A c \in wrap[next] : Meets(row, c)
    BY DEF WrappedRows, Meets
  <2>4. \A x \in rel : \A i \in References : i < next => Passed(x, i, next)
    BY <2>1 DEF Running
  <2>5. ASSUME NEW y \in rel', NEW i \in References, i < next + 1
        PROVE  Passed(y, i, next + 1)
    <3> HIDE DEF rows
    <3> QED BY <1>1, <2>1, <2>2, <2>3, <2>4, <2>5, JoinPasses
  <2>6. Finished'
    BY <2>1 DEF Finished
  <2>7. \A y \in rel' : \A i \in References : i < next + 1 => Passed(y, i, next + 1)
    BY <2>5
  <2>8. Running'
    <3>1. \A n : n = next' =>
            \A y \in rel' : \A i \in References' : i < n => Passed(y, i, n)
      <4> HIDE DEF rows
      <4> QED BY <1>2, <2>1, <2>7
    <3>2. \A n : n = next' =>
            \A y \in rel' : \A i \in References' : i < n => Passed(y, i, n)'
      <4> HIDE DEF rows
      <4> QED BY <1>2, <2>1, <3>1
    <3>3. next' >= 2
      BY <2>1, <2>2
    <3> QED BY <3>2, <3>3 DEF Running
  <2> QED BY <2>6, <2>8
<1>7. CASE FilterWhere
  <2>1. /\ Kept /\ pc = "execute" /\ pc' = "done" /\ next \notin References
        /\ rel' = {x \in rel : \A c \in query.where \cup where : Holds(c, x)}
    BY <1>7 DEF FilterWhere, Kept, injected
  <2>2. \A i \in References : i < next
    BY <1>1, <2>1, ReferencesTyped DEF TypeOK, References
  <2>3. ASSUME NEW x \in rel', NEW i \in References, x[i] # NullRow,
               NEW c \in Effective(i), c.source = i
        PROVE  Meets(x[i], c)
    <3>1. x \in rel /\ Passed(x, i, next)
      BY <2>1, <2>2, <2>3 DEF Running
    <3>2. CASE c \in query.where \cup where
      BY <2>1, <2>3, <3>2 DEF Holds, Meets
    <3>3. CASE c \in wrap[i]
      BY <2>3, <3>1, <3>3 DEF Passed
    <3>4. CASE \E j \in References : ~Preserves(j, i) /\ c \in query.on[j] \cup on[j]
      BY <2>2, <2>3, <3>1, <3>4 DEF Passed
    <3> QED BY <2>3, <3>2, <3>3, <3>4 DEF Effective
  <2> QED BY <1>2, <2>1, <2>3 DEF Running, Finished
<1>8. CASE ScanReference \/ EndScan \/ Inject \/ Return \/ Revalidate
  BY <1>3, <1>8, InjectEffect DEF ScanReference, EndScan, Inject, Return, Revalidate
<1> QED BY <1>4, <1>5, <1>6, <1>7, <1>8 DEF Next

\* An accepted statement returns no row of a governed reference that one of its
\* rules forbids, unless the scan misread a conjunct of the statement itself:
\* for every statement, every policy and every database.
THEOREM FilteredAlways == Spec => []FilteredUnlessMisread
<1>1. Init => Running /\ Finished
  BY DEF Init, Running, Finished
<1>2. TypeOK /\ Placed /\ Finished => FilteredUnlessMisread
  <2> SUFFICES ASSUME TypeOK, Placed, Finished, pc = "done",
                      NEW i \in References, \A r \in Governing(i) : ~MisreadOn(i, r),
                      NEW x \in rel
               PROVE  ShowsAllowed(x, i)
    BY DEF FilteredUnlessMisread
  <2>1. injections = << >> /\ Accepted
    BY DEF Placed, Staged
  <2>2. \A r \in Governing(i) : Enforced(i, r)
    <3>1. \A r \in Governing(i) : Due(i, r)
      BY <2>1 DEF Placed, AllDue
    <3>2. \A r : ~Queued(i, r)
      BY <2>1 DEF Queued
    <3> QED BY <3>1, <3>2 DEF Due
  <2>3. CASE x[i] = NullRow
    BY <2>3 DEF ShowsAllowed
  <2>4. CASE x[i] # NullRow
    <3>1. ASSUME NEW r \in Governing(i)
          PROVE  x[i][r.column] \in params[r.param].vals
      <4>1. PICK c \in Effective(i) : Filters(c, i, r)
        BY <2>2 DEF Enforced
      <4>2. Meets(x[i], c)
        BY <2>4, <4>1 DEF Finished, Filters
      <4> QED BY <4>1, <4>2 DEF Filters, Meets
    <3> QED BY <3>1 DEF ShowsAllowed, AllowedRow
  <2> QED BY <2>3, <2>4
<1> QED BY <1>1, <1>2, RunStep, TypeCorrect, PlacedAlways, PTL DEF Spec
=============================================================================
