-------------------------- MODULE FilteringProofs --------------------------
(* What row-level security promises of a whole statement, with any number   *)
(* of sources, joins and conjuncts: validating a returned statement again   *)
(* adds nothing, and it returns what the written one would on tables that   *)
(* hold only the allowed rows.                                              *)
EXTENDS RowSecurityProofs

\* The statements SecondPassAddsNothing is about.
OneRuleEach ==
  \A i \in References : \A r, s \in Matching(i) : r = s /\ params[r.param].kind # "list"

\* The predicates the scan may queue for a reference.
Own(i) == {Predicate(i, r) : r \in Applicable(i)}

\* Every injected or queued predicate is one of its reference's own.
Made ==
  /\ \A c \in where : \E j \in References : c \in Own(j)
  /\ \A i \in References : on[i] \subseteq Own(i) /\ wrap[i] \subseteq Own(i)
  /\ \A k \in 1..Len(injections) : injections[k][2] \subseteq Own(injections[k][1])

Clashes(S, i, r) ==
  \E c \in S : /\ ColumnMatches(c, i, r)
               /\ c.form = "cast" \/ (IsLiteral(c) /\ c.vals # params[r.param].vals)

\* With the conjuncts S in the pool, no error is reported of a rule that matches.
Passes(S, i, r) ==
  /\ r \in Governing(i) => r \in Applicable(i)
  /\ r \notin Governing(i) => r.skip
  /\ Expected(r) /\ Clashes(S, i, r) /\ r \in Applicable(i) => policy.conflict # "error"

Settled(i) ==
  \A r \in Matching(i) : /\ Passes(Pool(i), i, r)
                         /\ r \in Applicable(i) => AlreadyPresent(i, r) \/ Queued(i, r)

\* What an accepted scan has established of the references it came to; the
\* second scan finds it of all.
Judged ==
  Accepted => \A i \in References : (pc = "scan" /\ pass = 1 => i < next) => Settled(i)

Again == pass = 2 => injections = << >> /\ Accepted

Stable == Made /\ (OneRuleEach => Judged /\ Again)

-----------------------------------------------------------------------------

\* Definitions that depend on the request alone.
LEMMA SameRules ==
  ASSUME request' = request
  PROVE  /\ \A i : Matching(i)' = Matching(i) /\ Applicable(i)' = Applicable(i) /\ Own(i)' = Own(i)
         /\ \A S, i, r : PresentIn(S, i, r)' = PresentIn(S, i, r)
         /\ \A S, i, r : Passes(S, i, r)' = Passes(S, i, r)
         /\ OneRuleEach' = OneRuleEach
<1>1. \A i : Matching(i)' = Matching(i)
  BY SameRequest DEF Matching, TableOf
<1>2. \A i : Applicable(i)' = Applicable(i)
  BY SameRequest DEF Applicable
<1>3. \A i : Own(i)' = Own(i)
  BY <1>2, SameRequest DEF Own
<1>4. \A c, i, r : ColumnMatches(c, i, r)' = ColumnMatches(c, i, r)
  BY SameRequest DEF ColumnMatches
<1>5. \A r : Expected(r)' = Expected(r)
  BY SameRequest DEF Expected
<1>6. \A S, i, r : PresentIn(S, i, r)' = PresentIn(S, i, r)
  BY <1>4, <1>5, SameRequest DEF PresentIn, IsLiteral
<1>7. \A S, i, r : Clashes(S, i, r)' = Clashes(S, i, r)
  BY <1>4, SameRequest DEF Clashes, IsLiteral
<1>8. \A S, i, r : Passes(S, i, r)' = Passes(S, i, r)
  BY <1>2, <1>5, <1>7, SameRequest DEF Passes
<1>9. OneRuleEach' = OneRuleEach
  BY <1>1, SameRequest DEF OneRuleEach
<1> QED BY <1>1, <1>2, <1>3, <1>6, <1>8, <1>9

\* The pool of a reference when nothing is injected.
LEMMA SamePool ==
  ASSUME Kept
  PROVE  /\ \A i : Pool(i)' = Pool(i)
         /\ \A i, r : AlreadyPresent(i, r)' = AlreadyPresent(i, r)
<1>1. \A i : Pool(i)' = Pool(i)
  BY SameRequest DEF Kept, Pool
<1> QED BY <1>1, SameRules DEF AlreadyPresent, Kept

LEMMA ApplicableTyped ==
  ASSUME request \in Requests, NEW i \in References, NEW r \in Applicable(i)
  PROVE  /\ r \in Governing(i) /\ r \in Matching(i) /\ r \in policy.rules
         /\ Predicate(i, r).source = i
BY PredicateTyped DEF Applicable, Governing, Matching

LEMMA OwnSource ==
  ASSUME request \in Requests, NEW i \in References, NEW c \in Own(i)
  PROVE  c.source = i
BY ApplicableTyped DEF Own

\* Where there is one rule, its predicate is found again, as it was made,
LEMMA OwnPresent ==
  ASSUME request \in Requests, OneRuleEach, NEW i \in References, NEW r \in Applicable(i),
         NEW S, NEW c \in S, c \in Own(i)
  PROVE  PresentIn(S, i, r)
<1>1. PICK q \in Applicable(i) : c = Predicate(i, q)
  BY DEF Own
<1>2. q = r /\ params[r.param].kind # "list"
  BY <1>1, ApplicableTyped DEF OneRuleEach
<1>3. ColumnMatches(c, i, r)
  BY <1>1, <1>2 DEF ColumnMatches, Predicate
<1>4. CASE params[r.param].kind = "missing"
  BY <1>1, <1>2, <1>3, <1>4 DEF PresentIn, Predicate
<1>5. CASE params[r.param].kind = "scalar"
  BY <1>1, <1>2, <1>3, <1>5 DEF PresentIn, Predicate, Expected, IsLiteral
<1> QED BY <1>2, <1>4, <1>5 DEF Applicable

\* and clashes with nothing.
LEMMA OwnClashesNot ==
  ASSUME request \in Requests, OneRuleEach, NEW i \in References, NEW r \in Matching(i),
         Expected(r), NEW c \in Own(i)
  PROVE  ~Clashes({c}, i, r)
<1>1. PICK q \in Applicable(i) : c = Predicate(i, q)
  BY DEF Own
<1>2. q = r /\ params[r.param].kind = "scalar"
  BY <1>1, ApplicableTyped DEF OneRuleEach, Expected
<1>3. c.form = "eq" /\ c.vals = params[r.param].vals
  BY <1>1, <1>2 DEF Predicate
<1> QED BY <1>3 DEF Clashes

\* A pool to which only predicates of references' own are added stays as it
\* was for every rule, or has its predicate now.
LEMMA PassesOn ==
  ASSUME request \in Requests, OneRuleEach, NEW i \in References, NEW r \in Matching(i),
         NEW S, NEW T, \A c \in T \ S : c.source = i => c \in Own(i),
         Passes(S, i, r)
  PROVE  Passes(T, i, r)
<1> SUFFICES ASSUME Expected(r), Clashes(T, i, r), r \in Applicable(i) PROVE policy.conflict # "error"
  BY DEF Passes
<1>1. PICK c \in T : Clashes({c}, i, r) /\ c.source = i
  BY DEF Clashes, ColumnMatches
<1>2. c \in S
  BY <1>1, OwnClashesNot
<1> QED BY <1>1, <1>2 DEF Passes, Clashes

-----------------------------------------------------------------------------
(* The scan.                                                                *)

\* A settled reference with nothing in the queue: the scan has nothing to say.
LEMMA NothingToReport ==
  ASSUME request \in Requests, NEW i \in References, Settled(i), \A r : ~Queued(i, r)
  PROVE  Unfiltered(i) = {} /\ \A v \in ScanReports(i) : ~v.is_error
<1>1. Unfiltered(i) = {}
  BY ApplicableTyped DEF Unfiltered, Settled
<1>2. \A r \in Matching(i) \ Governing(i) : r.skip
  BY DEF Settled, Passes
<1>3. \A r \in Governing(i) : r \in Applicable(i)
  BY DEF Settled, Passes, Governing
<1>4. \A r \in Governing(i) : params[r.param].kind # "unusable"
  BY <1>3 DEF Applicable
<1>5. \A r \in Governing(i) : ~(params[r.param].kind = "missing" /\ ~policy.parameterize)
  BY <1>3 DEF Applicable
<1>6. \A r \in Applicable(i) : Conflicting(i, r) => policy.conflict # "error"
  BY ApplicableTyped DEF Settled, Passes, Conflicting, Clashes
<1>7. {r \in Matching(i) \ Governing(i) : ~r.skip} = {}
  BY <1>2
<1>8. {r \in Governing(i) : params[r.param].kind = "unusable"} = {}
  BY <1>4
<1>9. {r \in Governing(i) : params[r.param].kind = "missing" /\ ~policy.parameterize} = {}
  BY <1>5
<1>10. \/ policy.conflict # "error"
       \/ {r \in Applicable(i) : Conflicting(i, r) /\ policy.conflict # "ignore"} = {}
  BY <1>6
<1>11. {r \in Unfiltered(i) : policy.strategy = "require"} = {}
  BY <1>1
<1>12. \A code, e : Reported(code, {}, e) = {}
  BY DEF Reported
<1>13. \A code, rules : \A v \in Reported(code, rules, policy.conflict = "error") :
         v.is_error = (policy.conflict = "error")
  BY DEF Reported
<1>14. ScanReports(i) =
         Reported("TENANT_FILTER_CONFLICT",
                  {r \in Applicable(i) : Conflicting(i, r) /\ policy.conflict # "ignore"},
                  policy.conflict = "error")
  BY <1>7, <1>8, <1>9, <1>11, <1>12 DEF ScanReports
<1> QED BY <1>1, <1>10, <1>12, <1>13, <1>14

\* An accepted scan of a reference settles it.
LEMMA ScanSettles ==
  ASSUME request \in Requests, NEW i \in References, \A v \in ScanReports(i) : ~v.is_error,
         OneRuleEach, NEW r \in Matching(i)
  PROVE  /\ Passes(Pool(i), i, r)
         /\ r \in Applicable(i) /\ policy.strategy = "require" => AlreadyPresent(i, r)
<1>1. r \in Rule /\ params[r.param] \in ParamValue
  BY RequestTyped DEF Matching, PolicyType, Rule
<1> DEFINE error(code) == [code |-> code, column |-> r.column, is_error |-> TRUE]
<1>2. \A code : error(code) \notin ScanReports(i)
  OBVIOUS
<1>3. r \in Governing(i) => params[r.param].kind # "unusable"
  BY <1>2 DEF ScanReports, Reported
<1>4. r \in Governing(i) => ~(params[r.param].kind = "missing" /\ ~policy.parameterize)
  BY <1>2 DEF ScanReports, Reported
<1>5. r \in Governing(i) => r \in Applicable(i)
  BY <1>1, <1>3, <1>4 DEF Applicable, ParamValue
<1>6. r \notin Governing(i) => r.skip
  BY <1>1, <1>2 DEF ScanReports, Reported, Rule
<1>7. Expected(r) /\ Clashes(Pool(i), i, r) /\ r \in Applicable(i) => policy.conflict # "error"
  <2> SUFFICES ASSUME Expected(r), Clashes(Pool(i), i, r), r \in Applicable(i), policy.conflict = "error"
               PROVE  FALSE
    OBVIOUS
  <2>1. Conflicting(i, r)
    BY DEF Conflicting, Clashes
  <2>2. error("TENANT_FILTER_CONFLICT") \in ScanReports(i)
    BY <2>1 DEF ScanReports, Reported
  <2> QED BY <1>2, <2>2
<1>8. r \in Applicable(i) /\ policy.strategy = "require" => AlreadyPresent(i, r)
  BY <1>2 DEF ScanReports, Reported, Unfiltered
<1> QED BY <1>5, <1>6, <1>7, <1>8 DEF Passes

\* Nothing leaves the queue while the scan goes on.
LEMMA StaysQueued ==
  ASSUME injections \in Seq(Entries), request' = request, NEW e,
         injections' = injections \/ injections' = Append(injections, e),
         NEW i, NEW r, Queued(i, r)
  PROVE  Queued(i, r)'
<1>1. PICK k \in 1..Len(injections) : injections[k][1] = i /\ Predicate(i, r) \in injections[k][2]
  BY DEF Queued
<1>2. k \in 1..Len(injections') /\ injections'[k] = injections[k]
  BY <1>1, AppendQueue
<1> QED BY <1>1, <1>2, SameRequest DEF Queued

LEMMA FirstScan ==
  ASSUME TypeOK, Stable, ScanReference, pass = 1
  PROVE  Stable'
<1> DEFINE preds == {Predicate(next, q) : q \in Unfiltered(next)}
           entry == <<next, preds>>
<1>1. /\ next \in References /\ next \in Nat /\ next' = next + 1 /\ pc = "scan" /\ pc' = "scan"
      /\ Kept /\ request' = request /\ injections \in Seq(Entries) /\ request \in Requests
      /\ UNCHANGED injected /\ pass' = 1
  BY ReferencesTyped DEF ScanReference, injected, Kept, TypeOK, Entries
<1>2. /\ injections' = injections \/ injections' = Append(injections, entry)
      /\ policy.strategy # "require" /\ preds # {} => injections' = Append(injections, entry)
  BY DEF ScanReference, Queue
<1>3. preds \subseteq Own(next)
  BY DEF Unfiltered, Own
<1>4. Made'
  <2>1. \A k \in 1..Len(injections') : injections'[k][2] \subseteq Own(injections'[k][1])
    <3>1. CASE injections' = injections
      BY <3>1 DEF Stable, Made
    <3>2. CASE injections' = Append(injections, entry)
      <4> TAKE k \in 1..Len(injections')
      <4>1. CASE k \in 1..Len(injections)
        BY <1>1, <3>2, <4>1, AppendQueue DEF Stable, Made
      <4>2. CASE k = Len(injections) + 1
        <5>1. injections'[k] = entry
          BY <1>1, <3>2, <4>2, AppendQueue
        <5> HIDE DEF preds
        <5> QED BY <1>3, <5>1
      <4> QED BY <1>1, <3>2, <4>1, <4>2, AppendQueue
    <3> QED BY <1>2, <3>1, <3>2
  <2> QED BY <1>1, <2>1, SameRules, SameRequest DEF Stable, Made, injected
<1>5. ASSUME OneRuleEach, Accepted', NEW i \in References, i < next + 1
      PROVE  Settled(i)'
  <2>1. i \in Nat /\ Accepted /\ \A v \in ScanReports(next) : ~v.is_error
    BY <1>1, <1>5, ReferencesTyped DEF Accepted, ScanReference
  <2>2. \A r : Queued(i, r) => Queued(i, r)'
    <3> HIDE DEF preds
    <3> QED BY <1>1, <1>2, StaysQueued
  <2>3. CASE i < next
    <3>1. Settled(i)
      BY <1>1, <1>5, <2>1, <2>3 DEF Stable, Judged
    <3> QED BY <1>1, <2>2, <3>1, SamePool, SameRules DEF Settled
  <2>4. CASE i = next
    <3> SUFFICES ASSUME NEW r \in Matching(i)
                 PROVE  /\ Passes(Pool(i), i, r)
                        /\ r \in Applicable(i) => AlreadyPresent(i, r) \/ Queued(i, r)'
      BY <1>1, SamePool, SameRules DEF Settled
    <3>1. /\ Passes(Pool(i), i, r)
          /\ r \in Applicable(i) /\ policy.strategy = "require" => AlreadyPresent(i, r)
      BY <1>1, <1>5, <2>1, <2>4, ScanSettles
    <3>2. ASSUME r \in Unfiltered(i), policy.strategy # "require" PROVE Queued(i, r)'
      <4>1. Predicate(i, r) \in preds
        BY <2>4, <3>2
      <4> HIDE DEF preds
      <4>2. /\ Len(injections) + 1 \in 1..Len(injections')
            /\ injections'[Len(injections) + 1] = entry
        BY <1>1, <1>2, <3>2, <4>1, AppendQueue
      <4>3. Predicate(i, r)' = Predicate(i, r)
        BY <1>1, SameRequest
      <4> QED BY <2>4, <4>1, <4>2, <4>3 DEF Queued
    <3> QED BY <3>1, <3>2 DEF Unfiltered
  <2> QED BY <1>1, <1>5, <2>1, <2>3, <2>4
<1>6. ASSUME OneRuleEach' PROVE Judged'
  <2> SUFFICES ASSUME Accepted', NEW i \in References, i < next + 1 PROVE Settled(i)'
    BY <1>1, SameRequest DEF Judged
  <2> QED BY <1>1, <1>5, <1>6, SameRules
<1>7. Again'
  BY <1>1 DEF Again
<1> QED BY <1>4, <1>6, <1>7 DEF Stable

LEMMA SecondScan ==
  ASSUME TypeOK, Stable, ScanReference, pass = 2
  PROVE  Stable'
<1>1. /\ next \in References /\ pc = "scan" /\ pc' = "scan" /\ Kept /\ request' = request
      /\ request \in Requests /\ UNCHANGED injected /\ pass' = 2
      /\ violations' = violations \cup ScanReports(next)
  BY DEF ScanReference, injected, Kept, TypeOK
<1>2. ASSUME OneRuleEach
      PROVE  UNCHANGED injections /\ Accepted' /\ injections = << >> /\ Accepted
  <2>1. injections = << >> /\ Accepted /\ Settled(next)
    BY <1>1, <1>2 DEF Stable, Judged, Again
  <2>2. \A r : ~Queued(next, r)
    BY <2>1 DEF Queued
  <2>3. Unfiltered(next) = {} /\ \A v \in ScanReports(next) : ~v.is_error
    BY <1>1, <2>1, <2>2, NothingToReport
  <2>4. injections' = injections
    BY <2>3 DEF ScanReference, Queue
  <2> QED BY <1>1, <2>1, <2>3, <2>4 DEF Accepted
<1>3. ASSUME OneRuleEach PROVE Judged' /\ Again'
  <2>1. \A i \in References : Settled(i)
    BY <1>1, <1>2, <1>3 DEF Stable, Judged
  <2>2. \A i \in References : Settled(i)'
    BY <1>1, <1>2, <1>3, <2>1, SamePool, SameRules, SameRequest DEF Settled, Queued
  <2> QED BY <1>1, <1>2, <1>3, <2>2, SameRequest DEF Judged, Again
<1>4. Made'
  <2> DEFINE preds == {Predicate(next, q) : q \in Unfiltered(next)}
             entry == <<next, preds>>
  <2>1. injections \in Seq(Entries) /\ preds \subseteq Own(next)
    BY DEF TypeOK, Entries, Unfiltered, Own
  <2>2. injections' = injections \/ injections' = Append(injections, entry)
    BY DEF ScanReference, Queue
  <2> HIDE DEF preds
  <2>3. ASSUME NEW k \in 1..Len(injections')
        PROVE  injections'[k][2] \subseteq Own(injections'[k][1])
    <3>1. CASE k \in 1..Len(injections)
      BY <2>1, <2>2, <3>1, AppendQueue DEF Stable, Made
    <3>2. CASE k = Len(injections) + 1 /\ injections' = Append(injections, entry)
      <4>1. injections'[k] = entry
        BY <2>1, <3>2, AppendQueue
      <4> QED BY <2>1, <4>1
    <3> QED BY <2>1, <2>2, <2>3, <3>1, <3>2, AppendQueue
  <2> QED BY <1>1, <2>3, SameRules, SameRequest DEF Stable, Made, injected
<1> QED BY <1>1, <1>3, <1>4, SameRules DEF Stable

-----------------------------------------------------------------------------
(* The injection.                                                           *)

\* The pool of a reference after an injection: what a wrap holds, or what it
\* was and predicates of references' own.
LEMMA PoolGrows ==
  ASSUME TypeOK, Made, Inject, NEW j \in References
  PROVE  /\ \A c \in Pool(j)' \ Pool(j) : c.source = j => c \in Own(j)
         /\ wrap'[j] # {} => Pool(j)' = wrap'[j] /\ wrap'[j] \subseteq Own(j)
         /\ wrap'[j] = {} => Pool(j) \subseteq Pool(j)'
<1>1. PICK i \in References, preds \in SUBSET Conjunct : InjectedAt(i, preds)
  BY InjectEffect
<1>2. /\ injections \in Seq(Entries) /\ injections # << >> /\ injections[1] = <<i, preds>>
      /\ 1 \in 1..Len(injections) /\ request' = request /\ request \in Requests
  BY <1>1, InjectEffect, TailQueue DEF InjectedAt, Inject, TypeOK
<1>3. preds \subseteq Own(i)
  BY <1>2 DEF Made
<1>4. \A k \in References : \A c \in Own(k) : c.source = k
  BY <1>2, OwnSource
<1>5. References' = References /\ query' = query
  BY <1>2, SameRequest
<1>6. CASE where' = where \cup preds /\ UNCHANGED <<on, wrap>>
  <2>1. /\ Pool(j) \subseteq Pool(j)' /\ Pool(j)' \subseteq Pool(j) \cup preds
        /\ wrap'[j] # {} => Pool(j)' = wrap'[j]
    BY <1>5, <1>6 DEF Pool
  <2> QED BY <1>3, <1>4, <1>6, <2>1 DEF Made
<1>7. CASE on' = [on EXCEPT ![i] = on[i] \cup preds] /\ UNCHANGED <<where, wrap>>
  <2>1. \A k \in References : on[k] \subseteq on'[k] /\ on'[k] \subseteq on[k] \cup preds
    BY <1>7 DEF TypeOK
  <2>2. /\ Pool(j) \subseteq Pool(j)' /\ Pool(j)' \subseteq Pool(j) \cup preds
        /\ wrap'[j] # {} => Pool(j)' = wrap'[j]
    BY <1>5, <1>7, <2>1 DEF Pool
  <2> QED BY <1>3, <1>4, <1>7, <2>2 DEF Made
<1>8. CASE wrap' = [wrap EXCEPT ![i] = wrap[i] \cup preds] /\ UNCHANGED <<where, on>>
  <2>1. wrap'[j] \subseteq Own(j) /\ wrap[j] \subseteq wrap'[j]
    BY <1>3, <1>8 DEF Made, TypeOK
  <2>2. CASE wrap'[j] # {}
    BY <1>5, <2>1, <2>2 DEF Pool
  <2>3. CASE wrap'[j] = {}
    BY <1>5, <1>8, <2>1, <2>3 DEF Pool
  <2> QED BY <2>2, <2>3
<1> QED BY <1>1, <1>6, <1>7, <1>8 DEF InjectedAt

\* The predicates at the head come to be in the pool of their reference.
LEMMA HeadInPool ==
  ASSUME TypeOK, Made, Inject, NEW i \in References, NEW preds, InjectedAt(i, preds)
  PROVE  preds \subseteq Pool(i)'
<1>1. References' = References /\ query' = query
  BY SameRequest DEF Inject
<1>2. CASE where' = where \cup preds /\ UNCHANGED <<on, wrap>> /\ wrap[i] = {}
  BY <1>2 DEF Pool
<1>3. CASE on' = [on EXCEPT ![i] = on[i] \cup preds] /\ UNCHANGED <<where, wrap>> /\ wrap[i] = {}
  <2>1. preds \subseteq on'[i]
    BY <1>3 DEF TypeOK
  <2> QED BY <1>1, <1>3, <2>1 DEF Pool
<1>4. CASE wrap' = [wrap EXCEPT ![i] = wrap[i] \cup preds]
  <2>1. preds \subseteq wrap'[i]
    BY <1>4 DEF TypeOK
  <2> QED BY <2>1 DEF Pool
<1>5. PlaceFor(i) # "wrap" => wrap[i] = {}
  BY DEF PlaceFor
<1> QED BY <1>2, <1>3, <1>4, <1>5 DEF InjectedAt

LEMMA InjectionSettles ==
  ASSUME TypeOK, Stable, Inject, OneRuleEach, NEW j \in References, Settled(j)
  PROVE  Settled(j)'
<1>1. /\ injections \in Seq(Entries) /\ injections # << >> /\ injections' = Tail(injections)
      /\ request' = request /\ request \in Requests
  BY InjectEffect DEF Inject, TypeOK
<1>2. /\ Len(injections') = Len(injections) - 1 /\ Len(injections) \in Nat \ {0}
      /\ \A k \in 1..Len(injections') : injections'[k] = injections[k + 1]
  BY <1>1, TailQueue
<1>3. /\ \A c \in Pool(j)' \ Pool(j) : c.source = j => c \in Own(j)
      /\ wrap'[j] # {} => Pool(j)' = wrap'[j] /\ wrap'[j] \subseteq Own(j)
      /\ wrap'[j] = {} => Pool(j) \subseteq Pool(j)'
  BY PoolGrows DEF Stable
<1> SUFFICES ASSUME NEW r \in Matching(j)
             PROVE  /\ Passes(Pool(j)', j, r)
                    /\ r \in Applicable(j) => PresentIn(Pool(j)', j, r) \/ Queued(j, r)'
  BY <1>1, SameRules DEF Settled, AlreadyPresent
<1>4. Passes(Pool(j)', j, r)
  <2> DEFINE T == Pool(j)'
  <2>1. Passes(Pool(j), j, r) /\ \A c \in T \ Pool(j) : c.source = j => c \in Own(j)
    BY <1>3 DEF Settled
  <2> HIDE DEF T
  <2>2. Passes(T, j, r)
    BY <1>1, <2>1, PassesOn
  <2> QED BY <2>2 DEF T
<1>5. ASSUME r \in Applicable(j) PROVE PresentIn(Pool(j)', j, r) \/ Queued(j, r)'
  <2>1. ASSUME NEW c \in Pool(j)', c \in Own(j) PROVE PresentIn(Pool(j)', j, r)
    <3> DEFINE T == Pool(j)'
    <3>1. c \in T
      BY <2>1
    <3> HIDE DEF T
    <3>2. PresentIn(T, j, r)
      BY <1>1, <1>5, <2>1, <3>1, OwnPresent
    <3> QED BY <3>2 DEF T
  <2>2. CASE AlreadyPresent(j, r) /\ wrap'[j] = {}
    BY <1>3, <2>2 DEF AlreadyPresent, PresentIn
  <2>3. CASE wrap'[j] # {}
    BY <1>3, <2>1, <2>3
  <2>4. CASE Queued(j, r)
    <3>1. PICK k \in 1..Len(injections) : injections[k][1] = j /\ Predicate(j, r) \in injections[k][2]
      BY <2>4 DEF Queued
    <3>2. CASE k = 1
      <4> PICK i \in References, preds \in SUBSET Conjunct : InjectedAt(i, preds)
        BY InjectEffect
      <4>1. Predicate(j, r) \in Pool(j)'
        <5>1. i = j /\ Predicate(j, r) \in preds
          BY <1>1, <3>1, <3>2, TailQueue DEF InjectedAt
        <5> QED BY <5>1, HeadInPool DEF Stable
      <4>2. Predicate(j, r) \in Own(j)
        BY <1>5 DEF Own
      <4> QED BY <2>1, <4>1, <4>2
    <3>3. CASE k # 1
      <4>1. k - 1 \in 1..Len(injections') /\ injections'[k - 1] = injections[k]
        BY <1>2, <3>1, <3>3
      <4> QED BY <1>1, <3>1, <4>1, SameRequest DEF Queued
    <3> QED BY <3>2, <3>3
  <2> QED BY <1>5, <2>2, <2>3, <2>4 DEF Settled
<1> QED BY <1>4, <1>5

LEMMA InjectionStable ==
  ASSUME TypeOK, Stable, Inject
  PROVE  Stable'
<1>1. PICK i \in References, preds \in SUBSET Conjunct : InjectedAt(i, preds)
  BY InjectEffect
<1>2. /\ injections \in Seq(Entries) /\ injections # << >> /\ injections' = Tail(injections)
      /\ request' = request /\ request \in Requests /\ pc = "inject" /\ pc' = "inject"
      /\ UNCHANGED <<violations, pass>>
  BY InjectEffect DEF Inject, TypeOK
<1>3. /\ Len(injections') = Len(injections) - 1 /\ Len(injections) \in Nat \ {0}
      /\ \A k \in 1..Len(injections') : injections'[k] = injections[k + 1]
      /\ injections[1] = <<i, preds>>
  BY <1>1, <1>2, TailQueue DEF InjectedAt
<1>4. preds \subseteq Own(i)
  BY <1>3 DEF Stable, Made
<1>5. Made'
  <2>1. \A c \in where' : \E j \in References : c \in Own(j)
    BY <1>1, <1>4 DEF InjectedAt, Stable, Made
  <2>2. \A j \in References : on'[j] \subseteq Own(j)
    BY <1>1, <1>4 DEF InjectedAt, Stable, Made, TypeOK
  <2>3. \A j \in References : wrap'[j] \subseteq Own(j)
    BY <1>1, <1>4 DEF InjectedAt, Stable, Made, TypeOK
  <2>4. \A k \in 1..Len(injections') : injections'[k][2] \subseteq Own(injections'[k][1])
    <3> TAKE k \in 1..Len(injections')
    <3>1. k + 1 \in 1..Len(injections) /\ injections'[k] = injections[k + 1]
      BY <1>3
    <3> QED BY <3>1 DEF Stable, Made
  <2> QED BY <1>2, <2>1, <2>2, <2>3, <2>4, SameRules, SameRequest DEF Made
<1>6. ASSUME OneRuleEach' PROVE Judged' /\ Again'
  <2>1. OneRuleEach /\ Judged /\ Again
    BY <1>2, <1>6, SameRules DEF Stable
  <2>2. Accepted' = Accepted
    BY <1>2 DEF Accepted
  <2>3. Judged'
    BY <1>2, <2>1, <2>2, InjectionSettles, SameRequest DEF Judged
  <2>4. Again'
    BY <1>2, <2>1 DEF Again
  <2> QED BY <2>3, <2>4
<1> QED BY <1>5, <1>6 DEF Stable

-----------------------------------------------------------------------------

LEMMA StableStep ==
  ASSUME TypeOK, Placed, Stable, [Next]_vars
  PROVE  Stable'
<1> USE DEF injected, execution, Kept
<1>1. CASE ScanReference
  BY <1>1, FirstScan, SecondScan DEF TypeOK
<1>2. CASE Inject
  BY <1>2, InjectionStable
<1>3. ASSUME Kept, UNCHANGED injections
      PROVE  /\ Made' /\ OneRuleEach' = OneRuleEach /\ References' = References
             /\ \A i \in References : Settled(i)' = Settled(i)
  <2>1. Made'
    BY <1>3, SameRules, SameRequest DEF Stable, Made
  <2>2. \A i : \A r : Queued(i, r)' = Queued(i, r)
    BY <1>3, SameRequest DEF Queued
  <2>3. \A i \in References : Settled(i)' = Settled(i)
    BY <1>3, <2>2, SamePool, SameRules DEF Settled
  <2> QED BY <1>3, <2>1, <2>3, SameRules, SameRequest
<1>4. CASE UNCHANGED vars
  <2>1. Kept /\ UNCHANGED <<injections, violations, pc, pass, next>>
    BY <1>4 DEF vars
  <2>2. Accepted' = Accepted
    BY <2>1 DEF Accepted
  <2> QED BY <1>3, <2>1, <2>2 DEF Stable, Judged, Again
<1>5. CASE EndScan
  <2>1. /\ Kept /\ UNCHANGED <<injections, violations, pass, next>> /\ pc = "scan" /\ pc' = "inject"
        /\ next \notin References
    BY <1>5 DEF EndScan
  <2>2. \A i \in References : i < next
    BY <2>1, ReferencesTyped DEF TypeOK, References
  <2>3. Accepted' = Accepted
    BY <2>1 DEF Accepted
  <2> QED BY <1>3, <2>1, <2>2, <2>3 DEF Stable, Judged, Again
<1>6. CASE Return \/ Execute \/ JoinSource \/ FilterWhere
  <2>1. /\ Kept /\ UNCHANGED <<injections, violations, pass>> /\ pc # "scan" /\ pc' # "scan"
    BY <1>6 DEF Return, Execute, JoinSource, FilterWhere
  <2>2. Accepted' = Accepted
    BY <2>1 DEF Accepted
  <2> QED BY <1>3, <2>1, <2>2 DEF Stable, Judged, Again
<1>7. CASE Revalidate
  <2>1. /\ Kept /\ UNCHANGED injections /\ pc = "returned" /\ pc' = "scan" /\ pass' = 2 /\ Accepted
        /\ violations' = {}
    BY <1>7 DEF Revalidate
  <2>2. injections = << >>
    BY <2>1 DEF Placed, Staged
  <2>3. Accepted'
    BY <2>1 DEF Accepted
  <2> QED BY <1>3, <2>1, <2>2, <2>3 DEF Stable, Judged, Again
<1> QED BY <1>1, <1>2, <1>4, <1>5, <1>6, <1>7 DEF Next

LEMMA StableInit == Init => Stable
<1> SUFFICES ASSUME Init PROVE Stable
  OBVIOUS
<1>1. References \subseteq Nat
  BY ReferencesTyped DEF Init
<1> QED BY <1>1 DEF Init, Stable, Made, Judged, Again, References

\* A returned statement is stable for any number of sources, joins, conjuncts
\* and rules, wherever its predicates were injected: the scan recognises each
\* one in its place and nothing it added conflicts.
THEOREM SecondPassAlwaysAddsNothing == Spec => []SecondPassAddsNothing
<1>1. Stable => SecondPassAddsNothing
  BY DEF Stable, Again, OneRuleEach, SecondPassAddsNothing
<1> QED BY <1>1, StableInit, StableStep, TypeCorrect, PlacedAlways, PTL DEF Spec

(***************************************************************************)
(* A filtered statement returns what the written one would on tables that   *)
(* hold only the allowed rows, for any number of sources, joins and rows.   *)
(*                                                                          *)
(* While the joins run the two relations need not be equal: forbidden rows  *)
(* a WHERE or a later ON will reject are still in the one, and rows that    *)
(* are null-extended for want of them in the other.  They agree on all rows *)
(* that no condition still to come rejects.                                 *)
(***************************************************************************)

JoinOf(k) == query.sources[k].join

\* The ON of such a join rejects rows of the sources before it.
Cuts(k) == JoinOf(k) \in {"inner", "right"}

\* The conditions still to come when source n is joined next,
Pending(n) ==
  query.where \cup where \cup UNION {query.on[j] : j \in {j \in References : j >= n /\ Cuts(j)}}

\* and whether one of them rejects a row of the sources joined so far.
Doomed(x, n) == \E c \in Pending(n) : c.source \in 1..(n - 1) /\ ~Holds(c, x)

Agree(n) == \A x : ~Doomed(x, n) => (x \in rel <=> x \in ref)

FilteredAtWhere(i) == \E c \in where : c.source = i

\* The reference run shows allowed rows, and no null row of what is filtered in
\* the WHERE.
Shown(x, n) ==
  \A i \in 1..(n - 1) : /\ ShowsAllowed(x, i)
                        /\ FilteredAtWhere(i) => x[i] # NullRow

\* Only sources that their own join does not null-extend are filtered in the WHERE.
WherePlaced == \A i \in References : FilteredAtWhere(i) => JoinOf(i) \in {"from", "inner"}

Comparable == NothingMisread /\ \A i \in References : ~NulledBeforeWhere(i)

Comparing ==
  pc = "execute" /\ Comparable =>
    /\ next >= 2 /\ \A t \in Tables : NullRow \notin db[t]
    /\ \A n : n = next => Agree(n) /\ \A x \in ref : Shown(x, n)

-----------------------------------------------------------------------------
(* One join.                                                                *)

Keyed(k, l, r) == query.sources[k].cond # "cross" => l[k - 1] # NullRow /\ l[k - 1].key = r.key
Paired(k, l, r, cs) == Keyed(k, l, r) /\ \A c \in cs : Holds(c, Extend(l, r, k))
Nulls(k) == [j \in 1..(k - 1) |-> NullRow]

\* The rows of a join.
LEMMA JoinRows ==
  ASSUME request \in Requests, NEW k \in References, k # 1, NEW L, NEW R, NEW cs, NEW y
  PROVE  y \in JoinWith(k, L, R, cs) <=>
           \/ \E l \in L, r \in R : Paired(k, l, r, cs) /\ y = Extend(l, r, k)
           \/ /\ JoinOf(k) \in {"left", "full"}
              /\ \E l \in L : (\A r \in R : ~Paired(k, l, r, cs)) /\ y = Extend(l, NullRow, k)
           \/ /\ JoinOf(k) \in {"right", "full"}
              /\ \E r \in R : (\A l \in L : ~Paired(k, l, r, cs)) /\ y = Extend(Nulls(k), r, k)
<1> DEFINE ok == Accepts(k, L, R, cs)
           pairs == Join(JoinOf(k), L, R, ok, Nulls(k), NullRow)
<1>1. JoinOf(k) \in {"inner", "left", "right", "full"}
  BY RequestTyped, ReferencesTyped DEF Source, JoinOf
<1>2. \A l \in L, r \in R : <<l, r>> \in ok <=> Paired(k, l, r, cs)
  BY DEF Accepts, Paired, Keyed
<1>3. y \in JoinWith(k, L, R, cs) <=> \E p \in pairs : y = Extend(p[1], p[2], k)
  BY DEF JoinWith, JoinOf, Nulls
<1>4. \A p : p \in pairs <=>
        \/ \E l \in L, r \in R : p = <<l, r>> /\ <<l, r>> \in ok
        \/ /\ JoinOf(k) \in {"left", "full"}
           /\ \E l \in L : p = <<l, NullRow>> /\ \A r \in R : <<l, r>> \notin ok
        \/ /\ JoinOf(k) \in {"right", "full"}
           /\ \E r \in R : p = <<Nulls(k), r>> /\ \A l \in L : <<l, r>> \notin ok
  <2> DEFINE nulls == Nulls(k)
             join == JoinOf(k)
  <2>1. join \in {"inner", "left", "right", "full"}
    BY <1>1
  <2> HIDE DEF ok, nulls, join
  <2>2. \A p : p \in InnerJoin(L, R, ok) <=> \E l \in L, r \in R : p = <<l, r>> /\ <<l, r>> \in ok
    <3> TAKE p
    <3>1. p \in L \X R <=> \E l \in L, r \in R : p = <<l, r>>
      OBVIOUS
    <3> QED BY <3>1 DEF InnerJoin
  <2>3. \A p : p \in LoneLeft(L, R, ok) \X {NullRow} <=>
          \E l \in L : p = <<l, NullRow>> /\ \A r \in R : <<l, r>> \notin ok
    BY DEF LoneLeft
  <2>4. \A p : p \in {nulls} \X LoneRight(L, R, ok) <=>
          \E r \in R : p = <<nulls, r>> /\ \A l \in L : <<l, r>> \notin ok
    BY DEF LoneRight
  <2>5. \A p : p \in Join(join, L, R, ok, nulls, NullRow) <=>
          \/ p \in InnerJoin(L, R, ok)
          \/ join \in {"left", "full"} /\ p \in LoneLeft(L, R, ok) \X {NullRow}
          \/ join \in {"right", "full"} /\ p \in {nulls} \X LoneRight(L, R, ok)
    BY <2>1 DEF Join, FullJoin, LeftJoin, RightJoin
  <2>6. \A p : p \in Join(join, L, R, ok, nulls, NullRow) <=>
          \/ \E l \in L, r \in R : p = <<l, r>> /\ <<l, r>> \in ok
          \/ /\ join \in {"left", "full"}
             /\ \E l \in L : p = <<l, NullRow>> /\ \A r \in R : <<l, r>> \notin ok
          \/ /\ join \in {"right", "full"}
             /\ \E r \in R : p = <<nulls, r>> /\ \A l \in L : <<l, r>> \notin ok
    <3> TAKE p
    <3> DEFINE inner == \E l \in L, r \in R : p = <<l, r>> /\ <<l, r>> \in ok
               left == \E l \in L : p = <<l, NullRow>> /\ \A r \in R : <<l, r>> \notin ok
               right == \E r \in R : p = <<nulls, r>> /\ \A l \in L : <<l, r>> \notin ok
    <3>1. p \in InnerJoin(L, R, ok) <=> inner
      BY <2>2
    <3>2. p \in LoneLeft(L, R, ok) \X {NullRow} <=> left
      BY <2>3
    <3>3. p \in {nulls} \X LoneRight(L, R, ok) <=> right
      BY <2>4
    <3>4. p \in Join(join, L, R, ok, nulls, NullRow) <=>
            \/ inner
            \/ join \in {"left", "full"} /\ left
            \/ join \in {"right", "full"} /\ right
      <4> HIDE DEF inner, left, right
      <4> QED BY <2>5, <3>1, <3>2, <3>3
    <3>5. (join \in {"left", "full"} /\ left) <=>
            /\ join \in {"left", "full"}
            /\ \E l \in L : p = <<l, NullRow>> /\ \A r \in R : <<l, r>> \notin ok
      OBVIOUS
    <3>6. (join \in {"right", "full"} /\ right) <=>
            /\ join \in {"right", "full"}
            /\ \E r \in R : p = <<nulls, r>> /\ \A l \in L : <<l, r>> \notin ok
      OBVIOUS
    <3> QED BY <3>4, <3>5, <3>6
  <2> QED BY <2>6 DEF nulls, join
<1> HIDE DEF ok, pairs
<1>5. (\E p \in pairs : y = Extend(p[1], p[2], k)) <=>
        \/ \E l \in L, r \in R : <<l, r>> \in ok /\ y = Extend(l, r, k)
        \/ /\ JoinOf(k) \in {"left", "full"}
           /\ \E l \in L : y = Extend(l, NullRow, k) /\ \A r \in R : <<l, r>> \notin ok
        \/ /\ JoinOf(k) \in {"right", "full"}
           /\ \E r \in R : y = Extend(Nulls(k), r, k) /\ \A l \in L : <<l, r>> \notin ok
  <2>1. ASSUME NEW p \in pairs, y = Extend(p[1], p[2], k)
        PROVE  \/ \E l \in L, r \in R : <<l, r>> \in ok /\ y = Extend(l, r, k)
               \/ /\ JoinOf(k) \in {"left", "full"}
                  /\ \E l \in L : y = Extend(l, NullRow, k) /\ \A r \in R : <<l, r>> \notin ok
               \/ /\ JoinOf(k) \in {"right", "full"}
                  /\ \E r \in R : y = Extend(Nulls(k), r, k) /\ \A l \in L : <<l, r>> \notin ok
    <3>1. CASE \E l \in L, r \in R : p = <<l, r>> /\ <<l, r>> \in ok
      BY <2>1, <3>1
    <3>2. CASE /\ JoinOf(k) \in {"left", "full"}
               /\ \E l \in L : p = <<l, NullRow>> /\ \A r \in R : <<l, r>> \notin ok
      BY <2>1, <3>2
    <3>3. CASE /\ JoinOf(k) \in {"right", "full"}
               /\ \E r \in R : p = <<Nulls(k), r>> /\ \A l \in L : <<l, r>> \notin ok
      <4> DEFINE nulls == Nulls(k)
      <4>1. PICK r \in R : p = <<nulls, r>> /\ \A l \in L : <<l, r>> \notin ok
        BY <3>3
      <4> HIDE DEF nulls
      <4>2. p[1] = nulls /\ p[2] = r
        BY <4>1
      <4>3. y = Extend(nulls, r, k) /\ \A l \in L : <<l, r>> \notin ok
        BY <2>1, <4>1, <4>2
      <4> QED BY <3>3, <4>3 DEF nulls
    <3>4. \/ \E l \in L, r \in R : p = <<l, r>> /\ <<l, r>> \in ok
          \/ /\ JoinOf(k) \in {"left", "full"}
             /\ \E l \in L : p = <<l, NullRow>> /\ \A r \in R : <<l, r>> \notin ok
          \/ /\ JoinOf(k) \in {"right", "full"}
             /\ \E r \in R : p = <<Nulls(k), r>> /\ \A l \in L : <<l, r>> \notin ok
      BY <1>4, <2>1, Zenon
    <3> QED BY <3>1, <3>2, <3>3, <3>4, Zenon
  <2>2. ASSUME NEW a, NEW b, <<a, b>> \in pairs, y = Extend(a, b, k)
        PROVE  \E p \in pairs : y = Extend(p[1], p[2], k)
    <3>1. <<a, b>>[1] = a /\ <<a, b>>[2] = b
      OBVIOUS
    <3> QED BY <2>2, <3>1
  <2>3. ASSUME NEW l \in L, NEW r \in R, <<l, r>> \in ok, y = Extend(l, r, k)
        PROVE  \E p \in pairs : y = Extend(p[1], p[2], k)
    <3>1. <<l, r>> \in pairs
      BY <1>4, <2>3
    <3> QED BY <2>2, <2>3, <3>1
  <2>4. ASSUME JoinOf(k) \in {"left", "full"}, NEW l \in L, \A r \in R : <<l, r>> \notin ok,
               y = Extend(l, NullRow, k)
        PROVE  \E p \in pairs : y = Extend(p[1], p[2], k)
    <3>1. <<l, NullRow>> \in pairs
      BY <1>4, <2>4
    <3> QED BY <2>2, <2>4, <3>1
  <2>5. ASSUME JoinOf(k) \in {"right", "full"}, NEW r \in R, \A l \in L : <<l, r>> \notin ok,
               y = Extend(Nulls(k), r, k)
        PROVE  \E p \in pairs : y = Extend(p[1], p[2], k)
    <3>1. <<Nulls(k), r>> \in pairs
      BY <1>4, <2>5
    <3> QED BY <2>2, <2>5, <3>1
  <2> QED BY <2>1, <2>3, <2>4, <2>5
<1> QED BY <1>2, <1>3, <1>5

\* What a joined row shows of its parts.
LEMMA ExtendParts ==
  ASSUME request \in Requests, NEW k \in References, NEW l, NEW r
  PROVE  /\ Extend(l, r, k)[k] = r
         /\ \A i \in 1..(k - 1) : Extend(l, r, k)[i] = l[i]
         /\ \A c : c.source \in 1..(k - 1) => (Holds(c, Extend(l, r, k)) <=> Holds(c, l))
         /\ \A c : c.source = k => (Holds(c, Extend(l, r, k)) <=> r # NullRow /\ Meets(r, c))
<1>1. k \in Nat \ {0}
  BY ReferencesTyped DEF References
<1>2. Extend(l, r, k)[k] = r /\ \A i \in 1..(k - 1) : Extend(l, r, k)[i] = l[i]
  BY <1>1 DEF Extend
<1> QED BY <1>2 DEF Holds, Meets

\* A row that is doomed stays so, unless the ON of this join rejects it.
LEMMA DoomedOn ==
  ASSUME request \in Requests, NEW k \in References, NEW l, NEW r, Doomed(l, k)
  PROVE  \/ Doomed(Extend(l, r, k), k + 1)
         \/ Cuts(k) /\ \E c \in query.on[k] : ~Holds(c, Extend(l, r, k))
<1>1. PICK c \in Pending(k) : c.source \in 1..(k - 1) /\ ~Holds(c, l)
  BY DEF Doomed
<1>2. ~Holds(c, Extend(l, r, k)) /\ k \in Nat /\ c.source \in 1..((k + 1) - 1)
  BY <1>1, ExtendParts, ReferencesTyped
<1>3. c \in Pending(k + 1) \/ (Cuts(k) /\ c \in query.on[k])
  <2>1. \A j \in References : j >= k => j >= k + 1 \/ j = k
    BY <1>2, ReferencesTyped
  <2> QED BY <2>1 DEF Pending
<1> QED BY <1>2, <1>3 DEF Doomed

\* So is the null extension of a row that a doomed row alone would pair with.
LEMMA DoomedNulls ==
  ASSUME request \in Requests, NEW k \in References, NEW l, NEW r, Doomed(l, k),
         \A c \in query.on[k] : Holds(c, Extend(l, r, k))
  PROVE  Doomed(Extend(Nulls(k), r, k), k + 1)
<1>1. PICK c \in Pending(k) : c.source \in 1..(k - 1) /\ ~Holds(c, l)
  BY DEF Doomed
<1>2. ~Holds(c, Extend(l, r, k)) /\ k \in Nat /\ c.source \in 1..((k + 1) - 1)
  BY <1>1, ExtendParts, ReferencesTyped
<1>3. c \in Pending(k + 1)
  <2>1. \A j \in References : j >= k => j >= k + 1 \/ j = k
    BY <1>2, ReferencesTyped
  <2> QED BY <1>1, <1>2, <2>1 DEF Pending
<1>4. ~Holds(c, Extend(Nulls(k), r, k))
  <2>1. Nulls(k)[c.source] = NullRow
    BY <1>1 DEF Nulls
  <2>2. ~Holds(c, Nulls(k))
    BY <2>1 DEF Holds
  <2> QED BY <1>1, <2>2, ExtendParts
<1> QED BY <1>2, <1>3, <1>4 DEF Doomed

-----------------------------------------------------------------------------
(* Allowed rows.                                                            *)

\* Every rule of every reference is enforced.
AllEnforced == \A i \in References : \A r \in Governing(i) : Enforced(i, r)

\* An allowed row meets every predicate made for its reference.
LEMMA AllowedMeets ==
  ASSUME request \in Requests, NEW k \in References, NEW row, AllowedRow(k, row), NEW c \in Own(k)
  PROVE  Meets(row, c)
<1>1. PICK q \in Applicable(k) : c = Predicate(k, q)
  BY DEF Own
<1>2. row[q.column] \in params[q.param].vals
  BY <1>1, ApplicableTyped DEF AllowedRow
<1>3. Accepting(c) = params[q.param].vals /\ c.column = q.column
  <2>1. CASE params[q.param].kind = "missing"
    BY <1>1, <2>1 DEF Predicate, Accepting
  <2>2. CASE params[q.param].kind # "missing"
    <3>1. c.form # "placeholder" /\ c.vals = params[q.param].vals /\ c.column = q.column
      BY <1>1, <2>2 DEF Predicate
    <3> QED BY <3>1 DEF Accepting
  <2> QED BY <2>1, <2>2
<1> QED BY <1>2, <1>3 DEF Meets

LEMMA AllowedIsWrapped ==
  ASSUME request \in Requests, Made, NEW k \in References, NEW rows
  PROVE  AllowedRows(k, rows) \subseteq WrappedRows(k, rows)
<1> SUFFICES ASSUME NEW row \in rows, AllowedRow(k, row), NEW c \in wrap[k]
             PROVE  row[c.column] \in Accepting(c)
  BY DEF AllowedRows, WrappedRows
<1> QED BY AllowedMeets DEF Made, Meets

\* A forbidden row that is not taken away by the wrap is rejected by the ON that
\* brings it in, or by a condition still to come, as is its null extension.
LEMMA ForbiddenIsRejected ==
  ASSUME TypeOK, WellPlaced, AllEnforced, NEW k \in References, NEW rows,
         NEW row \in WrappedRows(k, rows), ~AllowedRow(k, row)
  PROVE  \/ /\ JoinOf(k) \in {"inner", "left"}
            /\ \E c \in query.on[k] \cup on[k] : c.source = k /\ ~Meets(row, c)
         \/ \A l : Doomed(Extend(l, row, k), k + 1) /\ Doomed(Extend(l, NullRow, k), k + 1)
<1>1. request \in Requests /\ k \in Nat \ {0} /\ References \subseteq Nat /\ k \in 1..((k + 1) - 1)
  BY ReferencesTyped DEF TypeOK, References
<1>2. PICK q \in Governing(k) : row[q.column] \notin params[q.param].vals
  BY DEF AllowedRow
<1>3. PICK c \in Effective(k) : Filters(c, k, q)
  BY DEF AllEnforced, Enforced
<1>4. c.source = k /\ ~Meets(row, c)
  BY <1>2, <1>3 DEF Filters, Meets
<1>5. ASSUME c \in Pending(k + 1)
      PROVE  \A l : Doomed(Extend(l, row, k), k + 1) /\ Doomed(Extend(l, NullRow, k), k + 1)
  <2> TAKE l
  <2>1. ~Holds(c, Extend(l, row, k)) /\ ~Holds(c, Extend(l, NullRow, k))
    BY <1>1, <1>4, ExtendParts
  <2> QED BY <1>1, <1>4, <1>5, <2>1 DEF Doomed
<1>6. CASE c \in query.where \cup where
  BY <1>5, <1>6 DEF Pending
<1>7. CASE c \in wrap[k]
  BY <1>4, <1>7 DEF WrappedRows, Meets
<1>8. CASE \E j \in References : ~Preserves(j, k) /\ c \in query.on[j] \cup on[j]
  <2>1. PICK j \in References : ~Preserves(j, k) /\ c \in query.on[j] \cup on[j]
    BY <1>8
  <2>2. /\ JoinOf(j) \in {"from", "inner", "left", "right", "full"}
        /\ JoinOf(j) = "from" => query.on[j] = {}
        /\ j \in Nat
    BY <1>1, RequestTyped, ReferencesTyped DEF Source, JoinOf
  <2>3. CASE c \in on[j]
    <3>1. j = k /\ JoinOf(k) = "left"
      BY <1>4, <2>1, <2>3 DEF WellPlaced, JoinOf
    <3> QED BY <1>4, <2>3, <3>1
  <2>4. CASE c \in query.on[j]
    <3>1. k <= j /\ JoinOf(j) # "from"
      BY <1>1, <1>4, <2>2, <2>4, RequestTyped
    <3>2. CASE j = k
      BY <1>4, <2>1, <2>2, <2>4, <3>1, <3>2 DEF Preserves, JoinOf
    <3>3. CASE j # k
      <4>1. j >= k + 1 /\ Cuts(j)
        BY <1>1, <2>1, <2>2, <3>1, <3>3 DEF Preserves, Cuts, JoinOf
      <4>2. c \in Pending(k + 1)
        BY <2>4, <4>1 DEF Pending
      <4> QED BY <1>5, <4>2
    <3> QED BY <3>2, <3>3
  <2> QED BY <2>1, <2>3, <2>4
<1> QED BY <1>3, <1>6, <1>7, <1>8 DEF Effective

\* One join more: what the two relations agree on.
LEMMA JoinAgrees ==
  ASSUME TypeOK, Made, WellPlaced, AllEnforced, NEW k \in References, k # 1,
         NEW rows, NullRow \notin rows, NEW L, NEW M,
         \A x : ~Doomed(x, k) => (x \in L <=> x \in M),
         NEW y, ~Doomed(y, k + 1)
  PROVE  y \in JoinWith(k, L, WrappedRows(k, rows), query.on[k] \cup on[k])
           <=> y \in JoinWith(k, M, AllowedRows(k, rows), query.on[k])
<1> DEFINE W == WrappedRows(k, rows)
           A == AllowedRows(k, rows)
           both == query.on[k] \cup on[k]
           Run(l, r) == Paired(k, l, r, both)
           Ref(l, r) == Paired(k, l, r, query.on[k])
<1>1. request \in Requests /\ A \subseteq W /\ A \subseteq rows
  BY AllowedIsWrapped DEF TypeOK, AllowedRows
<1>2. JoinOf(k) \in {"inner", "left", "right", "full"}
  BY <1>1, RequestTyped, ReferencesTyped DEF Source, JoinOf
<1>3. \A l, r : Run(l, r) => Ref(l, r)
  BY DEF Paired
<1>4. ASSUME NEW l, NEW r \in A, Ref(l, r) PROVE Run(l, r)
  <2>1. \A c \in on[k] : c.source = k /\ Meets(r, c)
    BY <1>1, AllowedMeets, OwnSource DEF Made, AllowedRows
  <2>2. r # NullRow
    BY <1>1
  <2>3. \A c \in on[k] : Holds(c, Extend(l, r, k))
    BY <1>1, <2>1, <2>2, ExtendParts
  <2> QED BY <1>4, <2>3 DEF Paired
<1>5. ASSUME NEW r \in W, r \notin A, NEW l,
             ~Doomed(Extend(l, r, k), k + 1) \/ ~Doomed(Extend(l, NullRow, k), k + 1)
      PROVE  JoinOf(k) \in {"inner", "left"} /\ \A m : ~Run(m, r)
  <2>1. ~AllowedRow(k, r)
    BY <1>5 DEF AllowedRows, WrappedRows
  <2>2. /\ JoinOf(k) \in {"inner", "left"}
        /\ \E c \in query.on[k] \cup on[k] : c.source = k /\ ~Meets(r, c)
    BY <1>5, <2>1, ForbiddenIsRejected
  <2> QED BY <1>1, <2>2, ExtendParts DEF Paired
<1>6. ASSUME NEW l, NEW r, Ref(l, r), ~Doomed(Extend(l, r, k), k + 1) \/ ~Doomed(Extend(Nulls(k), r, k), k + 1)
      PROVE  l \in L <=> l \in M
  <2>1. ~Doomed(l, k)
    BY <1>1, <1>6, DoomedOn, DoomedNulls DEF Paired
  <2> QED BY <2>1
<1>7. ASSUME JoinOf(k) \in {"left", "full"}, NEW l, ~Doomed(Extend(l, NullRow, k), k + 1)
      PROVE  l \in L <=> l \in M
  <2>1. ~Doomed(l, k)
    BY <1>1, <1>7, DoomedOn DEF Cuts
  <2> QED BY <2>1
<1> DEFINE joined(S, T, P(_, _)) ==
             \/ \E l \in S, r \in T : P(l, r) /\ y = Extend(l, r, k)
             \/ /\ JoinOf(k) \in {"left", "full"}
                /\ \E l \in S : (\A r \in T : ~P(l, r)) /\ y = Extend(l, NullRow, k)
             \/ /\ JoinOf(k) \in {"right", "full"}
                /\ \E r \in T : (\A l \in S : ~P(l, r)) /\ y = Extend(Nulls(k), r, k)
<1>8. y \in JoinWith(k, L, W, both) <=> joined(L, W, Run)
  <2> HIDE DEF both, W
  <2> QED BY <1>1, JoinRows
<1>9. y \in JoinWith(k, M, A, query.on[k]) <=> joined(M, A, Ref)
  BY <1>1, JoinRows
<1> HIDE DEF W, A, Run, Ref
<1>10. ASSUME joined(L, W, Run) PROVE joined(M, A, Ref)
  <2>1. CASE \E l \in L, r \in W : Run(l, r) /\ y = Extend(l, r, k)
    <3>1. PICK l \in L, r \in W : Run(l, r) /\ y = Extend(l, r, k)
      BY <2>1
    <3>2. r \in A
      BY <1>5, <3>1
    <3>3. Ref(l, r) /\ l \in M
      BY <1>3, <1>6, <3>1
    <3> QED BY <3>1, <3>2, <3>3
  <2>2. CASE /\ JoinOf(k) \in {"left", "full"}
             /\ \E l \in L : (\A r \in W : ~Run(l, r)) /\ y = Extend(l, NullRow, k)
    <3>1. PICK l \in L : (\A r \in W : ~Run(l, r)) /\ y = Extend(l, NullRow, k)
      BY <2>2
    <3>2. l \in M
      BY <1>7, <2>2, <3>1
    <3>3. \A r \in A : ~Ref(l, r)
      BY <1>1, <1>4, <3>1
    <3> QED BY <2>2, <3>1, <3>2, <3>3
  <2>3. CASE /\ JoinOf(k) \in {"right", "full"}
             /\ \E r \in W : (\A l \in L : ~Run(l, r)) /\ y = Extend(Nulls(k), r, k)
    <3>1. PICK r \in W : (\A l \in L : ~Run(l, r)) /\ y = Extend(Nulls(k), r, k)
      BY <2>3
    <3>2. r \in A
      BY <1>5, <2>3, <3>1
    <3>3. \A l \in M : ~Ref(l, r)
      BY <1>4, <1>6, <3>1, <3>2
    <3> QED BY <2>3, <3>1, <3>2, <3>3
  <2> QED BY <1>10, <2>1, <2>2, <2>3
<1>11. ASSUME joined(M, A, Ref) PROVE joined(L, W, Run)
  <2>1. CASE \E l \in M, r \in A : Ref(l, r) /\ y = Extend(l, r, k)
    <3>1. PICK l \in M, r \in A : Ref(l, r) /\ y = Extend(l, r, k)
      BY <2>1
    <3>2. r \in W /\ Run(l, r) /\ l \in L
      BY <1>1, <1>4, <1>6, <3>1
    <3> QED BY <3>1, <3>2
  <2>2. CASE /\ JoinOf(k) \in {"left", "full"}
             /\ \E l \in M : (\A r \in A : ~Ref(l, r)) /\ y = Extend(l, NullRow, k)
    <3>1. PICK l \in M : (\A r \in A : ~Ref(l, r)) /\ y = Extend(l, NullRow, k)
      BY <2>2
    <3>2. l \in L
      BY <1>7, <2>2, <3>1
    <3>3. \A r \in W : ~Run(l, r)
      BY <1>3, <1>5, <3>1
    <3> QED BY <2>2, <3>1, <3>2, <3>3
  <2>3. CASE /\ JoinOf(k) \in {"right", "full"}
             /\ \E r \in A : (\A l \in M : ~Ref(l, r)) /\ y = Extend(Nulls(k), r, k)
    <3>1. PICK r \in A : (\A l \in M : ~Ref(l, r)) /\ y = Extend(Nulls(k), r, k)
      BY <2>3
    <3>2. \A l \in L : ~Run(l, r)
      BY <1>3, <1>6, <3>1
    <3> QED BY <1>1, <2>3, <3>1, <3>2
  <2> QED BY <1>11, <2>1, <2>2, <2>3
<1> QED BY <1>8, <1>9, <1>10, <1>11 DEF W, A

\* and what the reference run shows.
LEMMA JoinShown ==
  ASSUME TypeOK, WherePlaced, \A i \in References : ~NulledBeforeWhere(i),
         NEW k \in References, k # 1, NEW rows, NullRow \notin rows, NEW M,
         \A x \in M : Shown(x, k),
         NEW y \in JoinWith(k, M, AllowedRows(k, rows), query.on[k])
  PROVE  Shown(y, k + 1)
<1>1. request \in Requests /\ k \in Nat \ {0} /\ References = 1..Len(query.sources)
  BY ReferencesTyped DEF TypeOK, References
<1>2. PICK l, r :
        /\ y = Extend(l, r, k)
        /\ \/ l \in M
           \/ l = Nulls(k) /\ JoinOf(k) \in {"right", "full"}
        /\ \/ r \in AllowedRows(k, rows)
           \/ r = NullRow /\ JoinOf(k) \in {"left", "full"}
  BY <1>1, JoinRows
<1>3. y[k] = r /\ \A i \in 1..(k - 1) : y[i] = l[i]
  BY <1>1, <1>2, ExtendParts
<1> SUFFICES ASSUME NEW i \in 1..k
             PROVE  ShowsAllowed(y, i) /\ (FilteredAtWhere(i) => y[i] # NullRow)
  BY <1>1 DEF Shown
<1>4. CASE i = k
  <2>1. FilteredAtWhere(k) => JoinOf(k) \notin {"left", "full"}
    BY DEF WherePlaced
  <2>2. r \in AllowedRows(k, rows) => AllowedRow(k, r) /\ r # NullRow
    BY DEF AllowedRows
  <2> QED BY <1>2, <1>3, <1>4, <2>1, <2>2 DEF ShowsAllowed
<1>5. CASE i # k
  <2>1. i \in 1..(k - 1) /\ i \in References /\ y[i] = l[i] /\ k > i
    BY <1>1, <1>3, <1>5, ReferencesTyped
  <2>2. CASE l \in M
    BY <2>1, <2>2 DEF Shown, ShowsAllowed
  <2>3. CASE l = Nulls(k) /\ JoinOf(k) \in {"right", "full"}
    <3>1. y[i] = NullRow
      BY <2>1, <2>3 DEF Nulls
    <3>2. ~FilteredAtWhere(i)
      BY <2>1, <2>3 DEF NulledBeforeWhere, FilteredAtWhere, JoinOf
    <3> QED BY <3>1, <3>2 DEF ShowsAllowed
  <2> QED BY <1>2, <2>2, <2>3
<1> QED BY <1>4, <1>5

-----------------------------------------------------------------------------
(* The invariant.                                                           *)

LEMMA WherePlacedStep ==
  ASSUME TypeOK, Made, WherePlaced, [Next]_vars
  PROVE  WherePlaced'
<1> USE DEF injected, execution, Kept
<1>1. CASE UNCHANGED <<request, where>>
  BY <1>1, SameRequest DEF WherePlaced, FilteredAtWhere, JoinOf
<1>2. CASE Inject
  <2>1. PICK i \in References, preds \in SUBSET Conjunct : InjectedAt(i, preds)
    BY <1>2, InjectEffect
  <2>2. request' = request /\ request \in Requests /\ References' = References /\ query' = query
    BY <1>2, SameRequest DEF Inject, TypeOK
  <2>3. CASE UNCHANGED where
    BY <1>1, <2>2, <2>3
  <2>4. CASE where' = where \cup preds /\ PlaceFor(i) = "where"
    <3>1. JoinOf(i) \in {"from", "inner"}
      <4>1. JoinOf(i) \in {"from", "inner", "left", "right", "full"}
        BY <2>2, ReferencesTyped DEF Source, JoinOf
      <4> QED BY <2>4, <4>1 DEF PlaceFor, Placement, JoinOf
    <3>2. \A c \in preds : c.source = i
      <4>1. injections \in Seq(Entries) /\ injections # << >>
        BY <1>2, InjectEffect
      <4>2. injections[1] = <<i, preds>> /\ 1 \in 1..Len(injections)
        BY <2>1, <4>1, TailQueue DEF InjectedAt
      <4>3. preds \subseteq Own(i)
        BY <4>2 DEF Made
      <4> QED BY <2>2, <4>3, OwnSource
    <3> QED BY <2>2, <2>4, <3>1, <3>2 DEF WherePlaced, FilteredAtWhere, JoinOf
  <2> QED BY <2>1, <2>3, <2>4 DEF InjectedAt
<1>3. ASSUME [Next]_vars, ~Inject PROVE UNCHANGED <<request, where>>
  BY <1>3 DEF Next, vars, ScanReference, EndScan, Return, Revalidate, Execute, JoinSource, FilterWhere
<1> QED BY <1>1, <1>2, <1>3

\* An accepted statement that runs enforces every rule it does not misread.
LEMMA RunEnforces ==
  ASSUME Placed, NothingMisread, pc \in {"returned", "execute", "done"}, Accepted
  PROVE  AllEnforced
<1>1. injections = << >>
  BY DEF Placed, Staged
<1>2. \A i, r : ~Queued(i, r)
  BY <1>1 DEF Queued
<1>3. \A i \in References : \A r \in Governing(i) : Due(i, r)
  BY DEF Placed, AllDue
<1> QED BY <1>2, <1>3 DEF Due, AllEnforced, NothingMisread

\* Definitions that depend on the request and the places alone.
LEMMA SameComparison ==
  ASSUME Kept
  PROVE  /\ Comparable' = Comparable /\ References' = References /\ query' = query
         /\ \A x, n : Doomed(x, n)' = Doomed(x, n)
         /\ \A x, n : Shown(x, n)' = Shown(x, n)
         /\ \A c, x : Holds(c, x)' = Holds(c, x)
<1>1. References' = References /\ query' = query /\ params' = params
  BY SameRequest DEF Kept
<1>2. \A c, x : Holds(c, x)' = Holds(c, x)
  BY <1>1 DEF Holds, Accepting
<1>3. \A n : Pending(n)' = Pending(n)
  BY <1>1 DEF Pending, Cuts, JoinOf, Kept
<1>4. \A x, n : Doomed(x, n)' = Doomed(x, n)
  BY <1>2, <1>3 DEF Doomed
<1>5. \A i : FilteredAtWhere(i)' = FilteredAtWhere(i) /\ NulledBeforeWhere(i)' = NulledBeforeWhere(i)
  BY <1>1 DEF FilteredAtWhere, NulledBeforeWhere, Kept
<1>6. \A x, i : ShowsAllowed(x, i)' = ShowsAllowed(x, i)
  BY <1>1, SameRequest DEF ShowsAllowed, AllowedRow, Kept
<1>7. \A x, n : Shown(x, n)' = Shown(x, n)
  BY <1>5, <1>6 DEF Shown
<1>8. NothingMisread' = NothingMisread
  BY <1>1, SameRequest DEF NothingMisread, Kept
<1> QED BY <1>1, <1>2, <1>4, <1>5, <1>7, <1>8 DEF Comparable

LEMMA StartCompares ==
  ASSUME TypeOK, Placed, Made, WherePlaced, Execute
  PROVE  Comparing'
<1>1. /\ Kept /\ pc' = "execute" /\ next' = 2 /\ pc = "returned" /\ Accepted
      /\ request \in Requests /\ WellPlaced /\ 1 \in References
  BY ReferencesTyped DEF Execute, Kept, injected, TypeOK, Placed, References
<1>2. PICK contents \in Databases :
        /\ db' = contents
        /\ rel' = {[j \in {1} |-> row] : row \in WrappedRows(1, contents[TableOf(1)])}
        /\ ref' = {[j \in {1} |-> row] : row \in AllowedRows(1, contents[TableOf(1)])}
  BY DEF Execute
<1> DEFINE rows == contents[TableOf(1)]
<1>3. TableOf(1) \in Tables
  BY <1>1, ReferencesTyped DEF TableOf, Source
<1>4. NullRow \notin rows /\ \A t \in Tables : NullRow \notin db'[t]
  BY <1>2, <1>3, DatabasesAssumption
<1> HIDE DEF rows
<1>5. ASSUME Comparable, NEW x, ~Doomed(x, 2) PROVE x \in rel' <=> x \in ref'
  <2>1. AllowedRows(1, rows) \subseteq WrappedRows(1, rows)
    BY <1>1, AllowedIsWrapped
  <2>2. ASSUME NEW row \in WrappedRows(1, rows), x = [j \in {1} |-> row]
        PROVE  row \in AllowedRows(1, rows)
    <3>1. x = Extend(x, row, 1)
      BY <2>2 DEF Extend
    <3>2. JoinOf(1) = "from" /\ AllEnforced
      BY <1>1, <1>5, RequestTyped, RunEnforces DEF JoinOf, Comparable
    <3>3. 1 + 1 = 2
      OBVIOUS
    <3>4. AllowedRow(1, row)
      BY <1>1, <1>5, <3>1, <3>2, <3>3, ForbiddenIsRejected
    <3> QED BY <2>2, <3>4 DEF AllowedRows, WrappedRows
  <2> QED BY <1>2, <2>1, <2>2 DEF rows
<1>6. ASSUME NEW x \in ref' PROVE Shown(x, 2)
  <2>1. PICK row \in AllowedRows(1, rows) : x = [j \in {1} |-> row]
    BY <1>2 DEF rows
  <2>2. AllowedRow(1, row) /\ row # NullRow /\ x[1] = row
    BY <1>4, <2>1 DEF AllowedRows
  <2>3. \A i \in 1..(2 - 1) : i = 1
    OBVIOUS
  <2> QED BY <2>2, <2>3 DEF Shown, ShowsAllowed
<1>7. Comparable => \A x : ~Doomed(x, 2)' => (x \in rel' <=> x \in ref')
  BY <1>1, <1>5, SameComparison
<1>8. \A x \in ref' : Shown(x, 2)'
  BY <1>1, <1>6, SameComparison
<1> SUFFICES ASSUME Comparable'
             PROVE  /\ next' >= 2 /\ \A t \in Tables : NullRow \notin db'[t]
                    /\ \A n : n = next' => Agree(n)' /\ \A x \in ref' : Shown(x, n)'
  BY DEF Comparing
<1>9. Comparable
  BY <1>1, SameComparison
<1>10. Agree(2)'
  BY <1>7, <1>9 DEF Agree
<1>11. next' >= 2
  BY <1>1
<1>12. ASSUME NEW n, n = next' PROVE Agree(n)' /\ \A x \in ref' : Shown(x, n)'
  <2>1. n = 2
    BY <1>1, <1>12
  <2> QED BY <2>1, <1>8, <1>10
<1> QED BY <1>4, <1>11, <1>12

LEMMA JoinCompares ==
  ASSUME TypeOK, Placed, Made, WherePlaced, Comparing, JoinSource
  PROVE  Comparing'
<1> DEFINE rows == db[TableOf(next)]
           run == query.on[next] \cup on[next]
<1>1. /\ Kept /\ pc = "execute" /\ pc' = "execute" /\ next' = next + 1 /\ next \in References
      /\ db' = db /\ request \in Requests /\ WellPlaced /\ Accepted /\ next \in Nat
      /\ rel' = JoinWith(next, rel, WrappedRows(next, rows), run)
      /\ ref' = JoinWith(next, ref, AllowedRows(next, rows), query.on[next])
  BY ReferencesTyped DEF JoinSource, Kept, injected, TypeOK, Placed, Staged
<1>2. TableOf(next) \in Tables
  BY <1>1, ReferencesTyped DEF TableOf, Source
<1> SUFFICES ASSUME Comparable
             PROVE  /\ next + 1 >= 2 /\ \A t \in Tables : NullRow \notin db[t]
                    /\ \A x : ~Doomed(x, next + 1) => (x \in rel' <=> x \in ref')
                    /\ \A x \in ref' : Shown(x, next + 1)
  <2>1. Comparable' = Comparable
    BY <1>1, SameComparison
  <2> HIDE DEF rows, run
  <2>2. \A x, n : Doomed(x, n)' = Doomed(x, n) /\ Shown(x, n)' = Shown(x, n)
    BY <1>1, SameComparison
  <2> QED BY <1>1, <2>1, <2>2 DEF Comparing, Agree
<1>3. /\ next >= 2 /\ \A t \in Tables : NullRow \notin db[t]
      /\ Agree(next) /\ \A x \in ref : Shown(x, next)
  BY <1>1 DEF Comparing
<1>4. NullRow \notin rows /\ next # 1 /\ AllEnforced /\ \A i \in References : ~NulledBeforeWhere(i)
  BY <1>1, <1>2, <1>3, RunEnforces DEF Comparable
<1>5. ASSUME NEW x, ~Doomed(x, next + 1) PROVE x \in rel' <=> x \in ref'
  <2>1. \A z : ~Doomed(z, next) => (z \in rel <=> z \in ref)
    BY <1>3 DEF Agree
  <2> HIDE DEF rows
  <2> QED BY <1>1, <1>4, <1>5, <2>1, JoinAgrees
<1>6. ASSUME NEW x \in ref' PROVE Shown(x, next + 1)
  <2> HIDE DEF rows
  <2> QED BY <1>1, <1>3, <1>4, <1>6, JoinShown
<1>7. next + 1 >= 2
  BY <1>1, <1>3
<1>8. \A x : ~Doomed(x, next + 1) => (x \in rel' <=> x \in ref')
  BY <1>5
<1>9. \A x \in ref' : Shown(x, next + 1)
  BY <1>6
<1> QED BY <1>3, <1>7, <1>8, <1>9, Zenon

\* After the last join the WHERE is all that is pending.
LEMMA WhereCompares ==
  ASSUME TypeOK, Placed, Made, Comparing, FilterWhere
  PROVE  FilteredAsReference'
<1>1. /\ Kept /\ pc = "execute" /\ next \notin References /\ request \in Requests
      /\ next \in 1..(Len(query.sources) + 1) /\ Len(query.sources) \in Nat
      /\ rel' = {x \in rel : \A c \in query.where \cup where : Holds(c, x)}
      /\ ref' = {x \in ref : \A c \in query.where : Holds(c, x)}
  BY ReferencesTyped DEF FilterWhere, Kept, injected, TypeOK
<1> SUFFICES ASSUME Comparable PROVE rel' = ref'
  <2>1. Comparable' = Comparable
    BY <1>1, SameComparison
  <2> QED BY <2>1 DEF FilteredAsReference, Comparable
<1>2. Agree(next) /\ \A x \in ref : Shown(x, next)
  BY <1>1 DEF Comparing
<1>3. References = 1..(next - 1) /\ \A j \in References : ~(j >= next)
  BY <1>1 DEF References
<1>4. Pending(next) = query.where \cup where
  BY <1>3 DEF Pending
<1>5. ASSUME NEW x \in ref, NEW c \in where PROVE Holds(c, x)
  <2>1. PICK j \in References : c \in Own(j)
    BY DEF Made
  <2>2. c.source = j /\ FilteredAtWhere(j)
    BY <1>1, <2>1, OwnSource DEF FilteredAtWhere
  <2>3. x[j] # NullRow /\ AllowedRow(j, x[j])
    BY <1>2, <1>3, <2>2 DEF Shown, ShowsAllowed
  <2>4. Meets(x[j], c)
    BY <1>1, <2>1, <2>3, AllowedMeets
  <2> QED BY <2>2, <2>3, <2>4 DEF Holds, Meets
<1>6. ASSUME NEW x, \A c \in query.where \cup where : Holds(c, x)
      PROVE  x \in rel <=> x \in ref
  <2>1. ~Doomed(x, next)
    BY <1>4, <1>6 DEF Doomed
  <2> QED BY <1>2, <2>1 DEF Agree
<1> QED BY <1>1, <1>5, <1>6

LEMMA CompareStep ==
  ASSUME TypeOK, Placed, Made, WherePlaced, Comparing, FilteredAsReference, [Next]_vars
  PROVE  Comparing' /\ FilteredAsReference'
<1>1. CASE Execute
  <2>1. pc' # "done"
    BY <1>1 DEF Execute
  <2> QED BY <1>1, <2>1, StartCompares DEF FilteredAsReference
<1>2. CASE JoinSource
  <2>1. pc' # "done"
    BY <1>2 DEF JoinSource
  <2> QED BY <1>2, <2>1, JoinCompares DEF FilteredAsReference
<1>3. CASE FilterWhere
  <2>1. pc' # "execute"
    BY <1>3 DEF FilterWhere
  <2> QED BY <1>3, <2>1, WhereCompares DEF Comparing
<1>4. CASE UNCHANGED vars
  <2>1. Kept /\ UNCHANGED <<pc, next, db, rel, ref>>
    BY <1>4 DEF vars, Kept
  <2>2. \A n : Agree(n)' = Agree(n)
    BY <2>1, SameComparison DEF Agree
  <2>3. Comparing' = Comparing
    BY <2>1, <2>2, SameComparison DEF Comparing
  <2>4. FilteredAsReference' = FilteredAsReference
    BY <2>1, SameComparison DEF FilteredAsReference, Comparable
  <2> QED BY <2>3, <2>4
<1>5. CASE ScanReference \/ EndScan \/ Inject \/ Return \/ Revalidate
  <2>1. pc' \notin {"execute", "done"}
    BY <1>5, InjectEffect DEF ScanReference, EndScan, Inject, Return, Revalidate
  <2> QED BY <2>1 DEF Comparing, FilteredAsReference
<1> QED BY <1>1, <1>2, <1>3, <1>4, <1>5 DEF Next

\* Whatever the joins, the rules, the strategy and the tables: the returned
\* statement has the result of the written one on the allowed rows.
THEOREM FilteredAsReferenceAlways == Spec => []FilteredAsReference
<1>1. Init => Stable /\ WherePlaced /\ Comparing /\ FilteredAsReference
  BY StableInit DEF Init, WherePlaced, FilteredAtWhere, Comparing, FilteredAsReference
<1>2. TypeOK /\ Placed /\ Stable /\ WherePlaced /\ Comparing /\ FilteredAsReference /\ [Next]_vars
        => Stable' /\ WherePlaced' /\ Comparing' /\ FilteredAsReference'
  BY StableStep, WherePlacedStep, CompareStep DEF Stable
<1> QED BY <1>1, <1>2, TypeCorrect, PlacedAlways, PTL DEF Spec
=============================================================================
