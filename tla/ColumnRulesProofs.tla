------------------------- MODULE ColumnRulesProofs -------------------------
(* Type correctness and what the column rules promise, for all policies,    *)
(* statements and databases.                                                *)
EXTENDS ColumnRules, DataInduction

\* Item lists refer to sources of their scope and are whole until the drop pass.
Listed(i) ==
  /\ DOMAIN items[i] \subseteq Nat
  /\ \A p \in DOMAIN items[i] : /\ items[i][p] \in Item
                                /\ items[i][p].ref.source \in DOMAIN scopes[i].sources
ListsOK ==
  /\ request \in Requests
  /\ next \in ScopeIds
  /\ DOMAIN items = ScopeIds
  /\ \A i \in ScopeIds : Listed(i)
  /\ pc = "qualify" => \A i \in ScopeIds : items[i] \in Seq(Item)

-----------------------------------------------------------------------------
(* Statements.                                                              *)

LEMMA StatementFacts ==
  ASSUME request \in Requests
  PROVE  /\ rules \subseteq Rule /\ Statement(scopes)
         /\ scopes \in Seq(Scope) /\ Root \in Nat \ {0} /\ ScopeIds = 1..Root /\ Root \in ScopeIds
<1>1. rules \subseteq Rule /\ Statement(scopes)
  BY RequestsAssumption DEF rules, scopes
<1>2. scopes \in Seq(Scope) /\ scopes # << >>
  BY <1>1 DEF Statement
<1> QED BY <1>1, <1>2 DEF Root, ScopeIds

LEMMA ScopeFacts ==
  ASSUME request \in Requests, NEW i \in ScopeIds
  PROVE  /\ scopes[i] \in Scope /\ i \in Nat \ {0}
         /\ DOMAIN scopes[i].sources = 1..Len(scopes[i].sources)
         /\ Len(scopes[i].sources) \in {1, 2}
         /\ \A k \in DOMAIN scopes[i].sources :
              scopes[i].sources[k] \in Source /\ scopes[i].sources[k].scope < i
         /\ scopes[i].filter \subseteq Reference /\ scopes[i].items \in Seq(Item)
         /\ \A ref \in Written(i) : ref.source \in DOMAIN scopes[i].sources
<1>1. Statement(scopes) /\ scopes \in Seq(Scope) /\ ScopeIds = 1..Root /\ Root \in Nat
  BY StatementFacts
<1>2. scopes[i] \in Scope /\ i \in Nat \ {0} /\ i \in DOMAIN scopes
  BY <1>1 DEF ScopeIds
<1>3. /\ Len(scopes[i].sources) \in {1, 2}
      /\ \A k \in DOMAIN scopes[i].sources : scopes[i].sources[k].scope < i
      /\ \A ref \in ReferencesIn(scopes[i]) : ref.source \in DOMAIN scopes[i].sources
  BY <1>1, <1>2 DEF Statement
<1>4. scopes[i].sources \in Seq(Source) /\ scopes[i].filter \subseteq Reference
      /\ scopes[i].items \in Seq(Item)
  BY <1>2 DEF Scope
<1> QED BY <1>2, <1>3, <1>4 DEF Written

\* A derived source is an earlier scope.
LEMMA SourceFacts ==
  ASSUME request \in Requests, NEW i \in ScopeIds, NEW k \in DOMAIN scopes[i].sources
  PROVE  LET s == scopes[i].sources[k]
         IN  \/ s.scope = 0 /\ s.table \in Tables
             \/ s.scope \in ScopeIds /\ s.scope < i /\ s.table = ""
<1> DEFINE s == scopes[i].sources[k]
<1>1. s \in Source /\ s.scope < i /\ i \in Nat /\ ScopeIds = 1..Root /\ Root \in Nat /\ i \in 1..Root
  BY ScopeFacts, StatementFacts
<1>2. CASE s \in [table : Tables, scope : {0}]
  BY <1>2
<1>3. CASE s \in [table : {""}, scope : Nat \ {0}]
  <2>1. s.scope \in Nat \ {0} /\ s.table = ""
    BY <1>3
  <2>2. ASSUME NEW n \in Nat \ {0}, n < i PROVE n \in ScopeIds
    BY <1>1, <2>2
  <2>3. s.scope \in ScopeIds
    BY <2>1, <2>2, <1>1
  <2> QED BY <2>1, <2>3, <1>1, Zenon
<1>4. s \in [table : Tables, scope : {0}] \/ s \in [table : {""}, scope : Nat \ {0}]
  BY <1>1 DEF Source
<1> QED BY <1>2, <1>3, <1>4, Zenon

LEMMA SetOperationFacts ==
  ASSUME request \in Requests, NEW i \in ScopeIds, ~IsSelect(i)
  PROVE  /\ DOMAIN scopes[i].sources = {1, 2}
         /\ ~scopes[i].star /\ scopes[i].items = << >> /\ scopes[i].filter = {}
         /\ \A k \in {1, 2} : /\ Operand(i, k) \in ScopeIds /\ Operand(i, k) < i
                              /\ IsSelect(Operand(i, k))
<1>1. Statement(scopes) /\ i \in DOMAIN scopes
  BY StatementFacts DEF ScopeIds
<1>2. /\ Len(scopes[i].sources) = 2
      /\ ~scopes[i].star /\ scopes[i].items = << >> /\ scopes[i].filter = {}
      /\ \A k \in {1, 2} : scopes[i].sources[k].scope # 0
                           /\ scopes[scopes[i].sources[k].scope].op = "select"
  BY <1>1 DEF Statement, IsSelect
<1>3. DOMAIN scopes[i].sources = {1, 2}
  BY <1>2, ScopeFacts, 1..2 = {1, 2}
<1>4. ASSUME NEW k \in {1, 2} PROVE Operand(i, k) \in ScopeIds /\ Operand(i, k) < i /\ IsSelect(Operand(i, k))
  <2>1. scopes[i].sources[k].scope \in ScopeIds /\ scopes[i].sources[k].scope < i
    BY <1>2, <1>3, SourceFacts
  <2> QED BY <2>1, <1>2 DEF Operand, IsSelect
<1> QED BY <1>2, <1>3, <1>4

LEMMA ListOfFacts ==
  ASSUME request \in Requests, NEW i \in ScopeIds
  PROVE  ListOf(i) \in ScopeIds /\ ListOf(i) <= i /\ IsSelect(ListOf(i))
<1>1. CASE IsSelect(i)
  BY <1>1, ScopeFacts DEF ListOf
<1>2. CASE ~IsSelect(i)
  <2>1. ListOf(i) = Operand(i, 1)
    BY <1>2 DEF ListOf, Operand
  <2> QED BY <2>1, <1>2, SetOperationFacts, ScopeFacts
<1> QED BY <1>1, <1>2

-----------------------------------------------------------------------------
(* Positions and lineage.                                                   *)

LEMMA FirstIsOne ==
  ASSUME NEW P, P \subseteq Nat, P # {} PROVE First(P) \in P /\ \A q \in P : First(P) <= q
<1>1. \E p \in P : \A q \in P : p <= q
  BY LeastNumber
<1> QED BY <1>1 DEF First

\* The positions of a name in a source.
LEMMA PositionFacts ==
  ASSUME ListsOK, NEW i \in ScopeIds, NEW k \in DOMAIN scopes[i].sources, NEW name
  PROVE  LET s == scopes[i].sources[k]
             P == Positions(s, name)
         IN  /\ P \subseteq Nat
             /\ s.scope = 0 => P \subseteq DOMAIN ColumnsOf[s.table]
                               /\ \A p \in P : ColumnsOf[s.table][p] = name
             /\ s.scope # 0 => /\ ListOf(s.scope) \in ScopeIds /\ ListOf(s.scope) < i
                               /\ P \subseteq DOMAIN items[ListOf(s.scope)]
                               /\ \A p \in P : items[ListOf(s.scope)][p].name = name
<1> DEFINE s == scopes[i].sources[k]
           P == Positions(s, name)
<1>0. request \in Requests
  BY DEF ListsOK
<1>1. CASE s.scope = 0
  <2>1. s.table \in Tables
    BY <1>0, <1>1, SourceFacts, ScopeFacts
  <2>2. ColumnsOf[s.table] \in Seq(Names)
    BY <2>1, TablesAssumption
  <2>3. NamesOf(s) = ColumnsOf[s.table]
    BY <1>1 DEF NamesOf
  <2>4. DOMAIN ColumnsOf[s.table] \subseteq Nat
    BY <2>2
  <2> QED BY <1>1, <2>3, <2>4 DEF Positions
<1>2. CASE s.scope # 0
  <2>1. s.scope \in ScopeIds /\ s.scope < i
    BY <1>0, <1>2, SourceFacts
  <2>2. ListOf(s.scope) \in ScopeIds /\ ListOf(s.scope) <= s.scope
    BY <1>0, <2>1, ListOfFacts
  <2>3. ListOf(s.scope) < i
    BY <2>1, <2>2, <1>0, ScopeFacts
  <2>4. NamesOf(s) = [p \in DOMAIN items[ListOf(s.scope)] |-> items[ListOf(s.scope)][p].name]
    BY <1>2 DEF NamesOf
  <2>5. DOMAIN items[ListOf(s.scope)] \subseteq Nat
    BY <2>2 DEF ListsOK, Listed
  <2>6. P = {p \in DOMAIN items[ListOf(s.scope)] : items[ListOf(s.scope)][p].name = name}
    BY <2>4 DEF Positions
  <2> HIDE DEF P
  <2> QED BY <1>2, <2>2, <2>3, <2>5, <2>6 DEF P
<1> QED BY <1>1, <1>2

\* Lineage within a set that following does not leave.
LEMMA LineageSteps ==
  ASSUME NEW X, NEW at \in X, \A x \in X : Follow(x) \in X
  PROVE  /\ Lineage(at) \in [Nat -> X] /\ Lineage(at)[0] = at
         /\ \A n \in Nat : Lineage(at)[n + 1] = Follow(Lineage(at)[n])
<1> DEFINE step == [x \in X |-> Follow(x)]
<1>1. PICK f \in [Nat -> X] : f[0] = at /\ \A n \in Nat : f[n + 1] = step[f[n]]
  <2>1. step \in [X -> X]
    OBVIOUS
  <2> HIDE DEF step
  <2> QED BY <2>1, IterationExists
<1>2. f = [n \in Nat |-> IF n = 0 THEN at ELSE Follow(f[n - 1])]
  <2>1. ASSUME NEW n \in Nat PROVE f[n] = IF n = 0 THEN at ELSE Follow(f[n - 1])
    <3>1. CASE n # 0
      <4>1. n - 1 \in Nat /\ (n - 1) + 1 = n
        BY <3>1
      <4>2. f[n] = step[f[n - 1]] /\ f[n - 1] \in X
        BY <4>1, <1>1
      <4> QED BY <3>1, <4>2
    <3> QED BY <3>1, <1>1
  <2>2. f = [n \in Nat |-> f[n]]
    BY <1>1
  <2> QED BY <2>1, <2>2
<1>3. Lineage(at) = [n \in Nat |-> IF n = 0 THEN at ELSE Follow(Lineage(at)[n - 1])]
  BY <1>2 DEF Lineage
<1>4. Lineage(at)[0] = at /\ \A n \in Nat : Lineage(at)[n + 1] = Follow(Lineage(at)[n])
  <2>1. ASSUME NEW n \in Nat PROVE n + 1 \in Nat /\ n + 1 # 0 /\ (n + 1) - 1 = n
    OBVIOUS
  <2>2. 0 \in Nat
    OBVIOUS
  <2> QED BY <1>3, <2>1, <2>2
<1>5. Nat \subseteq {n \in Nat : Lineage(at)[n] \in X}
  <2> DEFINE S == {n \in Nat : Lineage(at)[n] \in X}
  <2>1. 0 \in S
    BY <1>4
  <2>2. ASSUME NEW n \in Nat, n \in S PROVE n + 1 \in S
    BY <1>4, <2>2
  <2> HIDE DEF S
  <2>3. Nat \subseteq S
    BY <2>1, <2>2, AllNumbersByStep
  <2> QED BY <2>3 DEF S
<1>6. Lineage(at) = [n \in Nat |-> Lineage(at)[n]]
  BY <1>3
<1>7. Lineage(at) \in [Nat -> X]
  BY <1>5, <1>6
<1> QED BY <1>4, <1>7

-----------------------------------------------------------------------------
(* The lists stay typed.                                                    *)

\* What qualify() knows of a source are names in order.
LEMMA NamesTyped ==
  ASSUME ListsOK, pc = "qualify", NEW i \in ScopeIds, NEW k \in DOMAIN scopes[i].sources
  PROVE  NamesOf(scopes[i].sources[k]) \in Seq(Names)
<1> DEFINE s == scopes[i].sources[k]
<1>0. request \in Requests
  BY DEF ListsOK
<1>1. CASE s.scope = 0
  <2>1. s.table \in Tables
    BY <1>0, <1>1, SourceFacts, ScopeFacts
  <2> QED BY <1>1, <2>1, TablesAssumption DEF NamesOf
<1>2. CASE s.scope # 0
  <2>1. s.scope \in ScopeIds
    BY <1>0, <1>2, SourceFacts
  <2> DEFINE l == items[ListOf(s.scope)]
  <2>2. l \in Seq(Item)
    BY <1>0, <2>1, ListOfFacts DEF ListsOK
  <2>3. NamesOf(s) = [p \in DOMAIN l |-> l[p].name]
    BY <1>2 DEF NamesOf
  <2> HIDE DEF l
  <2>4. [p \in DOMAIN l |-> l[p].name] \in Seq(Names)
    <3>1. DOMAIN l = 1..Len(l) /\ Len(l) \in Nat
      BY <2>2
    <3>2. ASSUME NEW p \in DOMAIN l PROVE l[p].name \in Names
      <4>1. l[p] \in Item
        BY <2>2
      <4> QED BY <4>1 DEF Item
    <3> QED BY <3>1, <3>2
  <2> QED BY <2>3, <2>4
<1> QED BY <1>1, <1>2

\* An item of an expanded list stands for a column of a source of the scope: a
\* plain one, by the star, or one the author refers to.
ListFor(i, list) ==
  \A p \in DOMAIN list :
    /\ list[p] \in Item
    /\ list[p].ref.source \in DOMAIN scopes[i].sources
    /\ \/ scopes[i].star /\ list[p].plain /\ list[p].name = list[p].ref.column
       \/ \E j \in DOMAIN scopes[i].items : list[p] = scopes[i].items[j]

LEMMA StarTyped ==
  ASSUME ListsOK, pc = "qualify", NEW i \in ScopeIds, scopes[i].star
  PROVE  /\ StarItems(i) \in Seq(Item) /\ ListFor(i, StarItems(i))
         /\ \A p \in DOMAIN StarItems(i) : Resolves(i, StarItems(i)[p].ref)
<1> DEFINE of(k) == LET s == scopes[i].sources[k]
                    IN  [p \in 1..Len(NamesOf(s)) |->
                           [name |-> NamesOf(s)[p], plain |-> TRUE,
                            ref |-> [source |-> k, column |-> NamesOf(s)[p]]]]
           Made(k, it) == /\ it \in Item /\ it.ref.source = k /\ it.plain
                          /\ it.name = it.ref.column /\ Resolves(i, it.ref)
<1>0. request \in Requests
  BY DEF ListsOK
<1>1. ASSUME NEW k \in DOMAIN scopes[i].sources
      PROVE  of(k) \in Seq(Item) /\ \A p \in DOMAIN of(k) : Made(k, of(k)[p])
  <2> DEFINE names == NamesOf(scopes[i].sources[k])
  <2>1. names \in Seq(Names)
    BY NamesTyped
  <2>2. k \in {1, 2}
    BY <1>0, ScopeFacts
  <2>3. of(k) = [p \in 1..Len(names) |->
                   [name |-> names[p], plain |-> TRUE, ref |-> [source |-> k, column |-> names[p]]]]
    OBVIOUS
  <2> HIDE DEF names, of
  <2>4. Len(names) \in Nat /\ DOMAIN of(k) = 1..Len(names)
    BY <2>1, <2>3
  <2>5. ASSUME NEW p \in 1..Len(names) PROVE Made(k, of(k)[p])
    <3>1. names[p] \in Names
      BY <2>1
    <3>2. of(k)[p] = [name |-> names[p], plain |-> TRUE, ref |-> [source |-> k, column |-> names[p]]]
      BY <2>3
    <3>3. [source |-> k, column |-> names[p]] \in Reference
      BY <2>2, <3>1 DEF Reference
    <3>4. Resolves(i, [source |-> k, column |-> names[p]])
      <4>1. p \in DOMAIN names
        BY <2>1
      <4> QED BY <4>1 DEF Resolves, Positions, names
    <3> QED BY <3>1, <3>2, <3>3, <3>4 DEF Item
  <2>6. of(k) \in Seq(Item)
    BY <2>3, <2>4, <2>5
  <2> QED BY <2>4, <2>5, <2>6
<1> HIDE DEF of
<1>2. CASE Len(scopes[i].sources) = 1
  <2>1. StarItems(i) = of(1)
    BY <1>2 DEF StarItems, of
  <2>2. 1 \in DOMAIN scopes[i].sources
    BY <1>0, <1>2, ScopeFacts
  <2> QED BY <1>1, <2>1, <2>2 DEF ListFor
<1>3. CASE Len(scopes[i].sources) # 1
  <2>1. StarItems(i) = of(1) \o of(2)
    BY <1>3 DEF StarItems, of
  <2>2. 1 \in DOMAIN scopes[i].sources /\ 2 \in DOMAIN scopes[i].sources
    BY <1>0, <1>3, ScopeFacts
  <2>3. of(1) \in Seq(Item) /\ of(2) \in Seq(Item)
    BY <1>1, <2>2
  <2>4. ASSUME NEW p \in DOMAIN (of(1) \o of(2))
        PROVE  \E k \in {1, 2} : Made(k, (of(1) \o of(2))[p])
    <3>1. CASE p \in DOMAIN of(1)
      <4>1. (of(1) \o of(2))[p] = of(1)[p]
        BY <2>3, <3>1
      <4> QED BY <4>1, <3>1, <1>1, <2>2
    <3>2. CASE p \notin DOMAIN of(1)
      <4>1. p - Len(of(1)) \in DOMAIN of(2) /\ (of(1) \o of(2))[p] = of(2)[p - Len(of(1))]
        BY <2>3, <3>2
      <4> QED BY <4>1, <1>1, <2>2
    <3> QED BY <3>1, <3>2
  <2>5. StarItems(i) \in Seq(Item)
    BY <2>1, <2>3
  <2> QED BY <2>1, <2>2, <2>4, <2>5 DEF ListFor
<1> QED BY <1>2, <1>3

LEMMA ExpandedTyped ==
  ASSUME ListsOK, pc = "qualify", NEW i \in ScopeIds
  PROVE  /\ Expanded(i) \in Seq(Item) /\ ListFor(i, Expanded(i))
         /\ \A p \in DOMAIN Expanded(i) :
              Resolves(i, Expanded(i)[p].ref) \/ Expanded(i)[p].ref \in Written(i)
<1> DEFINE star == IF scopes[i].star THEN StarItems(i) ELSE << >>
           own == scopes[i].items
<1>0. request \in Requests
  BY DEF ListsOK
<1>1. /\ star \in Seq(Item) /\ ListFor(i, star)
      /\ \A p \in DOMAIN star : Resolves(i, star[p].ref)
  <2>1. CASE scopes[i].star
    BY <2>1, StarTyped
  <2>2. CASE ~scopes[i].star
    <3>1. star = << >>
      BY <2>2
    <3>2. << >> \in Seq(Item) /\ DOMAIN << >> = {}
      OBVIOUS
    <3> QED BY <3>1, <3>2 DEF ListFor
  <2> QED BY <2>1, <2>2
<1>2. own \in Seq(Item) /\ ListFor(i, own) /\ \A p \in DOMAIN own : own[p].ref \in Written(i)
  <2>1. own \in Seq(Item) /\ \A ref \in Written(i) : ref.source \in DOMAIN scopes[i].sources
    BY <1>0, ScopeFacts
  <2>2. ASSUME NEW p \in DOMAIN own PROVE own[p] \in Item /\ own[p].ref \in Written(i)
    BY <2>1 DEF Written, ReferencesIn
  <2> QED BY <2>1, <2>2 DEF ListFor
<1>3. Expanded(i) = star \o own
  BY DEF Expanded
<1> HIDE DEF star, own
<1>4. Expanded(i) \in Seq(Item)
  BY <1>1, <1>2, <1>3
<1>5. ASSUME NEW p \in DOMAIN (star \o own)
      PROVE  \/ p \in DOMAIN star /\ (star \o own)[p] = star[p]
             \/ p - Len(star) \in DOMAIN own /\ (star \o own)[p] = own[p - Len(star)]
  BY <1>1, <1>2
<1>6. ListFor(i, star \o own)
  BY <1>1, <1>2, <1>5 DEF ListFor
<1>7. ASSUME NEW p \in DOMAIN (star \o own)
      PROVE  Resolves(i, (star \o own)[p].ref) \/ (star \o own)[p].ref \in Written(i)
  BY <1>1, <1>2, <1>5
<1> QED BY <1>3, <1>4, <1>6, <1>7

LEMMA ContinueFacts ==
  ASSUME request \in Requests, next \in ScopeIds, NEW following, Continue(following)
  PROVE  /\ next' \in ScopeIds
         /\ \/ next < Root /\ next' = next + 1 /\ pc' = pc
            \/ next = Root /\ next' = 1 /\ pc' = following
BY StatementFacts DEF Continue

LEMMA ListsInit == Init => ListsOK
<1> SUFFICES ASSUME Init PROVE ListsOK
  OBVIOUS
<1>1. request \in Requests /\ 1 \in ScopeIds
  BY StatementFacts DEF Init
<1> QED BY <1>1 DEF Init, ListsOK, Listed

LEMMA ListsStep ==
  ASSUME ListsOK, [Next]_vars PROVE ListsOK'
<1>0. request \in Requests /\ next \in ScopeIds
  BY DEF ListsOK
<1>1. CASE Qualify
  <2>1. request' = request /\ pc = "qualify" /\ scopes' = scopes /\ ScopeIds' = ScopeIds
    BY <1>1 DEF Qualify, scopes, ScopeIds
  <2>2. CASE items' = [items EXCEPT ![next] = Expanded(next)] /\ Continue("check")
    <3>1. next' \in ScopeIds
      BY <2>2, <1>0, ContinueFacts
    <3>2. DOMAIN items' = ScopeIds /\ items'[next] = Expanded(next)
          /\ \A i \in ScopeIds : i # next => items'[i] = items[i]
      BY <2>2 DEF ListsOK
    <3>3. Expanded(next) \in Seq(Item) /\ ListFor(next, Expanded(next))
      BY <2>1, <1>0, ExpandedTyped
    <3>4. \A i \in ScopeIds : items'[i] \in Seq(Item)
      BY <2>1, <3>2, <3>3 DEF ListsOK
    <3>5. ASSUME NEW i \in ScopeIds, NEW p \in DOMAIN items'[i]
          PROVE  items'[i][p] \in Item /\ items'[i][p].ref.source \in DOMAIN scopes[i].sources
      BY <3>2, <3>3 DEF ListFor, ListsOK, Listed
    <3>6. ASSUME NEW i \in ScopeIds PROVE DOMAIN items'[i] \subseteq Nat
      BY <3>4
    <3> QED BY <2>1, <3>1, <3>2, <3>4, <3>5, <3>6, <1>0 DEF ListsOK, Listed
  <2>3. CASE pc' = "not_qualified" /\ UNCHANGED <<items, next>>
    BY <2>1, <2>3 DEF ListsOK, Listed
  <2> QED BY <1>1, <2>2, <2>3 DEF Qualify
<1>2. CASE DropItems
  <2>1. request' = request /\ pc = "drop" /\ scopes' = scopes /\ ScopeIds' = ScopeIds
    BY <1>2 DEF DropItems, scopes, ScopeIds
  <2>2. next' \in ScopeIds /\ pc' # "qualify"
    <3>1. Continue("returned")
      BY <1>2 DEF DropItems
    <3> QED BY <1>0, <2>1, <3>1, ContinueFacts
  <2>3. CASE UNCHANGED items
    BY <2>1, <2>2, <2>3 DEF ListsOK, Listed
  <2>4. CASE items' = [items EXCEPT ![next] = [p \in Kept(next) |-> items[next][p]]]
    <3>1. Kept(next) \subseteq DOMAIN items[next]
      BY DEF Kept
    <3>2. DOMAIN items' = ScopeIds /\ items'[next] = [p \in Kept(next) |-> items[next][p]]
          /\ \A i \in ScopeIds : i # next => items'[i] = items[i]
      BY <2>4 DEF ListsOK
    <3>3. ASSUME NEW i \in ScopeIds
          PROVE  /\ DOMAIN items'[i] \subseteq DOMAIN items[i]
                 /\ \A p \in DOMAIN items'[i] : items'[i][p] = items[i][p]
      BY <3>1, <3>2
    <3> QED BY <2>1, <2>2, <3>2, <3>3 DEF ListsOK, Listed
  <2> QED BY <1>2, <2>3, <2>4 DEF DropItems, lists
<1>3. CASE CheckReferences
  <2>1. request' = request /\ items' = items /\ pc = "check" /\ Continue("drop")
    BY <1>3 DEF CheckReferences
  <2>2. next' \in ScopeIds /\ pc' # "qualify"
    BY <1>0, <2>1, ContinueFacts
  <2> QED BY <2>1, <2>2 DEF ListsOK, Listed, scopes, ScopeIds
<1>4. CASE Execute
  BY <1>4 DEF Execute, ListsOK, Listed, scopes, ScopeIds, lists
<1>5. CASE RunScope
  <2>1. request' = request /\ items' = items /\ pc = "run" /\ Continue("done")
    BY <1>5 DEF RunScope, lists
  <2>2. next' \in ScopeIds /\ pc' # "qualify"
    BY <1>0, <2>1, ContinueFacts
  <2> QED BY <2>1, <2>2 DEF ListsOK, Listed, scopes, ScopeIds
<1>6. CASE Reject
  BY <1>6 DEF Reject, ListsOK, Listed, scopes, ScopeIds, lists
<1>7. CASE UNCHANGED vars
  BY <1>7 DEF vars, ListsOK, Listed, scopes, ScopeIds
<1> QED BY <1>1, <1>2, <1>3, <1>4, <1>5, <1>6, <1>7 DEF Next

-----------------------------------------------------------------------------
(* Type correctness.                                                        *)

\* Where a reference may lead.
References == {x \in [scope : ScopeIds, ref : Reference] :
                 x.ref.source \in DOMAIN scopes[x.scope].sources}
Places == References \cup {Lost}

LEMMA AtTyped ==
  ASSUME NEW i \in ScopeIds, NEW ref \in Reference, ref.source \in DOMAIN scopes[i].sources
  PROVE  At(i, ref) \in References
BY DEF At, References

LEMMA NotLost ==
  ASSUME request \in Requests, NEW at \in References PROVE at # Lost
<1>1. at.scope \in ScopeIds /\ at.scope # 0
  BY ScopeFacts DEF References
<1>2. Lost.scope = 0
  BY DEF Lost
<1> QED BY <1>1, <1>2

LEMMA FollowTyped ==
  ASSUME ListsOK, NEW at \in Places PROVE Follow(at) \in Places
<1>0. request \in Requests
  BY DEF ListsOK
<1>1. CASE at = Lost \/ SourceOf(at).scope = 0
  BY <1>1 DEF Follow
<1>2. CASE ~(at = Lost \/ SourceOf(at).scope = 0)
  <2>1. at \in References
    BY <1>2 DEF Places
  <2> DEFINE i == at.scope
             k == at.ref.source
             list == ListOf(SourceOf(at).scope)
             P == Positions(SourceOf(at), at.ref.column)
  <2>2. i \in ScopeIds /\ k \in DOMAIN scopes[i].sources /\ SourceOf(at) = scopes[i].sources[k]
    BY <2>1 DEF References, SourceOf
  <2>3. P \subseteq Nat /\ P \subseteq DOMAIN items[list] /\ list \in ScopeIds
    BY <2>2, <1>2, PositionFacts
  <2>4. Follow(at) = IF P = {} \/ ~items[list][First(P)].plain THEN Lost
                                 ELSE At(list, items[list][First(P)].ref)
    BY <1>2 DEF Follow
  <2> HIDE DEF P, list
  <2>5. CASE P = {} \/ ~items[list][First(P)].plain
    BY <2>4, <2>5 DEF Places
  <2>6. CASE ~(P = {} \/ ~items[list][First(P)].plain)
    <3>1. First(P) \in DOMAIN items[list]
      BY <2>3, <2>6, FirstIsOne
    <3>2. items[list][First(P)] \in Item
          /\ items[list][First(P)].ref.source \in DOMAIN scopes[list].sources
      BY <3>1, <2>3 DEF ListsOK, Listed
    <3>3. items[list][First(P)].ref \in Reference
      BY <3>2 DEF Item
    <3>4. At(list, items[list][First(P)].ref) \in References
      BY <2>3, <3>2, <3>3, AtTyped
    <3> QED BY <2>4, <2>6, <3>4 DEF Places
  <2> QED BY <2>5, <2>6
<1> QED BY <1>1, <1>2

LEMMA OriginTyped ==
  ASSUME ListsOK, NEW at \in References
  PROVE  \/ Origin(at) = NoOrigin
         \/ Origin(at).table \in Tables /\ Origin(at).column \in Names
<1> DEFINE end == Lineage(at)[MaxDepth]
<1>0. request \in Requests
  BY DEF ListsOK
<1>1. at \in Places /\ \A x \in Places : Follow(x) \in Places
  BY FollowTyped DEF Places
<1>2. Lineage(at) \in [Nat -> Places]
  BY <1>1, LineageSteps
<1>3. end \in Places
  BY <1>2, DepthAssumption
<1>4. Origin(at) = IF end = Lost \/ SourceOf(end).scope # 0 THEN NoOrigin
                   ELSE [table |-> SourceOf(end).table, column |-> end.ref.column]
  BY DEF Origin
<1> HIDE DEF end
<1>5. CASE end = Lost \/ SourceOf(end).scope # 0
  BY <1>4, <1>5
<1>6. CASE ~(end = Lost \/ SourceOf(end).scope # 0)
  <2>1. end \in References
    BY <1>3, <1>6 DEF Places
  <2>2. /\ end.scope \in ScopeIds /\ end.ref.source \in DOMAIN scopes[end.scope].sources
        /\ SourceOf(end) = scopes[end.scope].sources[end.ref.source]
        /\ end.ref.column \in Names
    BY <2>1 DEF References, SourceOf, Reference
  <2>3. SourceOf(end).table \in Tables
    BY <2>2, <1>0, <1>6, SourceFacts, ScopeFacts
  <2> QED BY <1>4, <1>6, <2>2, <2>3
<1> QED BY <1>5, <1>6

\* A reference straight to a table.
LEMMA DirectOrigin ==
  ASSUME NEW at, at # Lost, SourceOf(at).scope = 0
  PROVE  Origin(at) = [table |-> SourceOf(at).table, column |-> at.ref.column]
<1>1. Follow(at) = at
  BY DEF Follow
<1>2. Lineage(at) \in [Nat -> {at}]
  BY <1>1, LineageSteps
<1>3. Lineage(at)[MaxDepth] = at
  BY <1>2, DepthAssumption
<1> QED BY <1>3 DEF Origin

LEMMA ExplicitTyped ==
  ASSUME ListsOK, NEW i \in ScopeIds, NEW ref \in ExplicitReferences(i)
  PROVE  ref \in Reference /\ ref.source \in DOMAIN scopes[i].sources
<1>0. request \in Requests
  BY DEF ListsOK
<1>1. CASE ref \in scopes[i].filter
  BY <1>0, <1>1, ScopeFacts DEF Written, ReferencesIn
<1>2. CASE ref \notin scopes[i].filter
  <2>1. PICK p \in DOMAIN items[i] : ref = items[i][p].ref
    BY <1>2 DEF ExplicitReferences
  <2>2. items[i][p] \in Item /\ ref.source \in DOMAIN scopes[i].sources
    BY <2>1 DEF ListsOK, Listed
  <2> QED BY <2>1, <2>2 DEF Item
<1> QED BY <1>1, <1>2

\* Rows are there only once the database runs the statement.
NotRun == pc \in {"qualify", "not_qualified", "check", "drop", "returned"}
IdleRows == NotRun => \A i \in ScopeIds : rows[i] = {} /\ twinRows[i] = {}

Typed == TypeOK /\ ListsOK /\ IdleRows

\* Rows have the positions of the list that names them.
LEMMA EvaluateShaped ==
  ASSUME ListsOK, NEW i \in ScopeIds, NEW contents, NEW results,
         \A j \in ScopeIds : Shaped(results, j)
  PROVE  \A row \in Evaluate(i, contents, results) : DOMAIN row = DOMAIN items[ListOf(i)]
<1>0. request \in Requests
  BY DEF ListsOK
<1>1. CASE IsSelect(i)
  <2>1. Evaluate(i, contents, results) = Select(i, contents, results) /\ ListOf(i) = i
    BY <1>1 DEF Evaluate, ListOf
  <2>2. ASSUME NEW row \in Select(i, contents, results) PROVE DOMAIN row = DOMAIN items[i]
    <3>1. \E x : row = [p \in DOMAIN items[i] |-> ValueOf(i, items[i][p].ref, x)]
      BY <2>2 DEF Select
    <3> QED BY <3>1
  <2> QED BY <2>1, <2>2
<1>2. CASE ~IsSelect(i)
  <2>1. Evaluate(i, contents, results) = Combine(i, results) /\ ListOf(i) = Operand(i, 1)
    BY <1>2 DEF Evaluate, ListOf, Operand
  <2>2. Operand(i, 1) \in ScopeIds /\ ListOf(Operand(i, 1)) = Operand(i, 1)
    BY <1>0, <1>2, SetOperationFacts DEF ListOf
  <2>3. \A row \in results[Operand(i, 1)] : DOMAIN row = DOMAIN items[Operand(i, 1)]
    BY <2>2 DEF Shaped
  <2>4. ASSUME NEW row \in Realigned(i, results) PROVE DOMAIN row = DOMAIN items[Operand(i, 1)]
    BY <2>4 DEF Realigned
  <2>5. ASSUME NEW row \in Combine(i, results)
        PROVE  row \in results[Operand(i, 1)] \/ row \in Realigned(i, results)
    <3>1. scopes[i].op \in {"union", "intersect", "except"}
      BY <1>0, <1>2, ScopeFacts DEF Scope, IsSelect
    <3> QED BY <2>5, <3>1 DEF Combine
  <2> QED BY <2>1, <2>3, <2>4, <2>5
<1> QED BY <1>1, <1>2

LEMMA TypedInit == Init => Typed
<1> SUFFICES ASSUME Init PROVE Typed
  OBVIOUS
<1>1. ListsOK
  BY ListsInit
<1>2. rules \subseteq Rule /\ Statement(scopes)
  BY StatementFacts DEF Init
<1>3. \A i \in ScopeIds : rows[i] = {} /\ twinRows[i] = {}
  BY DEF Init
<1>4. \A i \in ScopeIds : /\ DOMAIN items[i] \subseteq Nat
                          /\ \A p \in DOMAIN items[i] : items[i][p] \in Item
  BY <1>1 DEF ListsOK, Listed
<1>5. DOMAIN items = ScopeIds /\ next \in ScopeIds
  BY <1>1 DEF ListsOK
<1>6. TypeOK
  BY <1>2, <1>3, <1>4, <1>5 DEF Init, TypeOK, Shaped
<1> QED BY <1>1, <1>3, <1>6 DEF Typed, IdleRows

LEMMA CheckTyped ==
  ASSUME Typed, CheckReferences PROVE violations' \subseteq ViolationType
<1>1. request \in Requests /\ next \in ScopeIds /\ violations \subseteq ViolationType
  BY DEF Typed, ListsOK, TypeOK
<1>2. ASSUME NEW v \in violations', v \notin violations PROVE v \in ViolationType
  <2>1. PICK ref \in ExplicitReferences(next) :
          v = [code |-> "COLUMN_DENIED", table |-> Origin(At(next, ref)).table, column |-> ref.column]
    BY <1>2 DEF CheckReferences, At
  <2>2. ref \in Reference /\ ref.source \in DOMAIN scopes[next].sources
    BY <1>1, ExplicitTyped DEF Typed
  <2>3. At(next, ref) \in References
    BY <1>1, <2>2, AtTyped
  <2>4. Origin(At(next, ref)).table \in Tables \cup {""}
    <3>1. Origin(At(next, ref)) = NoOrigin \/ Origin(At(next, ref)).table \in Tables
      BY <2>3, OriginTyped DEF Typed
    <3>2. NoOrigin.table = ""
      BY DEF NoOrigin
    <3> QED BY <3>1, <3>2
  <2>5. ref.column \in Names
    BY <2>2 DEF Reference
  <2>6. v \in [code : {"COLUMN_DENIED"}, table : Tables \cup {""}, column : Names]
    BY <2>1, <2>4, <2>5
  <2> QED BY <2>6, Zenon DEF ViolationType
<1> QED BY <1>1, <1>2

LEMMA RunTyped ==
  ASSUME Typed, RunScope
  PROVE  /\ DOMAIN rows' = ScopeIds /\ DOMAIN twinRows' = ScopeIds
         /\ \A i \in ScopeIds : Shaped(rows', i) /\ Shaped(twinRows', i)
<1>1. /\ ListsOK /\ next \in ScopeIds
      /\ DOMAIN rows = ScopeIds /\ DOMAIN twinRows = ScopeIds
      /\ \A i \in ScopeIds : Shaped(rows, i) /\ Shaped(twinRows, i)
  BY DEF Typed, ListsOK, TypeOK
<1>2. /\ rows' = [rows EXCEPT ![next] = Evaluate(next, db, rows)]
      /\ twinRows' = [twinRows EXCEPT ![next] = Evaluate(next, twin, twinRows)]
  BY DEF RunScope
<1>3. \A row \in Evaluate(next, db, rows) : DOMAIN row = DOMAIN items[ListOf(next)]
  BY <1>1, EvaluateShaped
<1>4. \A row \in Evaluate(next, twin, twinRows) : DOMAIN row = DOMAIN items[ListOf(next)]
  BY <1>1, EvaluateShaped
<1>5. ASSUME NEW i \in ScopeIds PROVE Shaped(rows', i) /\ Shaped(twinRows', i)
  BY <1>1, <1>2, <1>3, <1>4 DEF Shaped
<1> QED BY <1>1, <1>2, <1>5

LEMMA TypedStep ==
  ASSUME Typed, [Next]_vars PROVE Typed'
<1>1. ListsOK /\ ListsOK' /\ request \in Requests /\ next \in ScopeIds
  BY ListsStep DEF Typed, ListsOK
<1>2. request' = request /\ scopes' = scopes /\ ScopeIds' = ScopeIds /\ rules' = rules
  BY DEF Next, vars, Qualify, CheckReferences, DropItems, Execute, RunScope, Reject,
         scopes, ScopeIds, rules
<1>3. /\ rules' \subseteq Rule /\ Statement(scopes)'
      /\ DOMAIN items' = ScopeIds' /\ next' \in ScopeIds'
      /\ \A i \in ScopeIds' : /\ DOMAIN items'[i] \subseteq Nat
                              /\ \A p \in DOMAIN items'[i] : items'[i][p] \in Item
  <2>1. rules \subseteq Rule /\ Statement(scopes)
    BY <1>1, StatementFacts
  <2> QED BY <1>1, <1>2, <2>1 DEF ListsOK, Listed
<1>4. /\ pc' \in {"qualify", "not_qualified", "check", "drop", "returned",
                 "run", "done", "unresolved", "misaligned"}
  BY DEF Typed, TypeOK, Next, vars, Qualify, CheckReferences, DropItems, Execute, RunScope,
         Reject, Continue
<1>5. violations' \subseteq ViolationType
  <2>1. violations \subseteq ViolationType
    BY DEF Typed, TypeOK
  <2>2. CASE CheckReferences
    BY <2>2, CheckTyped
  <2>3. CASE DropItems
    <3>1. [code |-> "EMPTY_SELECT", table |-> "", column |-> ""] \in ViolationType
      <4>1. [code |-> "EMPTY_SELECT", table |-> "", column |-> ""]
              \in [code : {"EMPTY_SELECT"}, table : {""}, column : {""}]
        OBVIOUS
      <4> QED BY <4>1, Zenon DEF ViolationType
    <3>2. \/ violations' = violations
          \/ violations' = violations \cup {[code |-> "EMPTY_SELECT", table |-> "", column |-> ""]}
      BY <2>3 DEF DropItems, lists
    <3> QED BY <2>1, <3>1, <3>2
  <2>4. CASE UNCHANGED violations
    BY <2>1, <2>4
  <2> QED BY <2>2, <2>3, <2>4 DEF Next, vars, Qualify, Execute, RunScope, Reject, lists
<1>6. /\ DOMAIN rows' = ScopeIds /\ DOMAIN twinRows' = ScopeIds
      /\ \A i \in ScopeIds : Shaped(rows, i)' /\ Shaped(twinRows, i)'
      /\ IdleRows'
  <2>1. /\ DOMAIN rows = ScopeIds /\ DOMAIN twinRows = ScopeIds
        /\ \A i \in ScopeIds : Shaped(rows, i) /\ Shaped(twinRows, i)
        /\ IdleRows
    BY DEF Typed, TypeOK
  <2>2. ASSUME NEW i \in ScopeIds PROVE ListOf(i)' = ListOf(i)
    BY <1>2 DEF ListOf, IsSelect
  <2>3. CASE RunScope
    <3>1. /\ DOMAIN rows' = ScopeIds /\ DOMAIN twinRows' = ScopeIds
          /\ \A i \in ScopeIds : Shaped(rows', i) /\ Shaped(twinRows', i)
      BY <2>3, RunTyped
    <3>2. items' = items /\ pc' \in {"run", "done"}
      BY <2>3 DEF RunScope, Continue, lists
    <3> QED BY <3>1, <3>2, <2>2 DEF Shaped, IdleRows, NotRun
  <2>4. CASE Qualify \/ CheckReferences \/ DropItems
    <3>1. NotRun /\ rows' = rows /\ twinRows' = twinRows
      BY <2>4 DEF Qualify, CheckReferences, DropItems, NotRun, execution
    <3>2. \A i \in ScopeIds : rows[i] = {} /\ twinRows[i] = {}
      BY <2>1, <3>1 DEF IdleRows
    <3> QED BY <2>1, <1>2, <3>1, <3>2 DEF Shaped, IdleRows
  <2>5. CASE Execute
    <3>1. items' = items /\ rows' = rows /\ twinRows' = twinRows /\ pc' = "run"
      BY <2>5 DEF Execute, lists
    <3> QED BY <2>1, <2>2, <3>1 DEF Shaped, IdleRows, NotRun
  <2>6. CASE Reject
    <3>1. /\ items' = items /\ rows' = rows /\ twinRows' = twinRows
          /\ pc' \in {"unresolved", "misaligned"}
      BY <2>6 DEF Reject, lists, execution
    <3> QED BY <2>1, <2>2, <3>1 DEF Shaped, IdleRows, NotRun
  <2>7. CASE UNCHANGED vars
    BY <2>1, <2>2, <2>7, <1>2 DEF vars, Shaped, IdleRows, NotRun
  <2> QED BY <2>3, <2>4, <2>5, <2>6, <2>7 DEF Next
<1>7. TypeOK'
  BY <1>2, <1>3, <1>4, <1>5, <1>6 DEF TypeOK
<1> QED BY <1>1, <1>6, <1>7 DEF Typed

\* The lists, violations and rows have their types whatever is validated: a
\* violation names a table of the catalog or none (rewrite.py:100-143), and
\* every row that comes back has the columns of the list that names it.
THEOREM TypeCorrect == Spec => []TypeOK
<1>1. Init => Typed
  BY TypedInit
<1>2. Typed /\ [Next]_vars => Typed'
  BY TypedStep
<1>3. Typed => TypeOK
  BY DEF Typed
<1> QED BY <1>1, <1>2, <1>3, PTL DEF Spec

-----------------------------------------------------------------------------
(* Hidden columns.  A reference straight to a table is the only way its     *)
(* values come in, and each is seen to by one of the passes.                *)

\* A reference straight to a table.
Direct(i, ref) == scopes[i].sources[ref.source].scope = 0
ColumnOf(i, ref) == [table |-> scopes[i].sources[ref.source].table, column |-> ref.column]

Forbids(r, c) == RuleMatches(r, c, c.column)
DeniedColumn(c) == \E r \in rules : Forbids(r, c) /\ r.action = "deny"
Restricted(c) == \E r \in rules : Forbids(r, c)

\* Items that are not exempt are the author's.
OwnItems(i) == \A p \in DOMAIN items[i] : Exempt(i, p) \/ items[i][p].ref \in Written(i)

\* What the first pass has seen to in scope i, and the second.
Checked(i) ==
  Accepted => \A ref \in ExplicitReferences(i) : Direct(i, ref) => ~DeniedColumn(ColumnOf(i, ref))
Dropped(i) ==
  Accepted => \A p \in DOMAIN items[i] :
    Exempt(i, p) /\ Direct(i, items[i][p].ref) => ~Restricted(ColumnOf(i, items[i][p].ref))

Screened ==
  /\ \A i \in ScopeIds : OwnItems(i)
  /\ pc = "check" => \A i \in ScopeIds : i < next => Checked(i)
  /\ pc \notin {"qualify", "not_qualified", "check"} => \A i \in ScopeIds : Checked(i)
  /\ pc = "drop" => \A i \in ScopeIds : i < next => Dropped(i)
  /\ pc \in {"returned", "run", "done"} => \A i \in ScopeIds : Dropped(i)
  /\ pc \in {"run", "done"} => Accepted

SameRows ==
  pc \in {"run", "done"} =>
    /\ Agree(db, twin)
    /\ \A i \in ScopeIds : pc = "done" \/ i < next => rows[i] = twinRows[i]

LEMMA DirectMatches ==
  ASSUME request \in Requests, NEW i \in ScopeIds, NEW ref, Direct(i, ref)
  PROVE  MatchingRules(At(i, ref)) = {r \in rules : Forbids(r, ColumnOf(i, ref))}
<1> DEFINE at == At(i, ref)
<1>1. at.scope = i /\ at.ref = ref
  BY DEF At
<1>2. at # Lost
  <2>1. Lost.scope = 0 /\ i # 0
    BY ScopeFacts DEF Lost
  <2> QED BY <1>1, <2>1
<1>3. SourceOf(at) = scopes[i].sources[ref.source]
  BY <1>1 DEF SourceOf
<1>4. Origin(at) = ColumnOf(i, ref)
  BY <1>1, <1>2, <1>3, DirectOrigin DEF Direct, ColumnOf
<1>5. ColumnOf(i, ref).column = ref.column
  BY DEF ColumnOf
<1> QED BY <1>1, <1>4, <1>5 DEF MatchingRules, Forbids

\* The request does not change, and what depends on it alone does not.
LEMMA SameRequest ==
  ASSUME request' = request
  PROVE  /\ scopes' = scopes /\ rules' = rules /\ ScopeIds' = ScopeIds /\ Root' = Root
         /\ \A i : Written(i)' = Written(i) /\ IsSelect(i)' = IsSelect(i)
         /\ \A i, ref : Direct(i, ref)' = Direct(i, ref) /\ ColumnOf(i, ref)' = ColumnOf(i, ref)
         /\ \A c : DeniedColumn(c)' = DeniedColumn(c) /\ Restricted(c)' = Restricted(c)
<1>1. scopes' = scopes /\ rules' = rules
  BY DEF scopes, rules
<1> QED BY <1>1 DEF ScopeIds, Root, Written, IsSelect, Direct, ColumnOf, DeniedColumn, Restricted

\* Lists that keep some of their items stay seen to.
LEMMA FewerItems ==
  ASSUME request' = request, NEW i,
         DOMAIN items'[i] \subseteq DOMAIN items[i],
         \A p \in DOMAIN items'[i] : items'[i][p] = items[i][p],
         Accepted' => Accepted
  PROVE  /\ OwnItems(i) => OwnItems(i)'
         /\ Checked(i) => Checked(i)'
         /\ Dropped(i) => Dropped(i)'
<1>1. ASSUME NEW p \in DOMAIN items'[i] PROVE Exempt(i, p)' <=> Exempt(i, p)
  BY SameRequest DEF Exempt
<1>2. ExplicitReferences(i)' \subseteq ExplicitReferences(i)
  BY <1>1, SameRequest DEF ExplicitReferences
<1>3. OwnItems(i) => OwnItems(i)'
  BY <1>1, SameRequest DEF OwnItems
<1>4. Checked(i) => Checked(i)'
  BY <1>2, SameRequest DEF Checked
<1>5. Dropped(i) => Dropped(i)'
  BY <1>1, SameRequest DEF Dropped
<1> QED BY <1>3, <1>4, <1>5

\* One scope of the first pass.
LEMMA CheckScreens ==
  ASSUME ListsOK, CheckReferences, NEW i \in ScopeIds, i = next PROVE Checked(i)'
<1>0. request \in Requests /\ request' = request /\ items' = items
  BY DEF ListsOK, CheckReferences
<1>1. ExplicitReferences(i)' = ExplicitReferences(i)
  BY <1>0, SameRequest DEF ExplicitReferences, Exempt
<1>2. ASSUME violations' = {}, NEW ref \in ExplicitReferences(i), Direct(i, ref),
             DeniedColumn(ColumnOf(i, ref))
      PROVE  FALSE
  <2>1. Denied(At(i, ref))
    BY <1>0, <1>2, DirectMatches DEF Denied, DeniedColumn
  <2>2. violations' # {}
    BY <1>2, <2>1 DEF CheckReferences
  <2> QED BY <1>2, <2>2
<1> QED BY <1>0, <1>1, <1>2, SameRequest DEF Checked, Accepted

\* One scope of the second pass.
LEMMA DropScreens ==
  ASSUME ListsOK, DropItems, NEW i \in ScopeIds, i = next
  PROVE  /\ Dropped(i)'
         /\ DOMAIN items'[i] \subseteq DOMAIN items[i]
         /\ \A p \in DOMAIN items'[i] : items'[i][p] = items[i][p]
<1>0. request \in Requests /\ request' = request /\ DOMAIN items = ScopeIds
  BY DEF ListsOK, DropItems
<1>1. Kept(i) \subseteq DOMAIN items[i]
  BY DEF Kept
<1>2. ASSUME NEW p \in Kept(i), Exempt(i, p), Direct(i, items[i][p].ref)
      PROVE  ~Restricted(ColumnOf(i, items[i][p].ref))
  <2>1. MatchingRules(At(i, items[i][p].ref)) = {}
    BY <1>2 DEF Kept, Exempt
  <2> QED BY <1>0, <1>2, <2>1, DirectMatches DEF Restricted
<1>3. ASSUME NEW p \in DOMAIN items'[i], items'[i][p] = items[i][p]
      PROVE  Exempt(i, p)' <=> Exempt(i, p)
  BY <1>0, <1>3, SameRequest DEF Exempt
<1>4. CASE ~scopes[i].star /\ UNCHANGED lists
  <2>1. \A p : ~Exempt(i, p)
    BY <1>4 DEF Exempt
  <2> QED BY <1>0, <1>3, <1>4, <2>1 DEF Dropped, lists
<1>5. CASE Kept(i) = DOMAIN items[i] /\ UNCHANGED lists
  BY <1>0, <1>2, <1>3, <1>5, SameRequest DEF Dropped, lists
<1>6. CASE violations' # {} /\ UNCHANGED items
  BY <1>6 DEF Dropped, Accepted
<1>7. CASE items' = [items EXCEPT ![next] = [p \in Kept(next) |-> items[next][p]]]
  <2>1. items'[i] = [p \in Kept(i) |-> items[i][p]]
    BY <1>0, <1>7
  <2>2. DOMAIN items'[i] = Kept(i) /\ \A p \in Kept(i) : items'[i][p] = items[i][p]
    BY <2>1
  <2> QED BY <1>0, <1>1, <1>2, <1>3, <2>2, SameRequest DEF Dropped
<1>8. \/ UNCHANGED lists /\ (~scopes[i].star \/ Kept(i) = DOMAIN items[i])
      \/ violations' # {} /\ UNCHANGED items
      \/ items' = [items EXCEPT ![next] = [p \in Kept(next) |-> items[next][p]]]
  BY DEF DropItems
<1> QED BY <1>4, <1>5, <1>6, <1>7, <1>8

LEMMA ScreenedInit == Init => Screened
<1> SUFFICES ASSUME Init PROVE Screened
  OBVIOUS
<1>1. \A i \in ScopeIds : DOMAIN items[i] = {}
  BY DEF Init
<1> QED BY <1>1 DEF Init, Screened, OwnItems

LEMMA ScreenedStep ==
  ASSUME ListsOK, Screened, [Next]_vars PROVE Screened'
<1>0. /\ request \in Requests /\ next \in ScopeIds /\ request' = request
      /\ ScopeIds' = ScopeIds /\ DOMAIN items = ScopeIds
      /\ ScopeIds \subseteq Nat /\ \A i \in ScopeIds : i <= Root
  <2>1. request' = request
    BY DEF Next, vars, Qualify, CheckReferences, DropItems, Execute, RunScope, Reject
  <2>2. request \in Requests /\ next \in ScopeIds /\ DOMAIN items = ScopeIds
    BY DEF ListsOK
  <2> QED BY <2>1, <2>2, SameRequest, StatementFacts
<1>1. CASE Qualify
  <2>1. pc = "qualify" /\ pc' \in {"qualify", "not_qualified", "check"}
        /\ (pc' = "check" => next' = 1)
    <3>1. CASE Continue("check")
      BY <1>1, <3>1, <1>0, ContinueFacts DEF Qualify
    <3>2. CASE pc' = "not_qualified"
      BY <1>1, <3>2 DEF Qualify
    <3> QED BY <1>1, <3>1, <3>2 DEF Qualify
  <2>2. ASSUME NEW i \in ScopeIds PROVE OwnItems(i)'
    <3>1. CASE items'[i] = items[i]
      BY <3>1, <1>0, SameRequest DEF Screened, OwnItems, Exempt
    <3>2. CASE items'[i] = Expanded(i)
      <4>1. ListFor(i, Expanded(i))
        BY <2>1, ExpandedTyped
      <4>2. ASSUME NEW p \in DOMAIN Expanded(i)
            PROVE  \/ scopes[i].star /\ Expanded(i)[p].plain
                   \/ Expanded(i)[p].ref \in Written(i)
        BY <4>1 DEF ListFor, Written, ReferencesIn
      <4> QED BY <3>2, <4>2, <1>0, SameRequest DEF OwnItems, Exempt
    <3>3. items'[i] = items[i] \/ items'[i] = Expanded(i)
      BY <1>1, <1>0 DEF Qualify
    <3> QED BY <3>1, <3>2, <3>3
  <2>3. \A i \in ScopeIds : ~(i < 1)
    BY <1>0, ScopeFacts
  <2> QED BY <2>1, <2>2, <2>3, <1>0 DEF Screened
<1>2. CASE CheckReferences
  <2>1. pc = "check" /\ items' = items /\ violations \subseteq violations' /\ Continue("drop")
    BY <1>2 DEF CheckReferences
  <2>2. \/ next < Root /\ next' = next + 1 /\ pc' = "check"
        \/ next = Root /\ next' = 1 /\ pc' = "drop"
    BY <2>1, <1>0, ContinueFacts
  <2>3. Accepted' => Accepted
    BY <2>1 DEF Accepted
  <2>4. ASSUME NEW i \in ScopeIds
        PROVE  OwnItems(i)' /\ (i < next => Checked(i)') /\ (i = next => Checked(i)')
    <3>1. OwnItems(i)' /\ (i < next => Checked(i)')
      BY <2>1, <2>3, <1>0, FewerItems DEF Screened
    <3> QED BY <3>1, <1>2, CheckScreens
  <2>5. CASE pc' = "check" /\ next' = next + 1
    <3>1. \A i \in ScopeIds : i < next' => i < next \/ i = next
      BY <2>5, <1>0
    <3> QED BY <2>4, <2>5, <3>1, <1>0 DEF Screened
  <2>6. CASE pc' = "drop" /\ next = Root /\ next' = 1
    <3>1. \A i \in ScopeIds : i < next \/ i = next
      BY <2>6, <1>0
    <3>2. \A i \in ScopeIds : ~(i < 1)
      BY <1>0, ScopeFacts
    <3> QED BY <2>4, <2>6, <3>1, <3>2, <1>0 DEF Screened
  <2> QED BY <2>2, <2>5, <2>6
<1>3. CASE DropItems
  <2>1. pc = "drop" /\ violations \subseteq violations' /\ Continue("returned")
    BY <1>3 DEF DropItems, lists
  <2>2. \/ next < Root /\ next' = next + 1 /\ pc' = "drop"
        \/ next = Root /\ next' = 1 /\ pc' = "returned"
    BY <2>1, <1>0, ContinueFacts
  <2>3. Accepted' => Accepted
    BY <2>1 DEF Accepted
  <2>4. ASSUME NEW i \in ScopeIds
        PROVE  /\ DOMAIN items'[i] \subseteq DOMAIN items[i]
               /\ \A p \in DOMAIN items'[i] : items'[i][p] = items[i][p]
               /\ i = next => Dropped(i)'
    <3>1. CASE i = next
      BY <1>3, <3>1, DropScreens
    <3>2. CASE i # next
      <4>1. items'[i] = items[i]
        BY <1>3, <3>2, <1>0 DEF DropItems, lists
      <4> QED BY <4>1, <3>2
    <3> QED BY <3>1, <3>2
  <2>5. ASSUME NEW i \in ScopeIds
        PROVE  OwnItems(i)' /\ Checked(i)' /\ (i < next => Dropped(i)') /\ (i = next => Dropped(i)')
    <3>1. OwnItems(i) /\ Checked(i) /\ (i < next => Dropped(i))
      BY <2>1 DEF Screened
    <3> QED BY <3>1, <2>3, <2>4, <1>0, FewerItems
  <2>6. CASE pc' = "drop" /\ next' = next + 1
    <3>1. \A i \in ScopeIds : i < next' => i < next \/ i = next
      BY <2>6, <1>0
    <3> QED BY <2>5, <2>6, <3>1, <1>0 DEF Screened
  <2>7. CASE pc' = "returned" /\ next = Root
    <3>1. \A i \in ScopeIds : i < next \/ i = next
      BY <2>7, <1>0
    <3> QED BY <2>5, <2>7, <3>1, <1>0 DEF Screened
  <2> QED BY <2>2, <2>6, <2>7
<1>4. CASE Execute \/ RunScope \/ Reject \/ UNCHANGED vars
  <2>1. /\ items' = items /\ violations' = violations
        /\ \/ pc' = pc /\ pc = "run"
           \/ pc' = pc /\ next' = next
           \/ pc' \in {"run", "done", "unresolved", "misaligned"} /\ pc \in {"returned", "run"}
              /\ (pc = "returned" => Accepted)
    BY <1>4 DEF Execute, RunScope, Reject, vars, lists, Continue
  <2>2. Accepted' <=> Accepted
    BY <2>1 DEF Accepted
  <2>3. ASSUME NEW i \in ScopeIds
        PROVE  /\ OwnItems(i) => OwnItems(i)'
               /\ Checked(i) => Checked(i)'
               /\ Dropped(i) => Dropped(i)'
    BY <2>1, <2>2, <1>0, FewerItems
  <2> QED BY <2>1, <2>2, <2>3, <1>0 DEF Screened
<1> QED BY <1>1, <1>2, <1>3, <1>4 DEF Next

-----------------------------------------------------------------------------
(* The two executions.                                                      *)

\* What the database reads in scope i.
ReadBy(i) == scopes[i].filter \cup {items[i][p].ref : p \in DOMAIN items[i]}

LEMMA ReadTyped ==
  ASSUME ListsOK, NEW i \in ScopeIds, NEW ref \in ReadBy(i)
  PROVE  ref.source \in DOMAIN scopes[i].sources
<1>0. request \in Requests
  BY DEF ListsOK
<1>1. CASE ref \in scopes[i].filter
  BY <1>0, <1>1, ScopeFacts DEF Written, ReferencesIn
<1>2. CASE ref \notin scopes[i].filter
  BY <1>2 DEF ReadBy, ListsOK, Listed
<1> QED BY <1>1, <1>2

\* No column an accepted statement reads from a table is hidden.
LEMMA ReadsNothingHidden ==
  ASSUME ListsOK, Screened, pc = "run", NEW i \in ScopeIds, NEW ref \in ReadBy(i), Direct(i, ref)
  PROVE  ~Hidden(scopes[i].sources[ref.source].table, ref.column)
<1> DEFINE t == scopes[i].sources[ref.source].table
           c == ref.column
<1>1. Accepted /\ OwnItems(i) /\ Checked(i) /\ Dropped(i)
  BY DEF Screened
<1>2. ColumnOf(i, ref) = [table |-> t, column |-> c] /\ ColumnOf(i, ref).column = c
  BY DEF ColumnOf
<1>3. ASSUME ref \in ExplicitReferences(i), ref \in Written(i) PROVE ~Hidden(t, c)
  <2>1. ~DeniedColumn(ColumnOf(i, ref))
    BY <1>1, <1>3 DEF Checked
  <2>2. AskedFor(t, c)
    BY <1>3 DEF AskedFor
  <2> QED BY <1>2, <2>1, <2>2 DEF Hidden, DeniedColumn, Forbids
<1>4. CASE ref \in scopes[i].filter
  BY <1>3, <1>4 DEF ExplicitReferences, Written, ReferencesIn
<1>5. CASE ref \notin scopes[i].filter
  <2>1. PICK p \in DOMAIN items[i] : ref = items[i][p].ref
    BY <1>5 DEF ReadBy
  <2>2. CASE Exempt(i, p)
    <3>1. ~Restricted(ColumnOf(i, ref))
      BY <1>1, <2>1, <2>2 DEF Dropped
    <3> QED BY <1>2, <3>1 DEF Hidden, Restricted, Forbids
  <2>3. CASE ~Exempt(i, p)
    <3>1. ref \in ExplicitReferences(i) /\ ref \in Written(i)
      BY <1>1, <2>1, <2>3 DEF ExplicitReferences, OwnItems
    <3> QED BY <1>3, <3>1
  <2> QED BY <2>2, <2>3
<1> QED BY <1>4, <1>5

\* Joined rows made of the same rows of the sources.
Same(i, c, d, k, x, y) ==
  IF scopes[i].sources[k].scope = 0
  THEN \E m \in DOMAIN c[scopes[i].sources[k].table] :
         /\ x = c[scopes[i].sources[k].table][m]
         /\ y = d[scopes[i].sources[k].table][m]
  ELSE x = y

LEMMA SameValues ==
  ASSUME ListsOK, Screened, pc = "run", NEW i \in ScopeIds, ~Dangling(i),
         NEW c, NEW d, Agree(c, d), NEW x, NEW y,
         \A k \in DOMAIN scopes[i].sources : Same(i, c, d, k, x[k], y[k]),
         NEW ref \in ReadBy(i)
  PROVE  ValueOf(i, ref, x) = ValueOf(i, ref, y)
<1> DEFINE k == ref.source
           s == scopes[i].sources[k]
           P == Positions(s, ref.column)
<1>0. request \in Requests /\ k \in DOMAIN scopes[i].sources
  BY ReadTyped DEF ListsOK
<1>1. P # {}
  BY DEF Dangling, ReadBy, Resolves
<1>2. P \subseteq Nat
  BY <1>0, PositionFacts
<1>3. First(P) \in P
  BY <1>1, <1>2, FirstIsOne
<1>4. CASE s.scope = 0
  <2>1. s.table \in Tables
    BY <1>0, <1>4, SourceFacts, ScopeFacts
  <2>2. First(P) \in DOMAIN ColumnsOf[s.table] /\ ColumnsOf[s.table][First(P)] = ref.column
    <3>1. P \subseteq DOMAIN ColumnsOf[s.table] /\ \A p \in P : ColumnsOf[s.table][p] = ref.column
      BY <1>0, <1>4, PositionFacts
    <3> HIDE DEF P
    <3> QED BY <1>3, <3>1
  <2>3. ~Hidden(s.table, ref.column)
    BY <1>4, ReadsNothingHidden DEF Direct
  <2>4. PICK m \in DOMAIN c[s.table] : x[k] = c[s.table][m] /\ y[k] = d[s.table][m]
    BY <1>0, <1>4 DEF Same
  <2>5. c[s.table][m][First(P)] = d[s.table][m][First(P)]
    BY <2>1, <2>2, <2>3 DEF Agree
  <2> QED BY <2>4, <2>5 DEF ValueOf
<1>5. CASE s.scope # 0
  BY <1>0, <1>5 DEF Same, ValueOf
<1> QED BY <1>4, <1>5

LEMMA SelectSame ==
  ASSUME ListsOK, Screened, pc = "run", NEW i \in ScopeIds, ~Dangling(i),
         NEW c, NEW d, Agree(c, d), NEW R, NEW S,
         \A j \in ScopeIds : j < i => R[j] = S[j]
  PROVE  Select(i, c, R) \subseteq Select(i, d, S)
<1> DEFINE from(k) == SourceRows(scopes[i].sources[k], c, R)
           twins(k) == SourceRows(scopes[i].sources[k], d, S)
           one == Len(scopes[i].sources) = 1
           joined == IF one THEN {<<l>> : l \in from(1)} ELSE from(1) \X from(2)
           joinedTwins == IF one THEN {<<l>> : l \in twins(1)} ELSE twins(1) \X twins(2)
           row(x) == [p \in DOMAIN items[i] |-> ValueOf(i, items[i][p].ref, x)]
           Passes(x) == \A ref \in scopes[i].filter : ValueOf(i, ref, x) = Wanted
<1>0. request \in Requests
  BY DEF ListsOK
<1>1. ASSUME NEW k \in DOMAIN scopes[i].sources, NEW l \in from(k)
      PROVE  \E m \in twins(k) : Same(i, c, d, k, l, m)
  <2> DEFINE s == scopes[i].sources[k]
  <2>1. CASE s.scope = 0
    <3>1. s.table \in Tables
      BY <1>0, <2>1, SourceFacts, ScopeFacts
    <3>2. PICK m \in DOMAIN c[s.table] : l = c[s.table][m]
      BY <2>1 DEF SourceRows
    <3>3. m \in DOMAIN d[s.table]
      BY <3>1 DEF Agree
    <3>4. d[s.table][m] \in twins(k)
      BY <2>1, <3>3 DEF SourceRows
    <3> QED BY <2>1, <3>2, <3>4 DEF Same
  <2>2. CASE s.scope # 0
    <3>1. R[s.scope] = S[s.scope]
      BY <1>0, <2>2, SourceFacts
    <3> QED BY <2>2, <3>1 DEF Same, SourceRows
  <2> QED BY <2>1, <2>2
<1> HIDE DEF from, twins
<1>2. ASSUME NEW x \in joined
      PROVE  \E y \in joinedTwins : \A k \in DOMAIN scopes[i].sources : Same(i, c, d, k, x[k], y[k])
  <2>1. CASE one
    <3>1. DOMAIN scopes[i].sources = {1}
      BY <1>0, <2>1, ScopeFacts, 1..1 = {1}
    <3>2. PICK l \in from(1) : x = <<l>>
      BY <2>1
    <3>3. PICK m \in twins(1) : Same(i, c, d, 1, l, m)
      BY <1>1, <3>1
    <3>4. <<m>> \in joinedTwins /\ <<m>>[1] = m /\ x[1] = l
      BY <2>1, <3>2
    <3> QED BY <3>1, <3>3, <3>4
  <2>2. CASE ~one
    <3>1. DOMAIN scopes[i].sources = {1, 2}
      BY <1>0, <2>2, ScopeFacts, 1..2 = {1, 2}
    <3>2. x[1] \in from(1) /\ x[2] \in from(2)
      BY <2>2
    <3>3. PICK m \in twins(1) : Same(i, c, d, 1, x[1], m)
      BY <1>1, <3>1, <3>2
    <3>4. PICK n \in twins(2) : Same(i, c, d, 2, x[2], n)
      BY <1>1, <3>1, <3>2
    <3>5. <<m, n>> \in joinedTwins /\ <<m, n>>[1] = m /\ <<m, n>>[2] = n
      BY <2>2
    <3> QED BY <3>1, <3>3, <3>4, <3>5
  <2> QED BY <2>1, <2>2
<1>3. /\ Select(i, c, R) = {row(x) : x \in {x \in joined : Passes(x)}}
      /\ Select(i, d, S) = {row(x) : x \in {x \in joinedTwins : Passes(x)}}
  BY DEF Select, from, twins
<1> HIDE DEF joined, joinedTwins
<1>4. ASSUME NEW x \in joined, Passes(x)
      PROVE  \E y \in joinedTwins : Passes(y) /\ row(y) = row(x)
  <2>1. PICK y \in joinedTwins : \A k \in DOMAIN scopes[i].sources : Same(i, c, d, k, x[k], y[k])
    BY <1>2
  <2>2. \A ref \in ReadBy(i) : ValueOf(i, ref, x) = ValueOf(i, ref, y)
    BY <2>1, SameValues
  <2>3. Passes(y)
    BY <1>4, <2>2 DEF ReadBy
  <2>4. \A p \in DOMAIN items[i] : ValueOf(i, items[i][p].ref, x) = ValueOf(i, items[i][p].ref, y)
    BY <2>2 DEF ReadBy
  <2> QED BY <2>3, <2>4
<1> HIDE DEF row, Passes
<1> QED BY <1>3, <1>4

LEMMA EvaluateSame ==
  ASSUME ListsOK, Screened, pc = "run", NEW i \in ScopeIds, ~Dangling(i),
         NEW c, NEW d, Agree(c, d), NEW R, NEW S,
         \A j \in ScopeIds : j < i => R[j] = S[j]
  PROVE  Evaluate(i, c, R) = Evaluate(i, d, S)
<1>0. request \in Requests
  BY DEF ListsOK
<1>1. CASE IsSelect(i)
  <2>1. Agree(d, c) /\ \A j \in ScopeIds : j < i => S[j] = R[j]
    BY DEF Agree
  <2>2. Select(i, c, R) \subseteq Select(i, d, S)
    BY SelectSame
  <2>3. Select(i, d, S) \subseteq Select(i, c, R)
    BY <2>1, SelectSame
  <2> QED BY <1>1, <2>2, <2>3 DEF Evaluate
<1>2. CASE ~IsSelect(i)
  <2>1. R[Operand(i, 1)] = S[Operand(i, 1)] /\ R[Operand(i, 2)] = S[Operand(i, 2)]
    BY <1>0, <1>2, SetOperationFacts
  <2>2. Realigned(i, R) = Realigned(i, S)
    BY <2>1 DEF Realigned
  <2>3. Combine(i, R) = Combine(i, S)
    BY <2>1, <2>2, Zenon DEF Combine
  <2> QED BY <1>2, <2>3 DEF Evaluate
<1> QED BY <1>1, <1>2

LEMMA SameRowsStep ==
  ASSUME Typed, Screened, SameRows, [Next]_vars PROVE SameRows'
<1>0. /\ ListsOK /\ request \in Requests /\ next \in ScopeIds
      /\ DOMAIN rows = ScopeIds /\ DOMAIN twinRows = ScopeIds
      /\ ScopeIds \subseteq Nat /\ \A i \in ScopeIds : i <= Root
  <2>1. ListsOK /\ request \in Requests /\ next \in ScopeIds
    BY DEF Typed, ListsOK
  <2> QED BY <2>1, StatementFacts DEF Typed, TypeOK
<1>1. request' = request /\ ScopeIds' = ScopeIds /\ (pc' \in {"run", "done"} => next' \in ScopeIds)
  <2>1. request' = request
    BY DEF Next, vars, Qualify, CheckReferences, DropItems, Execute, RunScope, Reject
  <2>2. next' \in ScopeIds'
    BY <1>0, ListsStep DEF ListsOK
  <2> QED BY <2>1, <2>2, SameRequest
<1>2. Agree(db, twin)' <=> Agree(db', twin')
  <2>1. ASSUME NEW t, NEW c PROVE Hidden(t, c)' <=> Hidden(t, c)
    <3>1. scopes' = scopes /\ rules' = rules /\ \A i : Written(i)' = Written(i)
      BY <1>1, SameRequest
    <3> QED BY <3>1, <1>1 DEF Hidden, AskedFor
  <2> QED BY <2>1 DEF Agree
<1>3. CASE Qualify \/ CheckReferences \/ DropItems \/ Reject
  <2>1. pc' \notin {"run", "done"}
    BY <1>3 DEF Qualify, CheckReferences, DropItems, Reject, Continue
  <2> QED BY <2>1 DEF SameRows
<1>4. CASE Execute
  <2>1. Agree(db', twin') /\ rows' = rows /\ twinRows' = twinRows /\ pc = "returned"
    BY <1>4 DEF Execute
  <2>2. Agree(db, twin)'
    BY <2>1, <1>2
  <2>3. \A i \in ScopeIds : rows[i] = twinRows[i]
    BY <2>1 DEF Typed, IdleRows, NotRun
  <2> QED BY <2>1, <2>2, <2>3, <1>1 DEF SameRows
<1>5. CASE RunScope
  <2>1. /\ pc = "run" /\ ~Dangling(next) /\ Agree(db, twin) /\ db' = db /\ twin' = twin
        /\ Continue("done")
        /\ \A j \in ScopeIds : j < next => rows[j] = twinRows[j]
    BY <1>5 DEF RunScope, SameRows
  <2>2. Evaluate(next, db, rows) = Evaluate(next, twin, twinRows)
    BY <2>1, <1>0, EvaluateSame
  <2>3. /\ rows' = [rows EXCEPT ![next] = Evaluate(next, db, rows)]
        /\ twinRows' = [twinRows EXCEPT ![next] = Evaluate(next, twin, twinRows)]
    BY <1>5 DEF RunScope
  <2>4. ASSUME NEW j \in ScopeIds, j <= next PROVE rows'[j] = twinRows'[j]
    <3>1. CASE j = next
      BY <3>1, <2>2, <2>3, <1>0
    <3>2. CASE j # next
      <4>1. j < next
        BY <2>4, <3>2, <1>0
      <4>2. rows'[j] = rows[j] /\ twinRows'[j] = twinRows[j]
        BY <3>2, <2>3
      <4> QED BY <4>1, <4>2, <2>1
    <3> QED BY <3>1, <3>2
  <2>5. Agree(db, twin)'
    BY <2>1, <1>2
  <2>6. \/ next' = next + 1 /\ pc' = "run"
        \/ next = Root /\ pc' = "done"
    BY <2>1, <1>0, ContinueFacts
  <2>7. CASE next' = next + 1 /\ pc' = "run"
    <3>1. \A j \in ScopeIds : j < next' => j <= next
      BY <2>7, <1>0
    <3> QED BY <2>4, <2>5, <2>7, <3>1, <1>1 DEF SameRows
  <2>8. CASE next = Root /\ pc' = "done"
    BY <2>4, <2>5, <2>8, <1>0, <1>1 DEF SameRows
  <2> QED BY <2>6, <2>7, <2>8
<1>6. CASE UNCHANGED vars
  <2>1. /\ db' = db /\ twin' = twin /\ rows' = rows /\ twinRows' = twinRows
        /\ pc' = pc /\ next' = next
    BY <1>6 DEF vars
  <2>2. Agree(db, twin)' <=> Agree(db, twin)
    BY <2>1, <1>2
  <2> QED BY <2>1, <2>2, <1>1 DEF SameRows
<1> QED BY <1>3, <1>4, <1>5, <1>6 DEF Next

\* What an accepted statement returns does not depend on a hidden column, for
\* any rules, scopes, lists and rows (rewrite.py:71-181).  Its values can come
\* in only where a scope reads the table itself; there the one pass sees to the
\* author's references and the other to what the star stands for, and what
\* neither refuses or drops is not hidden.
THEOREM HiddenNeverMattersAlways == Spec => []HiddenNeverMatters
<1> DEFINE Inv == Typed /\ Screened /\ SameRows
<1>1. Init => Inv
  <2>1. Init => SameRows
    BY DEF Init, SameRows
  <2> QED BY <2>1, TypedInit, ScreenedInit
<1>2. Inv /\ [Next]_vars => Inv'
  BY TypedStep, ScreenedStep, SameRowsStep DEF Typed
<1>3. Inv => HiddenNeverMatters
  <2> SUFFICES ASSUME Inv, pc = "done" PROVE rows[Root] = twinRows[Root]
    BY DEF HiddenNeverMatters
  <2>1. Root \in ScopeIds
    BY StatementFacts DEF Typed, ListsOK
  <2> QED BY <2>1 DEF SameRows
<1> QED BY <1>1, <1>2, <1>3, PTL DEF Spec

-----------------------------------------------------------------------------
(* Dropped items.  The passes look at the lists as they were expanded and   *)
(* as the drop pass leaves them, so lineage is taken here in any lists L of *)
(* the scopes of a statement without set operations.                        *)

Selects == \A i \in ScopeIds : IsSelect(i)

ListsFor(L) == \A i \in ScopeIds : DOMAIN L[i] \subseteq Nat /\ ListFor(i, L[i])

Named(L, i, name) == {p \in DOMAIN L[i] : L[i][p].name = name}

FollowIn(L, at) ==
  IF at = Lost \/ SourceOf(at).scope = 0 THEN at
  ELSE LET i == SourceOf(at).scope
           P == Named(L, i, at.ref.column)
       IN  IF P = {} \/ ~L[i][First(P)].plain THEN Lost
           ELSE At(i, L[i][First(P)].ref)

LineageIn(L, at) ==
  LET trace[n \in Nat] == IF n = 0 THEN at ELSE FollowIn(L, trace[n - 1])
  IN  trace

OriginIn(L, at) ==
  LET end == LineageIn(L, at)[MaxDepth]
  IN  IF end = Lost \/ SourceOf(end).scope # 0 THEN NoOrigin
      ELSE [table |-> SourceOf(end).table, column |-> end.ref.column]

MatchingIn(L, at) == {r \in rules : RuleMatches(r, OriginIn(L, at), at.ref.column)}

\* Where lineage ends.
AtTable(at) == at # Lost /\ SourceOf(at).scope = 0

LEMMA LineageInSteps ==
  ASSUME NEW L, NEW X, NEW at \in X, \A x \in X : FollowIn(L, x) \in X
  PROVE  /\ LineageIn(L, at) \in [Nat -> X] /\ LineageIn(L, at)[0] = at
         /\ \A n \in Nat : LineageIn(L, at)[n + 1] = FollowIn(L, LineageIn(L, at)[n])
<1> DEFINE step == [x \in X |-> FollowIn(L, x)]
<1>1. PICK f \in [Nat -> X] : f[0] = at /\ \A n \in Nat : f[n + 1] = step[f[n]]
  <2>1. step \in [X -> X]
    OBVIOUS
  <2> HIDE DEF step
  <2> QED BY <2>1, IterationExists
<1>2. f = [n \in Nat |-> IF n = 0 THEN at ELSE FollowIn(L, f[n - 1])]
  <2>1. ASSUME NEW n \in Nat PROVE f[n] = IF n = 0 THEN at ELSE FollowIn(L, f[n - 1])
    <3>1. CASE n # 0
      <4>1. n - 1 \in Nat /\ (n - 1) + 1 = n
        BY <3>1
      <4>2. f[n] = step[f[n - 1]] /\ f[n - 1] \in X
        BY <4>1, <1>1
      <4> QED BY <3>1, <4>2
    <3> QED BY <3>1, <1>1
  <2>2. f = [n \in Nat |-> f[n]]
    BY <1>1
  <2> QED BY <2>1, <2>2
<1>3. LineageIn(L, at) = [n \in Nat |-> IF n = 0 THEN at ELSE FollowIn(L, LineageIn(L, at)[n - 1])]
  BY <1>2 DEF LineageIn
<1>4. LineageIn(L, at)[0] = at
      /\ \A n \in Nat : LineageIn(L, at)[n + 1] = FollowIn(L, LineageIn(L, at)[n])
  <2>1. ASSUME NEW n \in Nat PROVE n + 1 \in Nat /\ n + 1 # 0 /\ (n + 1) - 1 = n
    OBVIOUS
  <2>2. 0 \in Nat
    OBVIOUS
  <2> QED BY <1>3, <2>1, <2>2
<1>5. Nat \subseteq {n \in Nat : LineageIn(L, at)[n] \in X}
  <2> DEFINE S == {n \in Nat : LineageIn(L, at)[n] \in X}
  <2>1. 0 \in S
    BY <1>4
  <2>2. ASSUME NEW n \in Nat, n \in S PROVE n + 1 \in S
    BY <1>4, <2>2
  <2> HIDE DEF S
  <2>3. Nat \subseteq S
    BY <2>1, <2>2, AllNumbersByStep
  <2> QED BY <2>3 DEF S
<1>6. LineageIn(L, at) = [n \in Nat |-> LineageIn(L, at)[n]]
  BY <1>3
<1>7. LineageIn(L, at) \in [Nat -> X]
  BY <1>5, <1>6
<1> QED BY <1>4, <1>7

\* One step leads to an earlier scope.
LEMMA FollowInTyped ==
  ASSUME request \in Requests, NEW L, ListsFor(L), NEW at \in Places
  PROVE  /\ FollowIn(L, at) \in Places
         /\ at \in References /\ FollowIn(L, at) # Lost /\ SourceOf(at).scope # 0
              => FollowIn(L, at).scope < at.scope
<1>1. CASE at = Lost \/ SourceOf(at).scope = 0
  BY <1>1 DEF FollowIn
<1>2. CASE ~(at = Lost \/ SourceOf(at).scope = 0)
  <2>1. at \in References
    BY <1>2 DEF Places
  <2> DEFINE i == SourceOf(at).scope
             P == Named(L, i, at.ref.column)
  <2>2. at.scope \in ScopeIds /\ at.ref.source \in DOMAIN scopes[at.scope].sources
        /\ SourceOf(at) = scopes[at.scope].sources[at.ref.source]
    BY <2>1 DEF References, SourceOf
  <2>3. i \in ScopeIds /\ i < at.scope
    BY <2>2, <1>2, SourceFacts
  <2>4. FollowIn(L, at) = IF P = {} \/ ~L[i][First(P)].plain THEN Lost
                                    ELSE At(i, L[i][First(P)].ref)
    BY <1>2 DEF FollowIn
  <2>5. P \subseteq DOMAIN L[i] /\ P \subseteq Nat
    BY <2>3 DEF Named, ListsFor
  <2> HIDE DEF P, i
  <2>6. CASE P = {} \/ ~L[i][First(P)].plain
    BY <2>4, <2>6 DEF Places
  <2>7. CASE ~(P = {} \/ ~L[i][First(P)].plain)
    <3>1. First(P) \in DOMAIN L[i]
      BY <2>5, <2>7, FirstIsOne
    <3>2. L[i][First(P)] \in Item /\ L[i][First(P)].ref.source \in DOMAIN scopes[i].sources
      BY <3>1, <2>3 DEF ListsFor, ListFor
    <3>3. L[i][First(P)].ref \in Reference
      BY <3>2 DEF Item
    <3>4. At(i, L[i][First(P)].ref) \in References /\ At(i, L[i][First(P)].ref).scope = i
      BY <2>3, <3>2, <3>3, AtTyped DEF At
    <3> QED BY <2>3, <2>4, <2>7, <3>4 DEF Places
  <2> QED BY <2>6, <2>7
<1> QED BY <1>1, <1>2

\* Lineage of a reference, and of what it passes through.
LEMMA LineageFacts ==
  ASSUME request \in Requests, NEW L, ListsFor(L), NEW at \in Places
  PROVE  /\ LineageIn(L, at) \in [Nat -> Places] /\ LineageIn(L, at)[0] = at
         /\ \A n \in Nat : LineageIn(L, at)[n + 1] = FollowIn(L, LineageIn(L, at)[n])
BY FollowInTyped, LineageInSteps

LEMMA LineageOne ==
  ASSUME request \in Requests, NEW L, ListsFor(L), NEW at \in Places
  PROVE  LineageIn(L, at)[1] = FollowIn(L, at)
<1>1. LineageIn(L, at)[0] = at /\ LineageIn(L, at)[0 + 1] = FollowIn(L, LineageIn(L, at)[0])
  <2>1. LineageIn(L, at)[0] = at
        /\ \A n \in Nat : LineageIn(L, at)[n + 1] = FollowIn(L, LineageIn(L, at)[n])
    BY LineageFacts
  <2>2. 0 \in Nat
    OBVIOUS
  <2> QED BY <2>1, <2>2
<1>2. 0 + 1 = 1
  OBVIOUS
<1> QED BY <1>1, <1>2

LEMMA LineageShift ==
  ASSUME request \in Requests, NEW L, ListsFor(L), NEW at \in Places, NEW n \in Nat
  PROVE  LineageIn(L, at)[n + 1] = LineageIn(L, FollowIn(L, at))[n]
<1> DEFINE b == FollowIn(L, at)
           S == {k \in Nat : LineageIn(L, at)[k + 1] = LineageIn(L, b)[k]}
<1>0. b \in Places
  BY FollowInTyped
<1> HIDE DEF b
<1>1. 0 \in S
  <2>1. LineageIn(L, at)[1] = b /\ LineageIn(L, b)[0] = b
    BY <1>0, LineageOne, LineageFacts DEF b
  <2> QED BY <2>1
<1>2. ASSUME NEW k \in Nat, k \in S PROVE k + 1 \in S
  <2>1. LineageIn(L, at)[k + 1] = LineageIn(L, b)[k] /\ k + 1 \in Nat
    BY <1>2
  <2>2. LineageIn(L, at)[(k + 1) + 1] = FollowIn(L, LineageIn(L, at)[k + 1])
    BY <2>1, LineageFacts
  <2>3. LineageIn(L, b)[k + 1] = FollowIn(L, LineageIn(L, b)[k])
    BY <1>0, LineageFacts
  <2> QED BY <2>1, <2>2, <2>3
<1> HIDE DEF S
<1>3. Nat \subseteq S
  BY <1>1, <1>2, AllNumbersByStep
<1> QED BY <1>3 DEF S, b

\* At a table, and once it is lost, lineage stays.
LEMMA LineageStays ==
  ASSUME request \in Requests, NEW L, ListsFor(L), NEW at \in Places, NEW n \in Nat, NEW m \in Nat,
         n <= m, NEW e, e = LineageIn(L, at)[n], e = Lost \/ SourceOf(e).scope = 0
  PROVE  LineageIn(L, at)[m] = e
<1> DEFINE S == {k \in Nat : n <= k => LineageIn(L, at)[k] = e}
<1>1. ASSUME NEW k \in Nat, \A j \in Nat : j < k => j \in S PROVE k \in S
  <2>1. CASE k <= n
    BY <2>1
  <2>2. CASE ~(k <= n)
    <3>1. k - 1 \in Nat /\ n <= k - 1 /\ k - 1 < k /\ (k - 1) + 1 = k
      BY <2>2
    <3>2. LineageIn(L, at)[k - 1] = e
      BY <3>1, <1>1
    <3>3. LineageIn(L, at)[k] = FollowIn(L, LineageIn(L, at)[k - 1])
      BY <3>1, LineageFacts
    <3> QED BY <3>2, <3>3 DEF FollowIn
  <2> QED BY <2>1, <2>2
<1> HIDE DEF S
<1>2. Nat \subseteq S
  BY <1>1, AllNumbers
<1> QED BY <1>2 DEF S

\* Lineage from scope i looks at the lists of earlier scopes only.
LEMMA LineageBelow ==
  ASSUME request \in Requests, NEW L, ListsFor(L), NEW M, ListsFor(M), NEW at \in References,
         \A j \in ScopeIds : j < at.scope => L[j] = M[j]
  PROVE  LineageIn(L, at) = LineageIn(M, at)
<1> DEFINE f == LineageIn(L, at)
           g == LineageIn(M, at)
           S == {n \in Nat : f[n] = g[n] /\ (f[n] = Lost \/ f[n].scope <= at.scope)}
<1>0. at \in Places /\ at.scope \in ScopeIds /\ ScopeIds \subseteq Nat
  BY StatementFacts DEF Places, References
<1>1. /\ f \in [Nat -> Places] /\ f[0] = at /\ \A n \in Nat : f[n + 1] = FollowIn(L, f[n])
      /\ g \in [Nat -> Places] /\ g[0] = at /\ \A n \in Nat : g[n + 1] = FollowIn(M, g[n])
  <2> HIDE DEF f, g
  <2>1. f \in [Nat -> Places] /\ f[0] = at /\ \A n \in Nat : f[n + 1] = FollowIn(L, f[n])
    BY <1>0, LineageFacts DEF f
  <2>2. g \in [Nat -> Places] /\ g[0] = at /\ \A n \in Nat : g[n + 1] = FollowIn(M, g[n])
    BY <1>0, LineageFacts DEF g
  <2> QED BY <2>1, <2>2
<1> HIDE DEF f, g
<1>2. 0 \in S
  <2>1. at.scope \in Nat
    BY <1>0
  <2>2. f[0] = g[0] /\ f[0].scope <= at.scope
    BY <1>1, <2>1
  <2> QED BY <2>2
<1>3. ASSUME NEW n \in Nat, n \in S PROVE n + 1 \in S
  <2> DEFINE x == f[n]
  <2>1. x \in Places /\ g[n] = x /\ (x = Lost \/ x.scope <= at.scope)
        /\ f[n + 1] = FollowIn(L, x) /\ g[n + 1] = FollowIn(M, x)
    BY <1>1, <1>3
  <2> HIDE DEF x
  <2>2. CASE x = Lost \/ SourceOf(x).scope = 0
    BY <2>1, <2>2 DEF FollowIn
  <2>3. CASE ~(x = Lost \/ SourceOf(x).scope = 0)
    <3>1. x \in References /\ x.scope \in ScopeIds /\ x.scope <= at.scope
      BY <2>1, <2>3 DEF Places, References
    <3>2. SourceOf(x).scope \in ScopeIds /\ SourceOf(x).scope < x.scope
      <4>1. x.ref.source \in DOMAIN scopes[x.scope].sources
            /\ SourceOf(x) = scopes[x.scope].sources[x.ref.source]
        BY <3>1 DEF References, SourceOf
      <4> QED BY <4>1, <3>1, <2>3, SourceFacts
    <3>3. L[SourceOf(x).scope] = M[SourceOf(x).scope]
      <4>1. SourceOf(x).scope < at.scope
        <5>1. SourceOf(x).scope \in Nat /\ x.scope \in Nat /\ at.scope \in Nat
          BY <3>1, <3>2, <1>0
        <5> QED BY <5>1, <3>1, <3>2
      <4> QED BY <3>2, <4>1
    <3>4. FollowIn(L, x) = FollowIn(M, x)
      BY <3>3, <2>3 DEF FollowIn, Named
    <3>5. FollowIn(L, x) = Lost \/ FollowIn(L, x).scope <= at.scope
      <4>1. FollowIn(L, x) = Lost \/ FollowIn(L, x).scope < x.scope
        BY <2>1, <2>3, <3>1, FollowInTyped
      <4>2. FollowIn(L, x) = Lost \/ FollowIn(L, x).scope \in ScopeIds
        BY <2>1, FollowInTyped DEF Places, References
      <4>3. x.scope \in Nat /\ at.scope \in Nat
        BY <3>1, <1>0
      <4>4. CASE FollowIn(L, x) # Lost
        <5>1. FollowIn(L, x).scope \in Nat
          BY <4>2, <4>4, <1>0
        <5> QED BY <4>1, <4>3, <4>4, <5>1, <3>1
      <4> QED BY <4>4
    <3> QED BY <2>1, <3>4, <3>5
  <2> QED BY <2>2, <2>3
<1> HIDE DEF S
<1>4. Nat \subseteq S
  BY <1>2, <1>3, AllNumbersByStep
<1>5. \A n \in Nat : f[n] = g[n]
  BY <1>4 DEF S
<1>6. f = g
  BY <1>1, <1>5
<1> QED BY <1>6 DEF f, g

\* The lineage of the code is the lineage in the lists as they are.
LEMMA LineageNow ==
  ASSUME ListsOK, Selects, ListsFor(items), NEW at \in References
  PROVE  /\ MatchingRules(at) = MatchingIn(items, at)
         /\ Denied(at) <=> \E r \in MatchingIn(items, at) : r.action = "deny"
<1>0. request \in Requests /\ at \in Places
  BY DEF ListsOK, Places
<1>1. ASSUME NEW x \in Places PROVE Follow(x) = FollowIn(items, x)
  <2>1. CASE x = Lost \/ SourceOf(x).scope = 0
    BY <2>1 DEF Follow, FollowIn
  <2>2. CASE ~(x = Lost \/ SourceOf(x).scope = 0)
    <3>1. x \in References
      BY <2>2 DEF Places
    <3>2. SourceOf(x).scope \in ScopeIds
      <4>1. x.scope \in ScopeIds /\ x.ref.source \in DOMAIN scopes[x.scope].sources
            /\ SourceOf(x) = scopes[x.scope].sources[x.ref.source]
        BY <3>1 DEF References, SourceOf
      <4> QED BY <4>1, <1>0, <2>2, SourceFacts
    <3>3. ListOf(SourceOf(x).scope) = SourceOf(x).scope
      BY <3>2 DEF ListOf, Selects
    <3>4. Positions(SourceOf(x), x.ref.column) = Named(items, SourceOf(x).scope, x.ref.column)
      BY <2>2, <3>3 DEF Positions, NamesOf, Named
    <3> QED BY <2>2, <3>3, <3>4 DEF Follow, FollowIn
  <2> QED BY <2>1, <2>2
<1> DEFINE f == Lineage(at)
           g == LineageIn(items, at)
           S == {n \in Nat : f[n] = g[n]}
<1>2. /\ f \in [Nat -> Places] /\ f[0] = at /\ \A n \in Nat : f[n + 1] = Follow(f[n])
      /\ g \in [Nat -> Places] /\ g[0] = at /\ \A n \in Nat : g[n + 1] = FollowIn(items, g[n])
  <2>1. \A x \in Places : Follow(x) \in Places
    BY FollowTyped
  <2>2. f \in [Nat -> Places] /\ f[0] = at /\ \A n \in Nat : f[n + 1] = Follow(f[n])
    BY <1>0, <2>1, LineageSteps
  <2>3. g \in [Nat -> Places] /\ g[0] = at /\ \A n \in Nat : g[n + 1] = FollowIn(items, g[n])
    BY <1>0, LineageFacts
  <2> QED BY <2>2, <2>3
<1> HIDE DEF f, g
<1>3. 0 \in S
  BY <1>2
<1>4. ASSUME NEW n \in Nat, n \in S PROVE n + 1 \in S
  <2>1. f[n] = g[n] /\ f[n] \in Places
    BY <1>2, <1>4
  <2> QED BY <1>1, <1>2, <2>1
<1> HIDE DEF S
<1>5. Nat \subseteq S
  BY <1>3, <1>4, AllNumbersByStep
<1>6. f[MaxDepth] = g[MaxDepth]
  BY <1>5, DepthAssumption DEF S
<1>7. Origin(at) = OriginIn(items, at)
  BY <1>6 DEF Origin, OriginIn, f, g
<1> QED BY <1>7 DEF MatchingRules, MatchingIn, Denied

-----------------------------------------------------------------------------
(* What the two passes leave of the expanded lists full.                    *)

ResolvesIn(L, i, ref) ==
  LET s == scopes[i].sources[ref.source]
  IN  IF s.scope = 0 THEN \E p \in DOMAIN ColumnsOf[s.table] : ColumnsOf[s.table][p] = ref.column
                     ELSE Named(L, s.scope, ref.column) # {}

\* Every reference resolves, as qualify() makes sure.
Whole(L, i) ==
  /\ DOMAIN L[i] \subseteq Nat /\ ListFor(i, L[i])
  /\ \A ref \in scopes[i].filter \cup {L[i][p].ref : p \in DOMAIN L[i]} : ResolvesIn(L, i, ref)

Starred(full, i, p) == scopes[i].star /\ full[i][p].plain

ExplicitIn(full, i) ==
  scopes[i].filter \cup {full[i][p].ref : p \in {p \in DOMAIN full[i] : ~Starred(full, i, p)}}

DeniedIn(L, at) == \E r \in MatchingIn(L, at) : r.action = "deny"

\* The first pass went through scope i,
Cleared(full, i) == Accepted => \A ref \in ExplicitIn(full, i) : ~DeniedIn(full, At(i, ref))

\* and the second, which left the items that no rule matches.
Sifted(full, i) ==
  Accepted => \A p \in DOMAIN full[i] :
    p \in DOMAIN items[i] <=>
      (Starred(full, i, p) => MatchingIn(items, At(i, full[i][p].ref)) = {})

PartOf(L, full) ==
  \A i \in ScopeIds : /\ DOMAIN L[i] \subseteq DOMAIN full[i]
                      /\ \A p \in DOMAIN L[i] : L[i][p] = full[i][p]

Passed(full) ==
  /\ \A i \in ScopeIds : Whole(full, i)
  /\ PartOf(items, full)
  /\ \A i \in ScopeIds : Cleared(full, i) /\ Sifted(full, i)

\* Only lists of names are left out.
LEMMA PartListed ==
  ASSUME NEW full, \A i \in ScopeIds : Whole(full, i), NEW L, PartOf(L, full)
  PROVE  ListsFor(full) /\ ListsFor(L)
BY DEF Whole, PartOf, ListsFor, ListFor

LEMMA ItemAt ==
  ASSUME NEW L, ListsFor(L), NEW i \in ScopeIds, NEW p \in DOMAIN L[i]
  PROVE  At(i, L[i][p].ref) \in References /\ At(i, L[i][p].ref) \in Places
<1>1. L[i][p] \in Item /\ L[i][p].ref.source \in DOMAIN scopes[i].sources
  BY DEF ListsFor, ListFor
<1>2. L[i][p].ref \in Reference
  BY <1>1 DEF Item
<1> QED BY <1>1, <1>2, AtTyped DEF Places

\* A step from a derived source that is not lost goes to its first item of the
\* name.
LEMMA FollowThrough ==
  ASSUME request \in Requests, NEW L, ListsFor(L), NEW at \in References, SourceOf(at).scope # 0,
         NEW i, i = SourceOf(at).scope, FollowIn(L, at) # Lost
  PROVE  /\ i \in ScopeIds /\ Named(L, i, at.ref.column) # {}
         /\ LET p == First(Named(L, i, at.ref.column))
            IN  /\ p \in DOMAIN L[i] /\ L[i][p].plain /\ L[i][p].name = at.ref.column
                /\ FollowIn(L, at) = At(i, L[i][p].ref)
<1> DEFINE P == Named(L, i, at.ref.column)
<1>1. at # Lost
  BY NotLost
<1>2. i \in ScopeIds
  <2>1. at.scope \in ScopeIds /\ at.ref.source \in DOMAIN scopes[at.scope].sources
        /\ SourceOf(at) = scopes[at.scope].sources[at.ref.source]
    BY DEF References, SourceOf
  <2> QED BY <2>1, SourceFacts
<1>3. FollowIn(L, at) = IF P = {} \/ ~L[i][First(P)].plain THEN Lost
                                  ELSE At(i, L[i][First(P)].ref)
  BY <1>1 DEF FollowIn
<1>4. P # {} /\ L[i][First(P)].plain /\ FollowIn(L, at) = At(i, L[i][First(P)].ref)
  BY <1>3
<1>5. P \subseteq Nat
  BY <1>2 DEF Named, ListsFor
<1>6. First(P) \in P
  BY <1>4, <1>5, FirstIsOne
<1> QED BY <1>2, <1>4, <1>6 DEF Named

\* Rules that match a table column match it from wherever lineage comes.
LEMMA TableMatches ==
  ASSUME request \in Requests, NEW L, ListsFor(L), NEW at \in References,
         NEW e, e \in References, SourceOf(e).scope = 0, LineageIn(L, at)[MaxDepth] = e
  PROVE  /\ OriginIn(L, at) = [table |-> SourceOf(e).table, column |-> e.ref.column]
         /\ OriginIn(L, at) # NoOrigin
         /\ MatchingIn(L, at) = {r \in rules : Forbids(r, OriginIn(L, at))}
<1> DEFINE o == [table |-> SourceOf(e).table, column |-> e.ref.column]
<1>1. e # Lost
  BY NotLost
<1>2. OriginIn(L, at) = o
  BY <1>1 DEF OriginIn
<1>3. SourceOf(e).table \in Tables
  <2>1. e.scope \in ScopeIds /\ e.ref.source \in DOMAIN scopes[e.scope].sources
        /\ SourceOf(e) = scopes[e.scope].sources[e.ref.source]
    BY DEF References, SourceOf
  <2> QED BY <2>1, SourceFacts, ScopeFacts
<1>4. o # NoOrigin
  <2>1. o.table # NoOrigin.table
    BY <1>3, TablesAssumption DEF NoOrigin
  <2> QED BY <2>1
<1>5. \A r : RuleMatches(r, o, at.ref.column) <=> Forbids(r, o)
  BY <1>4 DEF RuleMatches, Forbids
<1> HIDE DEF o
<1>6. MatchingIn(L, at) = {r \in rules : Forbids(r, OriginIn(L, at))}
  BY <1>2, <1>5 DEF MatchingIn
<1> QED BY <1>2, <1>4, <1>6 DEF o

LEMMA AtTableMatches ==
  ASSUME request \in Requests, NEW L, ListsFor(L), NEW at \in References, SourceOf(at).scope = 0
  PROVE  /\ LineageIn(L, at)[MaxDepth] = at
         /\ OriginIn(L, at) = [table |-> SourceOf(at).table, column |-> at.ref.column]
         /\ MatchingIn(L, at) = {r \in rules : Forbids(r, OriginIn(L, at))}
<1>1. at \in Places /\ LineageIn(L, at)[0] = at
  BY LineageFacts DEF Places
<1>2. LineageIn(L, at)[MaxDepth] = at
  BY <1>1, LineageStays, DepthAssumption
<1> QED BY <1>2, TableMatches

-----------------------------------------------------------------------------
(* Rules that go by names alone.                                            *)

RuleNames == UNION {r.columns : r \in rules}

LEMMA NameMatches ==
  ASSUME OnlyNames, NEW L, NEW at
  PROVE  MatchingIn(L, at) # {} <=>
           (IF OriginIn(L, at) = NoOrigin THEN at.ref.column ELSE OriginIn(L, at).column) \in RuleNames
BY DEF OnlyNames, MatchingIn, RuleMatches, RuleNames

\* In what the passes leave, lineage to a column the rules name starts there.
LEMMA OnlyDirectToNamed ==
  ASSUME request \in Requests, Accepted, OnlyNames, OnlyDenies, NEW full, Passed(full),
         NEW n \in Nat, NEW at \in References, NEW e \in References,
         LineageIn(items, at)[n] = e, SourceOf(e).scope = 0, e.ref.column \in RuleNames
  PROVE  e = at
<1> DEFINE S == {m \in Nat : \A x \in References : LineageIn(items, x)[m] = e => e = x}
<1>0. ListsFor(full) /\ ListsFor(items) /\ PartOf(items, full) /\ References \subseteq Places
  BY PartListed DEF Passed, Places
<1>1. 0 \in S
  BY <1>0, LineageFacts
<1>2. ASSUME NEW m \in Nat, m \in S PROVE m + 1 \in S
  <2> SUFFICES ASSUME NEW x \in References, LineageIn(items, x)[m + 1] = e PROVE e = x
    OBVIOUS
  <2>1. LineageIn(items, FollowIn(items, x))[m] = e
    BY <1>0, LineageShift
  <2>2. CASE SourceOf(x).scope = 0
    <3>1. FollowIn(items, x) = x
      BY <2>2 DEF FollowIn
    <3> QED BY <1>2, <2>1, <3>1
  <2>3. CASE SourceOf(x).scope # 0
    <3>1. FollowIn(items, x) # Lost
      <4>1. ASSUME FollowIn(items, x) = Lost PROVE FALSE
        <5>1. Lost \in Places /\ LineageIn(items, Lost)[0] = Lost
          BY <1>0, LineageFacts DEF Places
        <5>2. LineageIn(items, Lost)[m] = Lost
          BY <1>0, <5>1, LineageStays
        <5> QED BY <2>1, <4>1, <5>2, NotLost
      <4> QED BY <4>1
    <3> DEFINE i == SourceOf(x).scope
               p == First(Named(items, i, x.ref.column))
               b == At(i, items[i][p].ref)
    <3>2. /\ i \in ScopeIds /\ p \in DOMAIN items[i] /\ items[i][p].plain
          /\ FollowIn(items, x) = b
      BY <1>0, <2>3, <3>1, FollowThrough
    <3> HIDE DEF p, i
    <3>3. b \in References
      BY <1>0, <3>2, ItemAt
    <3>4. e = b
      BY <1>2, <2>1, <3>2, <3>3
    <3>5. p \in DOMAIN full[i] /\ full[i][p] = items[i][p]
      BY <1>0, <3>2 DEF PartOf
    <3>6. /\ OriginIn(items, b) = [table |-> SourceOf(b).table, column |-> b.ref.column]
          /\ OriginIn(full, b) = [table |-> SourceOf(b).table, column |-> b.ref.column]
          /\ OriginIn(items, b) # NoOrigin
      <4>1. SourceOf(b).scope = 0
        BY <3>4
      <4> HIDE DEF b
      <4>2. LineageIn(items, b)[MaxDepth] = b
        BY <1>0, <3>3, <4>1, AtTableMatches
      <4> QED BY <1>0, <3>3, <4>1, <4>2, TableMatches, AtTableMatches
    <3>7. OriginIn(items, b).column \in RuleNames /\ OriginIn(full, b) = OriginIn(items, b)
      BY <3>4, <3>6
    <3>8. CASE Starred(full, i, p)
      <4>1. MatchingIn(items, b) = {}
        BY <3>2, <3>5, <3>8 DEF Passed, Sifted
      <4> QED BY <4>1, <3>6, <3>7, NameMatches
    <3>9. CASE ~Starred(full, i, p)
      <4>1. items[i][p].ref \in ExplicitIn(full, i)
        BY <3>5, <3>9 DEF ExplicitIn
      <4>2. ~DeniedIn(full, b)
        BY <3>2, <4>1 DEF Passed, Cleared
      <4>3. MatchingIn(full, b) = {}
        BY <4>2 DEF DeniedIn, OnlyDenies, MatchingIn
      <4> QED BY <4>3, <3>6, <3>7, NameMatches
    <3> QED BY <3>8, <3>9
  <2> QED BY <2>2, <2>3
<1> HIDE DEF S
<1>3. Nat \subseteq S
  BY <1>1, <1>2, AllNumbersByStep
<1> QED BY <1>3 DEF S

\* So every item that is left out has a name the rules name.
LEMMA DroppedIsNamed ==
  ASSUME request \in Requests, Accepted, OnlyNames, OnlyDenies,
         \A i \in ScopeIds : scopes[i].star => ~Renames(i),
         NEW full, Passed(full), NEW i \in ScopeIds, NEW p \in DOMAIN full[i], p \notin DOMAIN items[i]
  PROVE  full[i][p].name \in RuleNames
<1> DEFINE b == At(i, full[i][p].ref)
           end == LineageIn(items, b)[MaxDepth]
<1>0. ListsFor(full) /\ ListsFor(items)
  BY PartListed DEF Passed
<1>1. Starred(full, i, p) /\ MatchingIn(items, b) # {}
  BY DEF Passed, Sifted
<1>2. full[i][p].name = full[i][p].ref.column
  <2>1. \/ full[i][p].name = full[i][p].ref.column
        \/ \E j \in DOMAIN scopes[i].items : full[i][p] = scopes[i].items[j]
    BY <1>0 DEF ListsFor, ListFor
  <2>2. ~Renames(i)
    BY <1>1 DEF Starred
  <2> QED BY <2>1, <2>2 DEF Renames
<1>3. b.ref = full[i][p].ref /\ b \in References /\ b \in Places
  BY <1>0, ItemAt DEF At
<1> HIDE DEF b
<1>4. (IF OriginIn(items, b) = NoOrigin THEN b.ref.column ELSE OriginIn(items, b).column) \in RuleNames
  BY <1>1, NameMatches
<1>5. CASE OriginIn(items, b) = NoOrigin
  BY <1>2, <1>3, <1>4, <1>5
<1>6. CASE OriginIn(items, b) # NoOrigin
  <2>1. end \in Places
    BY <1>0, <1>3, LineageFacts, DepthAssumption
  <2>2. end # Lost /\ SourceOf(end).scope = 0
        /\ OriginIn(items, b) = [table |-> SourceOf(end).table, column |-> end.ref.column]
    BY <1>6 DEF OriginIn
  <2>3. end \in References /\ end.ref.column \in RuleNames
    BY <1>4, <1>6, <2>1, <2>2 DEF Places
  <2> HIDE DEF end
  <2>4. end = b
    <3>1. LineageIn(items, b)[MaxDepth] = end
      BY DEF end
    <3> QED BY <1>3, <2>2, <2>3, <3>1, OnlyDirectToNamed, DepthAssumption
  <2> QED BY <1>2, <1>3, <2>3, <2>4
<1> QED BY <1>5, <1>6

\* Lineage to any other column goes through items that are left.
LEMMA OthersStay ==
  ASSUME request \in Requests, Accepted, OnlyNames, NEW full, Passed(full),
         NEW n \in Nat, n <= MaxDepth, NEW at \in References, NEW e \in References,
         LineageIn(full, at)[n] = e, SourceOf(e).scope = 0, e.ref.column \notin RuleNames
  PROVE  /\ LineageIn(items, at)[n] = e
         /\ SourceOf(at).scope # 0 => Named(items, SourceOf(at).scope, at.ref.column) # {}
<1> DEFINE Good(m) ==
             \A x \in References : LineageIn(full, x)[m] = e =>
               /\ LineageIn(items, x)[m] = e
               /\ SourceOf(x).scope # 0 => Named(items, SourceOf(x).scope, x.ref.column) # {}
           S == {m \in Nat : m <= MaxDepth => Good(m)}
<1>0. ListsFor(full) /\ ListsFor(items) /\ PartOf(items, full) /\ References \subseteq Places
      /\ MaxDepth \in Nat
  BY PartListed, DepthAssumption DEF Passed, Places
<1>1. 0 \in S
  <2>1. ASSUME NEW x \in References, LineageIn(full, x)[0] = e
        PROVE  LineageIn(items, x)[0] = e /\ SourceOf(x).scope = 0
    <3>1. LineageIn(full, x)[0] = x /\ LineageIn(items, x)[0] = x
      BY <1>0, LineageFacts
    <3> QED BY <2>1, <3>1
  <2> QED BY <2>1
<1>2. ASSUME NEW m \in Nat, m \in S PROVE m + 1 \in S
  <2> SUFFICES ASSUME m + 1 <= MaxDepth, NEW x \in References, LineageIn(full, x)[m + 1] = e
               PROVE  /\ LineageIn(items, x)[m + 1] = e
                      /\ SourceOf(x).scope # 0 =>
                           Named(items, SourceOf(x).scope, x.ref.column) # {}
    OBVIOUS
  <2>0. m <= MaxDepth /\ Good(m)
    <3>1. m <= MaxDepth
      BY <1>0
    <3> QED BY <1>2, <3>1
  <2> HIDE DEF Good
  <2>1. LineageIn(full, FollowIn(full, x))[m] = e
    BY <1>0, LineageShift
  <2>2. CASE SourceOf(x).scope = 0
    <3>1. FollowIn(full, x) = x /\ FollowIn(items, x) = x
      BY <2>2 DEF FollowIn
    <3>2. LineageIn(items, x)[m] = e
      BY <2>0, <2>1, <3>1 DEF Good
    <3>3. LineageIn(items, x)[m + 1] = LineageIn(items, x)[m]
      BY <1>0, <3>1, LineageShift
    <3> QED BY <2>2, <3>2, <3>3
  <2>3. CASE SourceOf(x).scope # 0
    <3>1. FollowIn(full, x) # Lost
      <4>1. ASSUME FollowIn(full, x) = Lost PROVE FALSE
        <5>1. Lost \in Places /\ LineageIn(full, Lost)[0] = Lost
          BY <1>0, LineageFacts DEF Places
        <5>2. LineageIn(full, Lost)[m] = Lost
          BY <1>0, <5>1, LineageStays
        <5> QED BY <2>1, <4>1, <5>2, NotLost
      <4> QED BY <4>1
    <3> DEFINE i == SourceOf(x).scope
               P == Named(full, i, x.ref.column)
               Q == Named(items, i, x.ref.column)
               p == First(P)
               b == At(i, full[i][p].ref)
    <3>2. /\ i \in ScopeIds /\ P # {} /\ p \in DOMAIN full[i] /\ full[i][p].plain
          /\ full[i][p].name = x.ref.column /\ FollowIn(full, x) = b
      BY <1>0, <2>3, <3>1, FollowThrough
    <3>3. b \in References
      BY <1>0, <3>2, ItemAt
    <3> HIDE DEF b
    <3>4. LineageIn(items, b)[m] = e
      BY <2>0, <2>1, <3>2, <3>3 DEF Good
    <3>5. LineageIn(items, b)[MaxDepth] = e
      BY <1>0, <2>0, <3>3, <3>4, LineageStays
    <3>6. MatchingIn(items, b) = {}
      <4>1. OriginIn(items, b) # NoOrigin /\ OriginIn(items, b).column = e.ref.column
        BY <1>0, <3>3, <3>5, TableMatches
      <4> QED BY <4>1, NameMatches
    <3>7. p \in DOMAIN items[i]
      BY <3>2, <3>6 DEF Passed, Sifted, b
    <3>8. items[i][p] = full[i][p] /\ Q \subseteq P /\ p \in Q
      BY <1>0, <3>2, <3>7 DEF PartOf, Named
    <3>9. First(Q) = p
      <4>1. P \subseteq Nat
        BY <1>0, <3>2 DEF Named, ListsFor
      <4> HIDE DEF P, Q
      <4>2. First(P) \in P /\ \A q \in P : First(P) <= q
        BY <3>2, <4>1, FirstIsOne
      <4>3. First(Q) \in Q /\ First(Q) <= p
        BY <3>8, <4>1, FirstIsOne
      <4>4. First(Q) \in Nat /\ p \in Nat /\ p <= First(Q)
        BY <3>8, <4>1, <4>2, <4>3
      <4> QED BY <4>3, <4>4
    <3>10. FollowIn(items, x) = b
      <4>1. x # Lost
        BY NotLost
      <4>2. FollowIn(items, x) = IF Q = {} \/ ~items[i][First(Q)].plain THEN Lost
                                 ELSE At(i, items[i][First(Q)].ref)
        BY <2>3, <4>1 DEF FollowIn
      <4> HIDE DEF P, Q, p, i
      <4> QED BY <3>2, <3>8, <3>9, <4>2 DEF b
    <3>11. LineageIn(items, x)[m + 1] = LineageIn(items, b)[m]
      BY <1>0, <3>10, LineageShift
    <3> QED BY <3>4, <3>8, <3>11
  <2> QED BY <2>2, <2>3
<1> HIDE DEF S
<1>3. Nat \subseteq S
  BY <1>1, <1>2, AllNumbersByStep
<1>4. Good(n)
  BY <1>3 DEF S
<1> QED BY <1>4

-----------------------------------------------------------------------------
(* No reference of an accepted statement misses a dropped item.             *)

Compared ==
  /\ OnlyDenies /\ Selects
  /\ FlatStars \/ (OnlyNames /\ \A i \in ScopeIds : scopes[i].star => ~Renames(i))

LEMMA NothingMissing ==
  ASSUME ListsOK, Accepted, Compared, NEW full, Passed(full),
         NEW i \in ScopeIds, NEW ref \in ReadBy(i)
  PROVE  Resolves(i, ref)
<1> DEFINE at == At(i, ref)
           k == ref.source
           s == scopes[i].sources[k]
           P == Named(full, s.scope, ref.column)
           p == First(P)
           b == At(s.scope, full[s.scope][p].ref)
<1>0. /\ request \in Requests /\ ListsFor(full) /\ ListsFor(items) /\ PartOf(items, full)
      /\ MaxDepth \in Nat /\ 1 <= MaxDepth
  <2>1. request \in Requests
    BY DEF ListsOK
  <2>2. ListsFor(full) /\ ListsFor(items) /\ PartOf(items, full)
    BY PartListed DEF Passed
  <2> QED BY <2>1, <2>2, DepthAssumption
<1>1. ref \in Reference /\ k \in DOMAIN scopes[i].sources
  <2>1. k \in DOMAIN scopes[i].sources
    BY ReadTyped
  <2>2. CASE ref \in scopes[i].filter
    BY <1>0, <2>1, <2>2, ScopeFacts
  <2>3. CASE ref \notin scopes[i].filter
    <3>1. PICK q \in DOMAIN items[i] : ref = items[i][q].ref
      BY <2>3 DEF ReadBy
    <3>2. items[i][q] \in Item
      BY <3>1 DEF ListsOK, Listed
    <3> QED BY <2>1, <3>1, <3>2 DEF Item
  <2> QED BY <2>2, <2>3
<1>2. at \in References /\ at.scope = i /\ at.ref = ref /\ SourceOf(at) = s
  BY <1>1, AtTyped DEF At, SourceOf
<1>3. ResolvesIn(full, i, ref)
  BY <1>0 DEF ReadBy, Passed, Whole, PartOf
<1>4. CASE s.scope = 0
  BY <1>3, <1>4 DEF ResolvesIn, Resolves, Positions, NamesOf
<1>5. CASE s.scope # 0
  <2>1. s.scope \in ScopeIds
    BY <1>0, <1>1, <1>5, SourceFacts
  <2>2. Positions(s, ref.column) = Named(items, s.scope, ref.column)
    <3>1. ListOf(s.scope) = s.scope
      BY <2>1 DEF ListOf, Compared, Selects
    <3> QED BY <1>5, <3>1 DEF Positions, NamesOf, Named
  <2>3. SUFFICES ASSUME Named(items, s.scope, ref.column) = {} PROVE FALSE
    BY <2>2 DEF Resolves
  <2>4. P # {}
    BY <1>3, <1>5 DEF ResolvesIn
  <2>5. p \in P /\ P \subseteq DOMAIN full[s.scope]
    <3>1. P \subseteq Nat
      BY <1>0, <2>1 DEF Named, ListsFor
    <3> HIDE DEF P
    <3>2. p \in P
      BY <2>4, <3>1, FirstIsOne
    <3> QED BY <3>2 DEF P, Named
  <2>6. p \in DOMAIN full[s.scope] /\ full[s.scope][p].name = ref.column /\ p \notin DOMAIN items[s.scope]
    <3>1. p \in DOMAIN full[s.scope] /\ full[s.scope][p].name = ref.column
      BY <2>5 DEF Named
    <3>2. ASSUME p \in DOMAIN items[s.scope] PROVE FALSE
      <4>1. items[s.scope][p] = full[s.scope][p]
        BY <1>0, <2>1, <3>2 DEF PartOf
      <4> HIDE DEF p
      <4> QED BY <2>3, <3>1, <3>2, <4>1 DEF Named
    <3> QED BY <3>1, <3>2
  <2>7. Starred(full, s.scope, p) /\ MatchingIn(items, b) # {}
    BY <2>1, <2>6 DEF Passed, Sifted
  <2>8. b \in References /\ b.ref = full[s.scope][p].ref /\ b.scope = s.scope
    BY <1>0, <2>1, <2>6, ItemAt DEF At
  <2>9. FollowIn(full, at) = b
    <3>1. at # Lost
      BY <1>0, <1>2, NotLost
    <3>2. FollowIn(full, at) = IF P = {} \/ ~full[s.scope][p].plain THEN Lost ELSE b
      BY <1>2, <1>5, <3>1 DEF FollowIn
    <3> QED BY <2>4, <2>7, <3>2 DEF Starred
  <2> HIDE DEF b, p, P
  <2>10. ASSUME ref \in ExplicitIn(full, i) PROVE MatchingIn(full, at) = {}
    <3>1. ~DeniedIn(full, at)
      BY <2>10 DEF Passed, Cleared
    <3> QED BY <3>1 DEF DeniedIn, MatchingIn, Compared, OnlyDenies
  <2>11. CASE FlatStars
    <3>1. scopes[s.scope].star
      BY <2>7 DEF Starred
    <3>2. ~scopes[i].star
      BY <1>1, <1>5, <2>11 DEF FlatStars
    <3>3. ref \in ExplicitIn(full, i)
      BY <1>0, <3>2 DEF ReadBy, ExplicitIn, Starred, PartOf
    <3>4. SourceOf(b).scope = 0
      <4>1. b.ref.source \in DOMAIN scopes[s.scope].sources
            /\ SourceOf(b) = scopes[s.scope].sources[b.ref.source]
        BY <2>8 DEF References, SourceOf
      <4> QED BY <2>1, <2>11, <3>1, <4>1 DEF FlatStars
    <3>5. LineageIn(full, at)[MaxDepth] = b
      <4>1. at \in Places /\ b \in Places
        BY <1>2, <2>8 DEF Places
      <4>2. LineageIn(full, at)[1] = b
        BY <1>0, <2>9, <4>1, LineageOne
      <4> QED BY <1>0, <3>4, <4>1, <4>2, LineageStays
    <3>6. MatchingIn(full, at) = MatchingIn(items, b)
      <4>1. OriginIn(full, at) = [table |-> SourceOf(b).table, column |-> b.ref.column]
            /\ MatchingIn(full, at) = {r \in rules : Forbids(r, OriginIn(full, at))}
        BY <1>0, <1>2, <2>8, <3>4, <3>5, TableMatches
      <4>2. OriginIn(items, b) = [table |-> SourceOf(b).table, column |-> b.ref.column]
            /\ MatchingIn(items, b) = {r \in rules : Forbids(r, OriginIn(items, b))}
        BY <1>0, <2>8, <3>4, AtTableMatches
      <4> QED BY <4>1, <4>2
    <3> QED BY <2>7, <2>10, <3>3, <3>6
  <2>12. CASE OnlyNames /\ \A j \in ScopeIds : scopes[j].star => ~Renames(j)
    <3>1. ref.column \in RuleNames
      BY <1>0, <2>1, <2>6, <2>12, DroppedIsNamed DEF Compared
    <3>2. CASE ref \in ExplicitIn(full, i)
      <4>1. MatchingIn(full, at) = {}
        BY <2>10, <3>2
      <4>2. OriginIn(full, at) # NoOrigin /\ OriginIn(full, at).column \notin RuleNames
        BY <1>2, <2>12, <3>1, <4>1, NameMatches
      <4> DEFINE end == LineageIn(full, at)[MaxDepth]
      <4>3. end # Lost /\ SourceOf(end).scope = 0 /\ OriginIn(full, at).column = end.ref.column
        BY <4>2 DEF OriginIn
      <4>4. end \in References
        <5>1. at \in Places
          BY <1>2 DEF Places
        <5>2. end \in Places
          BY <1>0, <5>1, LineageFacts
        <5> QED BY <4>3, <5>2 DEF Places
      <4>5. Named(items, SourceOf(at).scope, at.ref.column) # {}
        <5> DEFINE e == end
        <5>1. LineageIn(full, at)[MaxDepth] = e /\ e \in References /\ SourceOf(e).scope = 0
              /\ e.ref.column \notin RuleNames
          BY <4>2, <4>3, <4>4
        <5>2. MaxDepth <= MaxDepth /\ at \in References /\ SourceOf(at).scope # 0
          BY <1>0, <1>2, <1>5
        <5> HIDE DEF e, at
        <5> QED BY <1>0, <2>12, <5>1, <5>2, OthersStay
      <4> QED BY <1>2, <2>3, <4>5
    <3>3. CASE ref \notin ExplicitIn(full, i)
      <4>1. PICK q \in DOMAIN items[i] : ref = items[i][q].ref /\ Starred(full, i, q)
                                         /\ q \in DOMAIN full[i] /\ items[i][q] = full[i][q]
        BY <1>0, <3>3 DEF ReadBy, ExplicitIn, PartOf
      <4>2. MatchingIn(items, at) = {}
        BY <4>1 DEF Passed, Sifted
      <4>3. FollowIn(items, at) = Lost
        BY <1>2, <1>5, <2>3 DEF FollowIn
      <4>4. LineageIn(items, at)[MaxDepth] = Lost
        <5>1. at \in Places /\ Lost \in Places
          BY <1>2 DEF Places
        <5>2. LineageIn(items, at)[1] = Lost
          BY <1>0, <4>3, <5>1, LineageOne
        <5> QED BY <1>0, <5>1, <5>2, LineageStays
      <4>5. OriginIn(items, at) = NoOrigin
        BY <4>4 DEF OriginIn
      <4> QED BY <1>2, <2>12, <3>1, <4>2, <4>5, NameMatches
    <3> QED BY <3>2, <3>3
  <2> QED BY <2>11, <2>12 DEF Compared
<1> QED BY <1>4, <1>5

\* The passes as they run, on the lists full that qualify() made.
Tracks(full) ==
  /\ \A i \in ScopeIds : Whole(full, i)
  /\ PartOf(items, full)
  /\ \A i \in ScopeIds : /\ pc = "check" \/ (pc = "drop" /\ i >= next) => items[i] = full[i]
                         /\ (pc = "check" /\ i >= next) \/ Cleared(full, i)
                         /\ pc = "check" \/ (pc = "drop" /\ i >= next) \/ Sifted(full, i)

Tracked ==
  Selects =>
    /\ pc = "qualify" => \A i \in ScopeIds : i < next => Whole(items, i)
    /\ pc \notin {"qualify", "not_qualified"} => \E full : Tracks(full)

LEMMA NamesOfNow ==
  ASSUME ListsOK, Selects, NEW i \in ScopeIds, NEW ref, ref.source \in DOMAIN scopes[i].sources
  PROVE  Resolves(i, ref) <=> ResolvesIn(items, i, ref)
<1> DEFINE s == scopes[i].sources[ref.source]
<1>0. request \in Requests
  BY DEF ListsOK
<1>1. CASE s.scope = 0
  BY <1>1 DEF Resolves, ResolvesIn, Positions, NamesOf
<1>2. CASE s.scope # 0
  <2>1. s.scope \in ScopeIds
    BY <1>0, <1>2, SourceFacts
  <2>2. ListOf(s.scope) = s.scope
    BY <2>1 DEF ListOf, Selects
  <2> QED BY <1>2, <2>2 DEF Resolves, ResolvesIn, Positions, NamesOf, Named
<1> QED BY <1>1, <1>2

\* What resolves in a scope depends on earlier lists only.
LEMMA ResolvesBelow ==
  ASSUME request \in Requests, NEW L, NEW M, NEW i \in ScopeIds,
         \A j \in ScopeIds : j <= i => L[j] = M[j], Whole(L, i)
  PROVE  Whole(M, i)
<1>1. L[i] = M[i] /\ i \in Nat
  <2>1. i \in Nat
    BY ScopeFacts
  <2> QED BY <2>1
<1>2. ASSUME NEW ref \in scopes[i].filter \cup {L[i][p].ref : p \in DOMAIN L[i]}
      PROVE  ResolvesIn(M, i, ref)
  <2> DEFINE s == scopes[i].sources[ref.source]
  <2>1. ResolvesIn(L, i, ref)
    BY <1>2 DEF Whole
  <2>2. ref.source \in DOMAIN scopes[i].sources
    BY <1>2, ScopeFacts DEF Whole, ListFor, Written, ReferencesIn
  <2>3. CASE s.scope = 0
    BY <2>1, <2>3 DEF ResolvesIn
  <2>4. CASE s.scope # 0
    <3>1. s.scope \in ScopeIds /\ s.scope < i
      BY <2>2, <2>4, SourceFacts
    <3>2. L[s.scope] = M[s.scope]
      <4>1. s.scope \in Nat
        BY <3>1, ScopeFacts
      <4>2. s.scope <= i
        BY <1>1, <3>1, <4>1
      <4> QED BY <3>1, <4>2
    <3> QED BY <2>1, <2>4, <3>2 DEF ResolvesIn, Named
  <2> QED BY <2>3, <2>4
<1> QED BY <1>1, <1>2 DEF Whole

LEMMA SameLineage ==
  ASSUME request' = request, NEW L, NEW at
  PROVE  LineageIn(L, at)' = LineageIn(L, at)
<1>1. scopes' = scopes
  BY SameRequest
<1> QED BY <1>1 DEF LineageIn, FollowIn, SourceOf, Named

LEMMA SameMatching ==
  ASSUME request' = request, NEW full
  PROVE  /\ \A L, at : MatchingIn(L, at)' = MatchingIn(L, at)
         /\ \A i : Whole(full, i)' <=> Whole(full, i)
         /\ \A i : ExplicitIn(full, i)' = ExplicitIn(full, i)
         /\ \A i, p : Starred(full, i, p)' <=> Starred(full, i, p)
         /\ Selects' <=> Selects
<1>1. scopes' = scopes /\ rules' = rules /\ ScopeIds' = ScopeIds
  BY SameRequest
<1>2. ASSUME NEW L, NEW at PROVE MatchingIn(L, at)' = MatchingIn(L, at)
  <2>1. LineageIn(L, at)' = LineageIn(L, at)
    BY SameLineage
  <2>2. OriginIn(L, at)' = OriginIn(L, at)
    BY <1>1, <2>1 DEF OriginIn, SourceOf
  <2> QED BY <1>1, <2>2 DEF MatchingIn
<1>3. \A i : Whole(full, i)' <=> Whole(full, i)
  BY <1>1 DEF Whole, ListFor, ResolvesIn, Named
<1>4. \A i : ExplicitIn(full, i)' = ExplicitIn(full, i)
  BY <1>1 DEF ExplicitIn, Starred
<1>5. \A i, p : Starred(full, i, p)' <=> Starred(full, i, p)
  BY <1>1 DEF Starred
<1>6. Selects' <=> Selects
  BY <1>1 DEF Selects, IsSelect
<1> QED BY <1>2, <1>3, <1>4, <1>5, <1>6

\* Lists that are the same up to a scope match the same from there.
LEMMA MatchingBelow ==
  ASSUME request \in Requests, NEW L, ListsFor(L), NEW M, ListsFor(M), NEW at \in References,
         \A j \in ScopeIds : j < at.scope => L[j] = M[j]
  PROVE  MatchingIn(L, at) = MatchingIn(M, at)
<1>1. LineageIn(L, at) = LineageIn(M, at)
  BY LineageBelow
<1> QED BY <1>1 DEF MatchingIn, OriginIn

\* A scope that is expanded is whole, and so stay those before it.
LEMMA QualifyWhole ==
  ASSUME ListsOK, Selects, Tracked, Qualify,
         items' = [items EXCEPT ![next] = Expanded(next)],
         \A ref \in Written(next) : Resolves(next, ref),
         NEW i \in ScopeIds, i <= next
  PROVE  Whole(items', i)
<1>0. /\ request \in Requests /\ next \in ScopeIds /\ pc = "qualify" /\ DOMAIN items = ScopeIds
      /\ i \in Nat /\ next \in Nat
  <2>1. request \in Requests /\ next \in ScopeIds /\ DOMAIN items = ScopeIds
    BY DEF ListsOK
  <2> QED BY <2>1, ScopeFacts DEF Qualify
<1>1. \A j \in ScopeIds : j # next => items'[j] = items[j]
  OBVIOUS
<1>2. CASE i # next
  <2>1. Whole(items, i)
    BY <1>0, <1>2 DEF Tracked
  <2>2. ASSUME NEW j \in ScopeIds, j <= i PROVE items[j] = items'[j]
    <3>1. j \in Nat
      BY <1>0, ScopeFacts
    <3> QED BY <1>0, <1>1, <1>2, <2>2, <3>1
  <2> QED BY <1>0, <2>1, <2>2, ResolvesBelow
<1>3. CASE i = next
  <2>1. items'[i] = Expanded(i) /\ Expanded(i) \in Seq(Item) /\ ListFor(i, Expanded(i))
    BY <1>0, <1>3, ExpandedTyped
  <2>2. DOMAIN items'[i] \subseteq Nat
    BY <2>1
  <2>3. ASSUME NEW ref \in scopes[i].filter \cup {Expanded(i)[p].ref : p \in DOMAIN Expanded(i)}
        PROVE  ResolvesIn(items', i, ref)
    <3>1. Resolves(i, ref)
      <4>1. CASE ref \in scopes[i].filter
        BY <1>3, <4>1 DEF Written, ReferencesIn
      <4>2. CASE ref \notin scopes[i].filter
        <5>1. PICK p \in DOMAIN Expanded(i) : ref = Expanded(i)[p].ref
          BY <4>2
        <5> QED BY <1>0, <1>3, <5>1, ExpandedTyped
      <4> QED BY <4>1, <4>2
    <3>2. ref.source \in DOMAIN scopes[i].sources
      <4>1. CASE ref \in scopes[i].filter
        BY <1>0, <4>1, ScopeFacts DEF Written, ReferencesIn
      <4>2. CASE ref \notin scopes[i].filter
        BY <2>1, <4>2 DEF ListFor
      <4> QED BY <4>1, <4>2
    <3>3. ResolvesIn(items, i, ref)
      BY <3>1, <3>2, NamesOfNow
    <3> DEFINE s == scopes[i].sources[ref.source]
    <3>4. CASE s.scope = 0
      BY <3>3, <3>4 DEF ResolvesIn
    <3>5. CASE s.scope # 0
      <4>1. s.scope \in ScopeIds /\ s.scope < i
        BY <1>0, <3>2, <3>5, SourceFacts
      <4>2. items'[s.scope] = items[s.scope]
        BY <1>0, <1>1, <1>3, <4>1
      <4> QED BY <3>3, <3>5, <4>2 DEF ResolvesIn, Named
    <3> QED BY <3>4, <3>5
  <2> QED BY <2>1, <2>2, <2>3 DEF Whole
<1> QED BY <1>2, <1>3

\* The first pass clears a scope.
LEMMA CheckClears ==
  ASSUME ListsOK, Selects, CheckReferences, NEW full, Tracks(full), NEW i \in ScopeIds, i = next
  PROVE  Cleared(full, i)'
<1>0. /\ request \in Requests /\ request' = request /\ pc = "check"
      /\ \A j \in ScopeIds : items[j] = full[j]
  BY DEF ListsOK, CheckReferences, Tracks
<1>1. ListsFor(full) /\ ListsFor(items)
  BY PartListed DEF Tracks
<1>2. ExplicitReferences(i) = ExplicitIn(full, i)
  BY <1>0 DEF ExplicitReferences, ExplicitIn, Exempt, Starred
<1>3. ASSUME violations' = {}, NEW ref \in ExplicitIn(full, i) PROVE ~DeniedIn(full, At(i, ref))
  <2>1. ref \in ExplicitReferences(i)
    BY <1>2
  <2>2. ref \in Reference /\ ref.source \in DOMAIN scopes[i].sources
    BY <2>1, ExplicitTyped
  <2>3. At(i, ref) \in References
    BY <2>2, AtTyped
  <2>4. ~Denied(At(i, ref))
    <3>1. SUFFICES ASSUME Denied(At(i, ref)) PROVE violations' # {}
      BY <1>3
    <3> QED BY <2>1, <3>1 DEF CheckReferences
  <2>5. MatchingIn(items, At(i, ref)) = MatchingIn(full, At(i, ref))
    BY <1>0, <1>1, <2>3, MatchingBelow
  <2> QED BY <1>1, <2>3, <2>4, <2>5, LineageNow DEF DeniedIn
<1>4. ExplicitIn(full, i)' = ExplicitIn(full, i)
      /\ \A at : MatchingIn(full, at)' = MatchingIn(full, at)
  BY <1>0, SameMatching
<1> QED BY <1>3, <1>4 DEF Cleared, Accepted, DeniedIn

\* What a scope was cleared of, it stays cleared of.
LEMMA StaysCleared ==
  ASSUME request' = request, Accepted' => Accepted, NEW full, NEW i, Cleared(full, i)
  PROVE  Cleared(full, i)'
BY SameMatching DEF Cleared, DeniedIn

\* The second pass sifts one scope, and sees lists that are final.
LEMMA DropSifts ==
  ASSUME ListsOK, Selects, DropItems, NEW full, Tracks(full)
  PROVE  /\ PartOf(items', full)
         /\ \A i \in ScopeIds : i > next => items'[i] = full[i]
         /\ \A i \in ScopeIds : i <= next => Sifted(full, i)'
<1>0. /\ request \in Requests /\ request' = request /\ pc = "drop" /\ next \in ScopeIds
      /\ DOMAIN items = ScopeIds /\ ScopeIds' = ScopeIds
      /\ violations \subseteq violations'
      /\ \A i \in ScopeIds : i \in Nat
  <2>1. request \in Requests /\ request' = request /\ pc = "drop" /\ next \in ScopeIds
        /\ DOMAIN items = ScopeIds
    BY DEF ListsOK, DropItems
  <2> QED BY <2>1, SameRequest, ScopeFacts DEF DropItems, lists
<1>1. /\ items[next] = full[next]
      /\ ListsFor(full) /\ ListsFor(items) /\ PartOf(items, full)
  BY <1>0, PartListed DEF Tracks
<1>2. Kept(next) \subseteq DOMAIN items[next]
  BY DEF Kept
<1>3. /\ \A i \in ScopeIds : i # next => items'[i] = items[i]
      /\ \/ items'[next] = items[next] /\ violations' = violations
            /\ (~scopes[next].star \/ Kept(next) = DOMAIN items[next])
         \/ items'[next] = items[next] /\ violations' # {}
         \/ items'[next] = [p \in Kept(next) |-> items[next][p]] /\ scopes[next].star
  BY <1>0 DEF DropItems, lists
<1>4. PartOf(items', full)
  <2>1. ASSUME NEW i \in ScopeIds
        PROVE  /\ DOMAIN items'[i] \subseteq DOMAIN items[i]
               /\ \A p \in DOMAIN items'[i] : items'[i][p] = items[i][p]
    BY <1>2, <1>3
  <2> QED BY <1>1, <2>1 DEF PartOf
<1>5. ListsFor(items')
  BY <1>4, PartListed DEF Tracks
<1>6. ASSUME NEW i \in ScopeIds, i <= next, NEW p \in DOMAIN full[i]
      PROVE  MatchingIn(items, At(i, full[i][p].ref)) = MatchingIn(items', At(i, full[i][p].ref))
  <2>1. At(i, full[i][p].ref) \in References /\ At(i, full[i][p].ref).scope = i
    BY <1>1, ItemAt DEF At
  <2>2. ASSUME NEW j \in ScopeIds, j < i PROVE items[j] = items'[j]
    <3>1. i \in Nat /\ j \in Nat /\ next \in Nat
      BY <1>0
    <3>2. j # next
      BY <3>1, <2>2, <1>6
    <3> QED BY <1>3, <3>2
  <2> QED BY <1>0, <1>1, <1>5, <2>1, <2>2, MatchingBelow
<1>7. ASSUME NEW i \in ScopeIds, i <= next, Accepted',
             NEW p \in DOMAIN full[i]
      PROVE  p \in DOMAIN items'[i] <=>
               (Starred(full, i, p) => MatchingIn(items', At(i, full[i][p].ref)) = {})
  <2>0. Accepted
    BY <1>0, <1>7 DEF Accepted
  <2>1. CASE i # next
    <3>1. i < next
      BY <1>0, <1>7, <2>1
    <3>2. Sifted(full, i)
      BY <1>0, <3>1 DEF Tracks
    <3> QED BY <1>3, <1>6, <1>7, <2>0, <2>1, <3>2 DEF Sifted
  <2>2. CASE i = next
    <3>1. MatchingRules(At(i, full[i][p].ref)) = MatchingIn(items', At(i, full[i][p].ref))
      <4>1. At(i, full[i][p].ref) \in References
        BY <1>1, ItemAt
      <4> QED BY <1>1, <1>6, <1>7, <4>1, LineageNow
    <3>2. p \in Kept(i) <=> (full[i][p].plain => MatchingIn(items', At(i, full[i][p].ref)) = {})
      BY <1>1, <2>2, <3>1 DEF Kept
    <3>3. p \in DOMAIN items[i]
      BY <1>1, <2>2
    <3>4. \/ items'[i] = items[i] /\ (~scopes[i].star \/ Kept(i) = DOMAIN items[i])
          \/ items'[i] = [q \in Kept(i) |-> items[i][q]] /\ scopes[i].star
      BY <1>3, <1>7, <2>2 DEF Accepted
    <3> QED BY <3>2, <3>3, <3>4 DEF Starred
  <2> QED BY <2>1, <2>2
<1>8. ASSUME NEW i \in ScopeIds, i <= next PROVE Sifted(full, i)'
  <2>1. \A p : Starred(full, i, p)' <=> Starred(full, i, p)
    BY <1>0, SameMatching
  <2>2. ASSUME NEW p PROVE MatchingIn(items, At(i, full[i][p].ref))' = MatchingIn(items', At(i, full[i][p].ref))
    <3>1. scopes' = scopes /\ rules' = rules
      BY <1>0, SameRequest
    <3> QED BY <3>1 DEF MatchingIn, OriginIn, LineageIn, FollowIn, SourceOf, Named
  <2> QED BY <1>7, <1>8, <2>1, <2>2 DEF Sifted
<1>9. ASSUME NEW i \in ScopeIds, i > next PROVE items'[i] = full[i]
  <2>1. i # next /\ i >= next
    BY <1>0, <1>9
  <2>2. items[i] = full[i]
    BY <1>0, <2>1 DEF Tracks
  <2> QED BY <1>3, <2>1, <2>2
<1> QED BY <1>4, <1>8, <1>9

LEMMA SameTracks ==
  ASSUME request' = request, items' = items, violations' = violations, NEW full, NEW i
  PROVE  /\ Cleared(full, i) => Cleared(full, i)'
         /\ Sifted(full, i) => Sifted(full, i)'
<1>1. Accepted' <=> Accepted
  BY DEF Accepted
<1>2. \A p : Starred(full, i, p)' <=> Starred(full, i, p)
  BY SameMatching
<1>3. ASSUME NEW p PROVE MatchingIn(items, At(i, full[i][p].ref))' = MatchingIn(items, At(i, full[i][p].ref))
  <2>1. scopes' = scopes /\ rules' = rules
    BY SameRequest
  <2> QED BY <2>1 DEF MatchingIn, OriginIn, LineageIn, FollowIn, SourceOf, Named
<1> QED BY <1>1, <1>2, <1>3, StaysCleared DEF Sifted

LEMMA TrackedStep ==
  ASSUME ListsOK, Tracked, [Next]_vars PROVE Tracked'
<1>0. /\ request \in Requests /\ request' = request /\ next \in ScopeIds /\ ScopeIds' = ScopeIds
      /\ (Selects' <=> Selects) /\ DOMAIN items = ScopeIds
      /\ \A i \in ScopeIds : i \in Nat /\ 1 <= i /\ i <= Root
  <2>1. request' = request
    BY DEF Next, vars, Qualify, CheckReferences, DropItems, Execute, RunScope, Reject
  <2>2. request \in Requests /\ next \in ScopeIds /\ DOMAIN items = ScopeIds
    BY DEF ListsOK
  <2>3. \A i \in ScopeIds : i \in Nat /\ 1 <= i /\ i <= Root
    BY <2>2, StatementFacts
  <2>4. Selects' <=> Selects
    BY <2>1, SameRequest DEF Selects
  <2> QED BY <2>1, <2>2, <2>3, <2>4, SameRequest
<1> SUFFICES ASSUME Selects
             PROVE  /\ pc' = "qualify" => \A i \in ScopeIds : i < next' => Whole(items, i)'
                    /\ pc' \notin {"qualify", "not_qualified"} => \E full : Tracks(full)'
  BY <1>0 DEF Tracked
<1>1. CASE Qualify
  <2>1. CASE pc' = "not_qualified"
    BY <2>1
  <2>2. CASE /\ \A ref \in Written(next) : Resolves(next, ref)
             /\ items' = [items EXCEPT ![next] = Expanded(next)]
             /\ Continue("check")
    <3>1. ASSUME NEW i \in ScopeIds, i <= next PROVE Whole(items', i)
      BY <1>1, <2>2, <3>1, QualifyWhole
    <3>2. ASSUME NEW i PROVE Whole(items, i)' <=> Whole(items', i)
      <4>1. scopes' = scopes
        BY <1>0, SameRequest
      <4> QED BY <4>1 DEF Whole, ListFor, ResolvesIn, Named
    <3>3. pc = "qualify"
      BY <1>1 DEF Qualify
    <3>4. \/ next < Root /\ next' = next + 1 /\ pc' = "qualify"
          \/ next = Root /\ next' = 1 /\ pc' = "check"
      BY <1>0, <2>2, <3>3, ContinueFacts
    <3>5. CASE next' = next + 1 /\ pc' = "qualify"
      <4>1. \A i \in ScopeIds : i < next' => i <= next
        BY <1>0, <3>5
      <4> QED BY <3>1, <3>2, <3>5, <4>1
    <3>6. CASE next = Root /\ next' = 1 /\ pc' = "check"
      <4>1. PICK full : full = items'
        OBVIOUS
      <4>2. \A i \in ScopeIds : i <= next
        BY <1>0, <3>6
      <4>3. \A i \in ScopeIds : Whole(full, i)'
        BY <1>0, <3>1, <4>1, <4>2, SameMatching
      <4>4. PartOf(items, full)'
        BY <4>1 DEF PartOf
      <4>5. \A i \in ScopeIds : i >= next'
        BY <1>0, <3>6
      <4>6. Tracks(full)'
        BY <1>0, <3>6, <4>1, <4>3, <4>4, <4>5 DEF Tracks
      <4> QED BY <3>6, <4>6
    <3> QED BY <3>4, <3>5, <3>6
  <2> QED BY <1>1, <2>1, <2>2 DEF Qualify
<1>2. CASE CheckReferences
  <2>1. pc = "check" /\ items' = items /\ violations \subseteq violations' /\ Continue("drop")
    BY <1>2 DEF CheckReferences
  <2>2. \/ next < Root /\ next' = next + 1 /\ pc' = "check"
        \/ next = Root /\ next' = 1 /\ pc' = "drop"
    BY <1>0, <2>1, ContinueFacts
  <2>3. PICK full : Tracks(full)
    BY <2>1 DEF Tracked
  <2>4. Accepted' => Accepted
    BY <2>1 DEF Accepted
  <2>5. ASSUME NEW i \in ScopeIds, i <= next PROVE Cleared(full, i)'
    <3>1. CASE i = next
      BY <1>2, <2>3, <3>1, CheckClears
    <3>2. CASE i # next
      <4>1. ~(i >= next)
        BY <1>0, <2>5, <3>2
      <4>2. Cleared(full, i)
        BY <2>1, <2>3, <4>1 DEF Tracks
      <4> QED BY <1>0, <2>4, <4>2, StaysCleared
    <3> QED BY <3>1, <3>2
  <2>6. /\ \A i \in ScopeIds : Whole(full, i)' /\ items'[i] = full[i]
        /\ PartOf(items, full)'
    <3>1. PartOf(items, full) /\ \A i \in ScopeIds : Whole(full, i) /\ items[i] = full[i]
      BY <2>1, <2>3 DEF Tracks
    <3> QED BY <1>0, <2>1, <3>1, SameMatching DEF PartOf
  <2>7. \A i \in ScopeIds : i <= next \/ (pc' = "check" /\ i >= next')
    BY <1>0, <2>2
  <2>8. \A i \in ScopeIds : pc' = "check" \/ (pc' = "drop" /\ i >= next')
    BY <1>0, <2>2
  <2>9. Tracks(full)'
    BY <1>0, <2>5, <2>6, <2>7, <2>8 DEF Tracks
  <2> QED BY <2>2, <2>9
<1>3. CASE DropItems
  <2>1. pc = "drop" /\ violations \subseteq violations' /\ Continue("returned")
    BY <1>3 DEF DropItems, lists
  <2>2. \/ next < Root /\ next' = next + 1 /\ pc' = "drop"
        \/ next = Root /\ next' = 1 /\ pc' = "returned"
    BY <1>0, <2>1, ContinueFacts
  <2>3. PICK full : Tracks(full)
    BY <2>1 DEF Tracked
  <2>4. Accepted' => Accepted
    BY <2>1 DEF Accepted
  <2>5. /\ PartOf(items', full)
        /\ \A i \in ScopeIds : i > next => items'[i] = full[i]
        /\ \A i \in ScopeIds : i <= next => Sifted(full, i)'
    BY <1>3, <2>3, DropSifts
  <2>6. ASSUME NEW i \in ScopeIds PROVE Whole(full, i)' /\ Cleared(full, i)'
    <3>1. Whole(full, i) /\ Cleared(full, i)
      BY <2>1, <2>3 DEF Tracks
    <3> QED BY <1>0, <2>4, <3>1, SameMatching, StaysCleared
  <2>7. PartOf(items, full)'
    BY <1>0, <2>5 DEF PartOf
  <2>8. \A i \in ScopeIds : /\ pc' = "drop" /\ i >= next' => i > next
                            /\ i <= next \/ (pc' = "drop" /\ i >= next')
    BY <1>0, <2>2
  <2>9. Tracks(full)'
    BY <1>0, <2>2, <2>5, <2>6, <2>7, <2>8 DEF Tracks
  <2> QED BY <2>2, <2>9
<1>4. CASE Execute \/ RunScope \/ Reject
  <2>1. /\ items' = items /\ violations' = violations
        /\ pc \in {"returned", "run"} /\ pc' \in {"run", "done", "unresolved", "misaligned"}
    BY <1>4 DEF Execute, RunScope, Reject, lists, Continue
  <2>2. PICK full : Tracks(full)
    BY <2>1 DEF Tracked
  <2>3. ASSUME NEW i \in ScopeIds PROVE Whole(full, i)' /\ Cleared(full, i)' /\ Sifted(full, i)'
    <3>1. Whole(full, i) /\ Cleared(full, i) /\ Sifted(full, i)
      BY <2>1, <2>2 DEF Tracks
    <3> QED BY <1>0, <2>1, <3>1, SameMatching, SameTracks
  <2>4. PartOf(items, full)'
    BY <1>0, <2>1, <2>2 DEF Tracks, PartOf
  <2>5. Tracks(full)'
    BY <1>0, <2>1, <2>3, <2>4 DEF Tracks
  <2> QED BY <2>1, <2>5
<1>5. CASE UNCHANGED vars
  <2>1. items' = items /\ violations' = violations /\ pc' = pc /\ next' = next
    BY <1>5 DEF vars
  <2>2. ASSUME NEW i PROVE Whole(items, i)' <=> Whole(items, i)
    <3>1. scopes' = scopes
      BY <1>0, SameRequest
    <3> QED BY <2>1, <3>1 DEF Whole, ListFor, ResolvesIn, Named
  <2>3. ASSUME NEW full, Tracks(full) PROVE Tracks(full)'
    <3>1. ASSUME NEW i \in ScopeIds
          PROVE  /\ Whole(full, i)'
                 /\ Cleared(full, i) => Cleared(full, i)'
                 /\ Sifted(full, i) => Sifted(full, i)'
      BY <1>0, <2>1, <2>3, SameMatching, SameTracks DEF Tracks
    <3>2. PartOf(items, full)'
      BY <1>0, <2>1, <2>3 DEF Tracks, PartOf
    <3> QED BY <1>0, <2>1, <2>3, <3>1, <3>2 DEF Tracks
  <2> QED BY <2>1, <2>2, <2>3 DEF Tracked
<1> QED BY <1>1, <1>2, <1>3, <1>4, <1>5 DEF Next

\* The same condition, in the words of the property.
LEMMA ComparedSame ==
  ASSUME request' = request PROVE Compared' <=> Compared
<1>1. scopes' = scopes /\ rules' = rules /\ ScopeIds' = ScopeIds
  BY SameRequest
<1> QED BY <1>1 DEF Compared, OnlyDenies, OnlyNames, FlatStars, Renames, Selects, IsSelect

\* Without set operations and with deny rules only, when stars read tables only
\* or the rules go by names alone and no starred list renames, no statement the
\* column rules return asks for an item they dropped, however deep its scopes
\* nest (rewrite.py:100-173).
THEOREM DroppedOnlyWhereUnusedAlways == Spec => []DroppedOnlyWhereUnused
<1> DEFINE Inv == Typed /\ Screened /\ Tracked /\ DroppedOnlyWhereUnused
<1>1. Init => Inv
  <2> SUFFICES ASSUME Init PROVE Inv
    OBVIOUS
  <2>1. Typed /\ Screened
    BY TypedInit, ScreenedInit
  <2>2. Tracked
    <3>1. pc = "qualify" /\ next = 1 /\ \A i \in ScopeIds : ~(i < 1)
      BY <2>1, ScopeFacts DEF Init, Typed, ListsOK
    <3> QED BY <3>1 DEF Tracked
  <2> QED BY <2>1, <2>2 DEF Init, DroppedOnlyWhereUnused
<1>2. Inv /\ [Next]_vars => Inv'
  <2> SUFFICES ASSUME Inv, [Next]_vars PROVE Inv'
    OBVIOUS
  <2>0. ListsOK /\ next \in ScopeIds /\ request' = request
    BY DEF Typed, ListsOK, Next, vars, Qualify, CheckReferences, DropItems, Execute, RunScope, Reject
  <2>1. Typed' /\ Screened' /\ Tracked'
    BY <2>0, TypedStep, ScreenedStep, TrackedStep
  <2>2. DroppedOnlyWhereUnused <=> (Compared => pc # "unresolved")
    BY DEF DroppedOnlyWhereUnused, Compared, Selects
  <2>3. DroppedOnlyWhereUnused' <=> (Compared' => pc' # "unresolved")
    BY DEF DroppedOnlyWhereUnused, Compared, Selects
  <2>4. ASSUME Compared, pc' = "unresolved" PROVE FALSE
    <3>1. pc # "unresolved"
      BY <2>2, <2>4
    <3>2. Reject /\ pc = "run" /\ Dangling(next)
      BY <2>4, <3>1 DEF Next, vars, Qualify, CheckReferences, DropItems, Execute, RunScope, Reject,
                       Continue
    <3>3. Accepted
      BY <3>2 DEF Screened
    <3>4. PICK full : Tracks(full)
      BY <2>4, <3>2 DEF Tracked, Compared
    <3>5. Passed(full)
      BY <3>2, <3>4 DEF Tracks, Passed
    <3>6. \A ref \in ReadBy(next) : Resolves(next, ref)
      BY <2>0, <2>4, <3>3, <3>5, NothingMissing
    <3> QED BY <3>2, <3>6 DEF Dangling, ReadBy
  <2> QED BY <2>0, <2>1, <2>3, <2>4, ComparedSame
<1>3. Inv => DroppedOnlyWhereUnused
  OBVIOUS
<1> QED BY <1>1, <1>2, <1>3, PTL DEF Spec
=============================================================================
