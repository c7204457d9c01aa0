-------------------------- MODULE CostChecksProofs --------------------------
(* Theorems about the shared scope index and the checks that read it, for   *)
(* statements of any number of selects and sources, every catalog and       *)
(* policy.                                                                  *)
EXTENDS CostChecks, DataInduction

\* What an injection adds mentions a column.
LEMMA FilterTyped ==
  ASSUME NEW alias \in Aliases PROVE Filter(alias) \in Conjunct
BY GovernedAssumption DEF Filter, Conjunct, Use

LEMMA PositionTyped ==
  ASSUME tree \in Seq(Select), NEW i, NEW k, <<i, k>> \in Positions(tree)
  PROVE  /\ i \in DOMAIN tree /\ i \in Nat /\ tree[i] \in Select
         /\ k \in DOMAIN tree[i].sources /\ k \in Nat
         /\ tree[i].sources \in Seq(Source)
         /\ tree[i].sources[k] \in Source
<1>1. i \in DOMAIN tree /\ k \in DOMAIN tree[i].sources
  BY DEF Positions
<1>2. i \in Nat /\ tree[i] \in Select
  BY <1>1
<1>3. tree[i].sources \in Seq(Source)
  BY <1>2 DEF Select
<1> QED BY <1>1, <1>2, <1>3

-----------------------------------------------------------------------------
(* Names.                                                                   *)

\* Selects are written in later ones.
Nested(t) == \A i \in DOMAIN t : Inner(t[i]) \cup Derived(t[i]) \subseteq 1..(i - 1)

Places(t) == Positions(t) \cup {<<0, 0>>}
OwnOf(t, j, alias) == {k \in DOMAIN t[j].sources : t[j].sources[k].alias = alias}

LEMMA PositionIs ==
  ASSUME NEW t, NEW i, NEW k
  PROVE  <<i, k>> \in Positions(t) <=> i \in DOMAIN t /\ k \in DOMAIN t[i].sources
BY DEF Positions

LEMMA AroundIsLater ==
  ASSUME NEW t \in Seq(Select), Nested(t), NEW j \in DOMAIN t, Around(t, j) # {}
  PROVE  (CHOOSE o \in Around(t, j) : TRUE) \in DOMAIN t /\ j < (CHOOSE o \in Around(t, j) : TRUE)
<1> DEFINE o == CHOOSE o \in Around(t, j) : TRUE
<1>1. o \in Around(t, j)
  OBVIOUS
<1>2. o \in DOMAIN t /\ j \in Inner(t[o])
  BY <1>1 DEF Around
<1>3. j \in 1..(o - 1) /\ o \in Nat
  BY <1>2 DEF Nested
<1> QED BY <1>2, <1>3

\* An alias stands for a source of the select itself or of the nearest one
\* around it that has the alias, for nothing if there is none.
LEMMA BindingsSteps ==
  ASSUME NEW t \in Seq(Select), Nested(t), NEW alias
  PROVE  /\ Bindings(t, alias) \in [DOMAIN t -> Places(t)]
         /\ \A j \in DOMAIN t :
              Bindings(t, alias)[j] =
                IF OwnOf(t, j, alias) # {} THEN <<j, CHOOSE k \in OwnOf(t, j, alias) : TRUE>>
                ELSE IF Around(t, j) = {} THEN <<0, 0>>
                ELSE Bindings(t, alias)[CHOOSE o \in Around(t, j) : TRUE]
<1> DEFINE N == Len(t)
           D == DOMAIN t
           V == Places(t)
           rank == [j \in D |-> N - j]
           next(f, j) == IF OwnOf(t, j, alias) # {} THEN <<j, CHOOSE k \in OwnOf(t, j, alias) : TRUE>>
                         ELSE IF Around(t, j) = {} THEN <<0, 0>>
                         ELSE f[CHOOSE o \in Around(t, j) : TRUE]
           G == [f \in FunctionsOn(D, V) |-> [j \in D |-> next(f, j)]]
<1>1. N \in Nat /\ D = 1..N /\ D \subseteq Nat
  OBVIOUS
<1>2. \A j \in D : rank[j] \in 0..N
  BY <1>1
<1>3. ASSUME NEW j \in D, OwnOf(t, j, alias) # {} PROVE <<j, CHOOSE k \in OwnOf(t, j, alias) : TRUE>> \in V
  <2>1. (CHOOSE k \in OwnOf(t, j, alias) : TRUE) \in DOMAIN t[j].sources
    BY <1>3 DEF OwnOf
  <2> QED BY <2>1, PositionIs DEF Places
<1>4. ASSUME NEW f \in [D -> V], NEW j \in D PROVE next(f, j) \in V
  <2>1. CASE OwnOf(t, j, alias) # {}
    BY <2>1, <1>3
  <2>2. CASE OwnOf(t, j, alias) = {} /\ Around(t, j) = {}
    BY <2>2 DEF Places
  <2>3. CASE OwnOf(t, j, alias) = {} /\ Around(t, j) # {}
    <3>1. (CHOOSE o \in Around(t, j) : TRUE) \in D
      BY <2>3, AroundIsLater
    <3> HIDE DEF V, D
    <3> QED BY <2>3, <3>1
  <2> QED BY <2>1, <2>2, <2>3
<1>5. G \in [FunctionsOn(D, V) -> FunctionsOn(D, V)]
  <2> HIDE DEF V, D, next
  <2> QED BY <1>4 DEF FunctionsOn
<1>6. LowerDecide(G, D, V, rank)
  <2>0. \A f \in [D -> V] : \A j \in D : G[f][j] = next(f, j)
    <3> HIDE DEF D, V, next
    <3> QED BY DEF FunctionsOn
  <2> SUFFICES ASSUME NEW f \in [D -> V], NEW g \in [D -> V], NEW j \in D,
                      \A i \in D : rank[i] < rank[j] => f[i] = g[i]
               PROVE  next(f, j) = next(g, j)
    <3> HIDE DEF G, D, V, next, rank
    <3> QED BY <2>0 DEF LowerDecide
  <2>1. CASE Around(t, j) = {}
    BY <2>1
  <2>2. CASE Around(t, j) # {}
    <3> DEFINE o == CHOOSE o \in Around(t, j) : TRUE
    <3>1. o \in D /\ j < o /\ o \in Nat /\ j \in Nat
      BY <2>2, AroundIsLater, <1>1
    <3>2. rank[o] < rank[j]
      <4> HIDE DEF o
      <4> QED BY <3>1, <1>1
    <3>3. f[o] = g[o]
      BY <3>1, <3>2
    <3> QED BY <3>3
  <2> QED BY <2>1, <2>2
<1>7. V # {}
  BY DEF Places
<1>8. PICK f \in [D -> V] : G[f] = f
  <2> HIDE DEF D, V, G, N, rank
  <2>1. N \in Nat
    BY <1>1
  <2> QED BY <2>1, <1>2, <1>5, <1>6, <1>7, RankedFixpointExists
<1>9. f = [j \in D |-> next(f, j)]
  <2>1. f \in FunctionsOn(D, V)
    BY <1>8 DEF FunctionsOn
  <2> HIDE DEF D, V, next
  <2> QED BY <1>8, <2>1
<1>10. Bindings(t, alias) = [j \in D |-> next(Bindings(t, alias), j)]
  BY <1>9 DEF Bindings, OwnOf
<1>11. ASSUME NEW j \in D PROVE Bindings(t, alias)[j] = next(Bindings(t, alias), j)
  <2> HIDE DEF D, next
  <2> QED BY <1>10
<1>12. Bindings(t, alias) \in [D -> V]
  <2> DEFINE A == Bindings(t, alias)
             S == {j \in D : A[j] \in V}
  <2>1. A = [j \in D |-> A[j]] /\ \A j \in D : A[j] = next(A, j)
    <3> HIDE DEF D, next
    <3> QED BY <1>10, <1>11
  <2> HIDE DEF A
  <2>2. ASSUME NEW j \in D, \A i \in D : rank[i] < rank[j] => i \in S PROVE j \in S
    <3>1. CASE OwnOf(t, j, alias) # {}
      BY <2>1, <3>1, <1>3
    <3>2. CASE OwnOf(t, j, alias) = {} /\ Around(t, j) = {}
      BY <2>1, <3>2 DEF Places
    <3>3. CASE OwnOf(t, j, alias) = {} /\ Around(t, j) # {}
      <4> DEFINE o == CHOOSE o \in Around(t, j) : TRUE
      <4>1. o \in D /\ j < o /\ o \in Nat /\ j \in Nat
        BY <3>3, AroundIsLater, <1>1
      <4>2. A[j] = A[o]
        BY <2>1, <3>3
      <4> HIDE DEF o
      <4>3. rank[o] < rank[j]
        BY <4>1, <1>1
      <4> QED BY <2>2, <4>1, <4>2, <4>3
    <3> QED BY <3>1, <3>2, <3>3
  <2>3. \A j \in D : rank[j] \in Nat
    BY <1>2
  <2>4. D \subseteq S
    <3> HIDE DEF D, S, rank
    <3> QED BY <2>2, <2>3, AllByRank
  <2> HIDE DEF D, V
  <2>5. A \in [D -> V]
    BY <2>1, <2>4
  <2> QED BY <2>5 DEF A
<1> QED BY <1>11, <1>12

\* It stands for a source of that alias.
LEMMA BindingNames ==
  ASSUME NEW t \in Seq(Select), Nested(t), NEW alias, NEW i \in DOMAIN t
  PROVE  \/ Binding(t, i, alias) = <<0, 0>>
         \/ \E j \in DOMAIN t : \E k \in DOMAIN t[j].sources :
              Binding(t, i, alias) = <<j, k>> /\ t[j].sources[k].alias = alias
<1> DEFINE D == DOMAIN t
           N == Len(t)
           B == Bindings(t, alias)
           Fits(x) == \/ x = <<0, 0>>
                      \/ \E j \in DOMAIN t : \E k \in DOMAIN t[j].sources :
                           x = <<j, k>> /\ t[j].sources[k].alias = alias
           S == {j \in D : Fits(B[j])}
           rank == [j \in D |-> N - j]
<1>1. N \in Nat /\ D = 1..N
  OBVIOUS
<1>2. \A j \in D : rank[j] \in Nat
  BY <1>1
<1>3. ASSUME NEW j \in D, \A o \in D : rank[o] < rank[j] => o \in S PROVE j \in S
  <2> HIDE DEF B
  <2>1. B[j] = IF OwnOf(t, j, alias) # {} THEN <<j, CHOOSE k \in OwnOf(t, j, alias) : TRUE>>
               ELSE IF Around(t, j) = {} THEN <<0, 0>>
               ELSE B[CHOOSE o \in Around(t, j) : TRUE]
    BY BindingsSteps DEF B
  <2>2. CASE OwnOf(t, j, alias) # {}
    <3>1. PICK k : k \in OwnOf(t, j, alias) /\ B[j] = <<j, k>>
      BY <2>1, <2>2
    <3> QED BY <3>1 DEF OwnOf
  <2>3. CASE OwnOf(t, j, alias) = {} /\ Around(t, j) = {}
    BY <2>1, <2>3
  <2>4. CASE OwnOf(t, j, alias) = {} /\ Around(t, j) # {}
    <3> DEFINE o == CHOOSE o \in Around(t, j) : TRUE
    <3>1. o \in D /\ j < o /\ B[j] = B[o]
      BY <2>1, <2>4, AroundIsLater
    <3> HIDE DEF o
    <3>2. rank[o] < rank[j]
      BY <3>1, <1>1
    <3> QED BY <1>3, <3>1, <3>2
  <2> QED BY <2>2, <2>3, <2>4
<1>4. D \subseteq S
  <2> HIDE DEF D, S, rank
  <2> QED BY <1>2, <1>3, AllByRank
<1> QED BY <1>4 DEF Binding

-----------------------------------------------------------------------------
(* Texts.                                                                   *)

Mention == [use : Use, scope : Nat]

\* What the conjuncts and derived tables of a select mention, when text is what
\* the selects before it do.
TextFrom(t, i, text) ==
  {[use |-> u, scope |-> i] : u \in t[i].items \cup WrapUses(t[i])}
    \cup (UNION {ColumnsIn(i, conj, [j \in conj.inner |-> text[j]]) : conj \in Pool(t[i])})
    \cup UNION {text[j] : j \in Derived(t[i])}

LEMMA SelectTyped ==
  ASSUME NEW t \in Seq(Select), NEW i \in DOMAIN t
  PROVE  /\ t[i] \in Select /\ t[i].items \subseteq Use /\ WrapUses(t[i]) \subseteq Use
         /\ \A conj \in Pool(t[i]) : conj \in Conjunct
<1>1. t[i] \in Select
  OBVIOUS
<1>2. t[i].items \subseteq Use /\ t[i].where \subseteq Conjunct /\ t[i].sources \in Seq(Source)
  BY <1>1 DEF Select
<1>3. ASSUME NEW k \in DOMAIN t[i].sources PROVE t[i].sources[k].on \subseteq Conjunct
  <2>1. t[i].sources[k] \in Source
    BY <1>2
  <2> QED BY <2>1 DEF Source
<1>4. ASSUME NEW conj \in Pool(t[i]) PROVE conj \in Conjunct
  BY <1>2, <1>3 DEF Pool
<1>5. ASSUME NEW k \in DOMAIN t[i].sources PROVE Filter(t[i].sources[k].alias).uses \subseteq Use
  <2>1. t[i].sources[k].alias \in Aliases
    <3>1. t[i].sources[k] \in Source
      BY <1>2
    <3> QED BY <3>1 DEF Source
  <2>2. Filter(t[i].sources[k].alias) \in Conjunct
    BY <2>1, FilterTyped
  <2> QED BY <2>2 DEF Conjunct
<1>6. WrapUses(t[i]) \subseteq Use
  BY <1>5 DEF WrapUses
<1> QED BY <1>1, <1>2, <1>4, <1>6

LEMMA WithinIsBefore ==
  ASSUME NEW t \in Seq(Select), Nested(t), NEW i \in DOMAIN t
  PROVE  /\ \A conj \in Pool(t[i]) : \A j \in conj.inner : j \in DOMAIN t /\ j < i
         /\ \A j \in Derived(t[i]) : j \in DOMAIN t /\ j < i
<1>1. \A j \in 1..(i - 1) : j \in DOMAIN t /\ j < i
  OBVIOUS
<1>2. \A conj \in Pool(t[i]) : conj.inner \subseteq Inner(t[i])
  BY DEF Inner
<1> QED BY <1>1, <1>2 DEF Nested

LEMMA ColumnsInTyped ==
  ASSUME NEW i \in Nat, NEW conj \in Conjunct, NEW text, \A j \in conj.inner : text[j] \subseteq Mention
  PROVE  ColumnsIn(i, conj, text) \subseteq Mention
<1>1. conj.uses \subseteq Use /\ conj.compared \in BOOLEAN
  BY DEF Conjunct
<1>2. ASSUME NEW m \in Mention
      PROVE  [m EXCEPT !.use.compared = @ \/ conj.compared] \in Mention
  BY <1>1 DEF Mention, Use
<1>3. \A u \in conj.uses : [use |-> u, scope |-> i] \in Mention
  BY <1>1 DEF Mention
<1> QED BY <1>2, <1>3 DEF ColumnsIn

LEMMA TextFromTyped ==
  ASSUME NEW t \in Seq(Select), Nested(t), NEW i \in DOMAIN t, NEW text,
         \A j \in DOMAIN t : j < i => text[j] \subseteq Mention
  PROVE  TextFrom(t, i, text) \subseteq Mention
<1>1. i \in Nat
  OBVIOUS
<1>2. \A u \in t[i].items \cup WrapUses(t[i]) : [use |-> u, scope |-> i] \in Mention
  BY <1>1, SelectTyped DEF Mention
<1>3. ASSUME NEW conj \in Pool(t[i])
      PROVE  ColumnsIn(i, conj, [j \in conj.inner |-> text[j]]) \subseteq Mention
  BY <1>1, SelectTyped, WithinIsBefore, ColumnsInTyped
<1>4. \A j \in Derived(t[i]) : text[j] \subseteq Mention
  BY WithinIsBefore
<1> DEFINE A == {[use |-> u, scope |-> i] : u \in t[i].items \cup WrapUses(t[i])}
           B == UNION {ColumnsIn(i, conj, [j \in conj.inner |-> text[j]]) : conj \in Pool(t[i])}
           C == UNION {text[j] : j \in Derived(t[i])}
<1>5. A \subseteq Mention /\ B \subseteq Mention /\ C \subseteq Mention
  BY <1>2, <1>3, <1>4
<1>6. TextFrom(t, i, text) = A \cup B \cup C
  BY DEF TextFrom
<1> HIDE DEF A, B, C
<1> QED BY <1>5, <1>6

LEMMA TextFromBefore ==
  ASSUME NEW t \in Seq(Select), Nested(t), NEW i \in DOMAIN t, NEW f, NEW g,
         \A j \in DOMAIN t : j < i => f[j] = g[j]
  PROVE  TextFrom(t, i, f) = TextFrom(t, i, g)
<1>1. ASSUME NEW conj \in Pool(t[i])
      PROVE  [j \in conj.inner |-> f[j]] = [j \in conj.inner |-> g[j]]
  BY WithinIsBefore
<1>2. \A j \in Derived(t[i]) : f[j] = g[j]
  BY WithinIsBefore
<1>3. UNION {ColumnsIn(i, conj, [j \in conj.inner |-> f[j]]) : conj \in Pool(t[i])}
        = UNION {ColumnsIn(i, conj, [j \in conj.inner |-> g[j]]) : conj \in Pool(t[i])}
  <2>1. \A conj \in Pool(t[i]) : ColumnsIn(i, conj, [j \in conj.inner |-> f[j]])
                                   = ColumnsIn(i, conj, [j \in conj.inner |-> g[j]])
    BY <1>1
  <2> QED BY <2>1
<1>4. UNION {f[j] : j \in Derived(t[i])} = UNION {g[j] : j \in Derived(t[i])}
  BY <1>2
<1> QED BY <1>3, <1>4 DEF TextFrom

\* What a select mentions: its items, its conjuncts with the selects in them,
\* and its derived tables.
LEMMA TextSteps ==
  ASSUME tree \in Seq(Select), Nested(tree)
  PROVE  \A i \in DOMAIN tree : Text[i] = TextFrom(tree, i, Text) /\ Text[i] \subseteq Mention
<1> DEFINE N == Len(tree)
           D == DOMAIN tree
           V == SUBSET Mention
           rank == [j \in D |-> j]
           G == [f \in FunctionsOn(D, V) |-> [i \in D |-> TextFrom(tree, i, f)]]
<1>1. N \in Nat /\ D = 1..N
  OBVIOUS
<1>2. \A j \in D : rank[j] \in 0..N /\ rank[j] \in Nat
  BY <1>1
<1>3. ASSUME NEW f \in [D -> V], NEW i \in D PROVE TextFrom(tree, i, f) \in V
  BY TextFromTyped
<1>4. G \in [FunctionsOn(D, V) -> FunctionsOn(D, V)]
  <2> HIDE DEF V, D
  <2> QED BY <1>3 DEF FunctionsOn
<1>5. LowerDecide(G, D, V, rank)
  <2>1. \A f \in [D -> V] : \A j \in D : G[f][j] = TextFrom(tree, j, f)
    <3> HIDE DEF D, V
    <3> QED BY DEF FunctionsOn
  <2> SUFFICES ASSUME NEW f \in [D -> V], NEW g \in [D -> V], NEW i \in D,
                      \A j \in D : rank[j] < rank[i] => f[j] = g[j]
               PROVE  TextFrom(tree, i, f) = TextFrom(tree, i, g)
    <3> HIDE DEF G, D, V, rank
    <3> QED BY <2>1 DEF LowerDecide
  <2>2. \A j \in D : j < i => f[j] = g[j]
    OBVIOUS
  <2> HIDE DEF V, rank
  <2> QED BY <2>2, TextFromBefore
<1>6. PICK f \in [D -> V] : G[f] = f
  <2> HIDE DEF D, V, G, N, rank
  <2>1. N \in Nat /\ V # {}
    BY <1>1 DEF V
  <2> QED BY <2>1, <1>2, <1>4, <1>5, RankedFixpointExists
<1>7. f = [i \in D |-> TextFrom(tree, i, f)]
  <2>1. f \in FunctionsOn(D, V)
    BY <1>6 DEF FunctionsOn
  <2> HIDE DEF D, V
  <2> QED BY <1>6, <2>1
<1>8. Text = [i \in D |-> TextFrom(tree, i, Text)]
  BY <1>7 DEF Text, TextFrom
<1>9. \A i \in D : Text[i] = TextFrom(tree, i, Text)
  <2> HIDE DEF D
  <2> QED BY <1>8
<1> DEFINE S == {i \in D : Text[i] \subseteq Mention}
<1>10. ASSUME NEW i \in D, \A j \in D : rank[j] < rank[i] => j \in S PROVE i \in S
  <2>1. \A j \in D : j < i => Text[j] \subseteq Mention
    BY <1>10
  <2>2. TextFrom(tree, i, Text) \subseteq Mention
    BY <2>1, TextFromTyped
  <2> QED BY <2>2, <1>9
<1>11. D \subseteq S
  <2> HIDE DEF D, S, rank
  <2> QED BY <1>2, <1>10, AllByRank
<1> QED BY <1>9, <1>11

LEMMA InColumnsIn ==
  ASSUME NEW i, NEW conj, NEW text, NEW m \in ColumnsIn(i, conj, text)
  PROVE  \/ \E u \in conj.uses : m = [use |-> u, scope |-> i]
         \/ \E o \in conj.inner : \E y \in text[o] : m = [y EXCEPT !.use.compared = @ \/ conj.compared]
BY DEF ColumnsIn

\* What is written in a select itself and in its wraps.
Written(select) == Uses(select) \cup WrapUses(select)

\* A mention keeps the alias and the column of what is written in its select.
LEMMA MentionIsWritten ==
  ASSUME tree \in Seq(Select), Nested(tree), NEW i \in DOMAIN tree, NEW m \in Text[i]
  PROVE  /\ m \in Mention /\ m.scope \in DOMAIN tree
         /\ \E u \in Written(tree[m.scope]) : u.alias = m.use.alias /\ u.column = m.use.column
<1> DEFINE Fits(x) == /\ x.scope \in DOMAIN tree
                      /\ \E u \in Written(tree[x.scope]) : u.alias = x.use.alias /\ u.column = x.use.column
           D == DOMAIN tree
           rank == [j \in D |-> j]
           S == {j \in D : \A x \in Text[j] : Fits(x)}
<1>1. D \subseteq Nat /\ \A j \in D : rank[j] \in Nat
  OBVIOUS
<1>2. ASSUME NEW j \in D, \A o \in D : rank[o] < rank[j] => o \in S PROVE j \in S
  <2> SUFFICES ASSUME NEW x \in Text[j] PROVE Fits(x)
    OBVIOUS
  <2>1. \A o \in D : o < j => \A y \in Text[o] : Fits(y) /\ y \in Mention
    BY <1>2, TextSteps
  <2> HIDE DEF Fits, D
  <2>2. Text[j] = TextFrom(tree, j, Text)
    BY TextSteps DEF D
  <2>3. CASE x \in {[use |-> u, scope |-> j] : u \in tree[j].items \cup WrapUses(tree[j])}
    BY <2>3 DEF Fits, Written, Uses, D
  <2>4. ASSUME NEW conj \in Pool(tree[j]), x \in ColumnsIn(j, conj, [o \in conj.inner |-> Text[o]])
        PROVE  Fits(x)
    <3>1. CASE \E u \in conj.uses : x = [use |-> u, scope |-> j]
      BY <3>1 DEF Fits, Written, Uses, D
    <3>2. ASSUME NEW o \in conj.inner, NEW y \in Text[o],
                 x = [y EXCEPT !.use.compared = @ \/ conj.compared]
          PROVE  Fits(x)
      <4>1. Fits(y) /\ y \in Mention
        BY <2>1, WithinIsBefore DEF D
      <4>2. x.scope = y.scope /\ x.use.alias = y.use.alias /\ x.use.column = y.use.column
        BY <3>2, <4>1 DEF Mention, Use
      <4> QED BY <4>1, <4>2 DEF Fits
    <3>3. \/ \E u \in conj.uses : x = [use |-> u, scope |-> j]
          \/ \E o \in conj.inner : \E y \in Text[o] : x = [y EXCEPT !.use.compared = @ \/ conj.compared]
      BY <2>4, InColumnsIn
    <3> QED BY <3>1, <3>2, <3>3
  <2>5. ASSUME NEW o \in Derived(tree[j]), x \in Text[o] PROVE Fits(x)
    BY <2>1, <2>5, WithinIsBefore DEF D
  <2> QED BY <2>2, <2>3, <2>4, <2>5 DEF TextFrom
<1>3. D \subseteq S
  <2> HIDE DEF D, S, rank
  <2> QED BY <1>1, <1>2, AllByRank
<1> QED BY <1>3, TextSteps

\* So does one in a conjunct.
LEMMA MentionInConjunct ==
  ASSUME tree \in Seq(Select), Nested(tree), NEW i \in DOMAIN tree, NEW conj \in Pool(tree[i]),
         NEW m \in Mentions(i, conj)
  PROVE  /\ m \in Mention /\ m.scope \in DOMAIN tree
         /\ \E u \in Written(tree[m.scope]) : u.alias = m.use.alias /\ u.column = m.use.column
<1> DEFINE Fits(x) == /\ x \in Mention /\ x.scope \in DOMAIN tree
                      /\ \E u \in Written(tree[x.scope]) : u.alias = x.use.alias /\ u.column = x.use.column
<1> HIDE DEF Fits
<1>0. i \in Nat /\ conj \in Conjunct
  BY SelectTyped
<1>1. CASE \E u \in conj.uses : m = [use |-> u, scope |-> i]
  BY <1>0, <1>1 DEF Fits, Written, Uses, Conjunct, Mention
<1>2. ASSUME NEW o \in conj.inner, NEW y \in Text[o],
             m = [y EXCEPT !.use.compared = @ \/ conj.compared]
      PROVE  Fits(m)
  <2>1. o \in DOMAIN tree
    BY WithinIsBefore
  <2>2. Fits(y)
    BY <2>1, MentionIsWritten DEF Fits
  <2>3. /\ m \in Mention
        /\ m.scope = y.scope /\ m.use.alias = y.use.alias /\ m.use.column = y.use.column
    BY <1>0, <1>2, <2>2 DEF Fits, Mention, Use, Conjunct
  <2> QED BY <2>2, <2>3 DEF Fits
<1>3. \/ \E u \in conj.uses : m = [use |-> u, scope |-> i]
      \/ \E o \in conj.inner : \E y \in Text[o] : m = [y EXCEPT !.use.compared = @ \/ conj.compared]
  BY InColumnsIn DEF Mentions
<1> QED BY <1>1, <1>2, <1>3 DEF Fits

-----------------------------------------------------------------------------
(* Changes to a statement.                                                  *)

\* What the maps keep of a statement.
Alike(t, u) ==
  /\ DOMAIN t = DOMAIN u
  /\ \A i \in DOMAIN t :
       /\ DOMAIN t[i].sources = DOMAIN u[i].sources
       /\ \A k \in DOMAIN t[i].sources :
            /\ t[i].sources[k].alias = u[i].sources[k].alias
            /\ t[i].sources[k].table = u[i].sources[k].table
            /\ t[i].sources[k].wrapped = u[i].sources[k].wrapped

\* The maps of two statements that differ in conditions only are the same: a
\* filter in a WHERE or an ON need not invalidate the index.
LEMMA AlikeMaps ==
  ASSUME NEW t, NEW u, Alike(t, u)
  PROVE  Positions(t) = Positions(u) /\ ScopeMaps(t) = ScopeMaps(u)
<1>1. Positions(t) = Positions(u)
  BY DEF Alike, Positions
<1>2. \A at \in Positions(t) : at[1] \in DOMAIN t /\ at[2] \in DOMAIN t[at[1]].sources
  BY DEF Positions
<1>3. ScopesOf(t) = ScopesOf(u)
  BY <1>1, <1>2 DEF Alike, ScopesOf
<1>4. \A i \in DOMAIN t : \A k \in DOMAIN t[i].sources :
        SourceAt(t, i, k) = SourceAt(u, i, k) /\ CopyAt(t, i, k) = CopyAt(u, i, k)
  BY DEF Alike, SourceAt, CopyAt
<1>5. \A s \in ScopesOf(t) : s[1] \in DOMAIN t /\ (s[2] # 0 => s[2] \in DOMAIN t[s[1]].sources)
  BY <1>2 DEF ScopesOf
<1> DEFINE map(v, s) == IF s[2] = 0 THEN [k \in DOMAIN v[s[1]].sources |-> SourceAt(v, s[1], k)]
                                    ELSE <<CopyAt(v, s[1], s[2])>>
<1>6. ASSUME NEW s \in ScopesOf(t) PROVE map(t, s) = map(u, s)
  BY <1>4, <1>5 DEF Alike
<1>7. ScopeMaps(t) = [s \in ScopesOf(t) |-> map(t, s)] /\ ScopeMaps(u) = [s \in ScopesOf(u) |-> map(u, s)]
  BY DEF ScopeMaps
<1> HIDE DEF map
<1> QED BY <1>1, <1>3, <1>6, <1>7

\* A select or a source is exchanged for another one.
LEMMA SelectReplaced ==
  ASSUME tree \in Seq(Select), NEW i \in DOMAIN tree, NEW new \in Select
  PROVE  /\ [tree EXCEPT ![i] = new] \in Seq(Select)
         /\ DOMAIN [tree EXCEPT ![i] = new] = DOMAIN tree
OBVIOUS

LEMMA SourceReplaced ==
  ASSUME NEW select \in Select, NEW k \in DOMAIN select.sources, NEW new \in Source
  PROVE  [select EXCEPT !.sources[k] = new] \in Select
<1>1. select.sources \in Seq(Source)
  BY DEF Select
<1>2. [select.sources EXCEPT ![k] = new] \in Seq(Source)
  BY <1>1
<1> QED BY <1>2 DEF Select

-----------------------------------------------------------------------------
(* The scope index.                                                         *)

\* The statement stays one, an injection points into it, and while there are
\* injections the index is right unless something has been wrapped.
Injected ==
  /\ tree \in Seq(Select)
  /\ pc \in {"column_policy", "row_level_security"} => todo = {}
  /\ pc = "inject" => todo \subseteq Positions(tree)
  /\ index \in {NoIndex, ScopeMaps(tree)} \/ (pc = "inject" /\ wrapped_any)

LEMMA InfosFresh ==
  ASSUME Injected, pc # "inject" PROVE infos = ScopeMaps(tree)
BY DEF Injected, infos

LEMMA InjectedInit == Init => Injected
BY StatementsAssumption DEF Init, Injected

LEMMA ScanKeeps ==
  ASSUME Injected, ScanReferences PROVE Injected'
<1>1. infos = ScopeMaps(tree) /\ pc' = "inject" /\ tree' = tree
  BY InfosFresh DEF ScanReferences
<1>2. CASE policy.rls
  <2>1. index' = ScopeMaps(tree) /\ todo' \subseteq Queued
    BY <1>1, <1>2 DEF ScanReferences
  <2>2. todo' \subseteq Positions(tree)
    BY <2>1 DEF Queued
  <2> QED BY <1>1, <2>1, <2>2 DEF Injected
<1>3. CASE ~policy.rls
  <2> QED BY <1>1, <1>3 DEF Injected, ScanReferences
<1> QED BY <1>2, <1>3

\* A wrap is seen in the tree, and leaves every position where it was.
LEMMA WrapKeeps ==
  ASSUME Injected, NEW i, NEW k, Inject(i, k),
         tree' = [tree EXCEPT ![i].sources[k].wrapped = TRUE]
  PROVE  Injected'
<1>1. <<i, k>> \in Positions(tree) /\ pc = "inject" /\ pc' = pc /\ todo' \subseteq todo
  BY DEF Inject, Injected
<1>2. /\ i \in DOMAIN tree /\ tree[i] \in Select
      /\ k \in DOMAIN tree[i].sources /\ tree[i].sources[k] \in Source
  BY <1>1, PositionTyped DEF Injected
<1> DEFINE new == [tree[i].sources[k] EXCEPT !.wrapped = TRUE]
           select == [tree[i] EXCEPT !.sources[k] = new]
<1>3. new \in Source /\ new.wrapped
  BY <1>2 DEF Source
<1>4. tree' = [tree EXCEPT ![i] = select]
  BY <1>2
<1>5. select \in Select
  BY <1>2, <1>3, SourceReplaced
<1>6. select.sources = [tree[i].sources EXCEPT ![k] = new]
  BY <1>2 DEF Select
<1>7. tree' \in Seq(Select) /\ DOMAIN tree' = DOMAIN tree
  BY <1>2, <1>4, <1>5, SelectReplaced DEF Injected
<1>8. \A j \in DOMAIN tree : DOMAIN tree'[j].sources = DOMAIN tree[j].sources
  BY <1>4, <1>6
<1>9. Positions(tree)' = Positions(tree)
  BY <1>7, <1>8 DEF Positions
<1>10. tree'[i].sources[k] = new
  BY <1>2, <1>4, <1>6
<1>11. wrapped_any'
  <2>1. <<i, k>> \in Positions(tree') /\ <<i, k>>[1] = i /\ <<i, k>>[2] = k
    BY <1>1, <1>9
  <2>2. tree'[<<i, k>>[1]].sources[<<i, k>>[2]].wrapped
    BY <1>3, <1>10
  <2> QED BY <2>1, <2>2 DEF wrapped_any
<1> QED BY <1>1, <1>7, <1>9, <1>11 DEF Injected

\* A condition that is added leaves the maps as they are.
LEMMA FilterKeeps ==
  ASSUME Injected, pc' = pc, pc = "inject", index' = index, todo' \subseteq todo,
         tree' \in Seq(Select), Alike(tree, tree')
  PROVE  Injected'
<1>1. Positions(tree)' = Positions(tree) /\ ScopeMaps(tree)' = ScopeMaps(tree)
  BY AlikeMaps
<1>2. wrapped_any => wrapped_any'
  <2> SUFFICES ASSUME NEW at \in Positions(tree), tree[at[1]].sources[at[2]].wrapped
               PROVE  wrapped_any'
    BY DEF wrapped_any
  <2>1. at[1] \in DOMAIN tree /\ at[2] \in DOMAIN tree[at[1]].sources
    BY DEF Positions
  <2>2. tree'[at[1]].sources[at[2]].wrapped
    BY <2>1 DEF Alike
  <2> QED BY <1>1, <2>2 DEF wrapped_any
<1> QED BY <1>1, <1>2 DEF Injected

LEMMA InjectKeeps ==
  ASSUME Injected, NEW i, NEW k, Inject(i, k) PROVE Injected'
<1> DEFINE s == tree[i].sources[k]
<1>1. /\ <<i, k>> \in Positions(tree) /\ pc = "inject" /\ pc' = pc /\ index' = index
      /\ todo' \subseteq todo
  BY DEF Inject, Injected
<1>2. /\ i \in DOMAIN tree /\ tree[i] \in Select
      /\ k \in DOMAIN tree[i].sources /\ s \in Source
  BY <1>1, PositionTyped DEF Injected
<1>3. Filter(s.alias) \in Conjunct
  BY <1>2, FilterTyped DEF Source
<1>4. CASE tree' = [tree EXCEPT ![i].sources[k].wrapped = TRUE]
  BY <1>4, WrapKeeps
<1>5. CASE tree' = [tree EXCEPT ![i].sources[k].on = @ \cup {Filter(s.alias)}]
  <2> DEFINE new == [s EXCEPT !.on = @ \cup {Filter(s.alias)}]
             select == [tree[i] EXCEPT !.sources[k] = new]
  <2>1. new \in Source /\ new.alias = s.alias /\ new.table = s.table /\ new.wrapped = s.wrapped
    BY <1>2, <1>3 DEF Source
  <2>2. tree' = [tree EXCEPT ![i] = select]
    BY <1>2, <1>5
  <2>3. select \in Select
    BY <1>2, <2>1, SourceReplaced
  <2>4. select.sources = [tree[i].sources EXCEPT ![k] = new]
    BY <1>2 DEF Select
  <2>5. tree' \in Seq(Select) /\ DOMAIN tree' = DOMAIN tree
    BY <1>2, <2>2, <2>3, SelectReplaced DEF Injected
  <2> HIDE DEF new
  <2>6. Alike(tree, tree')
    BY <1>2, <2>1, <2>2, <2>4, <2>5 DEF Alike
  <2> QED BY <1>1, <2>5, <2>6, FilterKeeps
<1>6. CASE tree' = [tree EXCEPT ![i].where = @ \cup {Filter(s.alias)}]
  <2> DEFINE select == [tree[i] EXCEPT !.where = @ \cup {Filter(s.alias)}]
  <2>1. select \in Select /\ select.sources = tree[i].sources
    BY <1>2, <1>3 DEF Select
  <2>2. tree' = [tree EXCEPT ![i] = select]
    BY <1>2, <1>6
  <2>3. tree' \in Seq(Select) /\ DOMAIN tree' = DOMAIN tree
    BY <1>2, <2>1, <2>2, SelectReplaced DEF Injected
  <2>4. Alike(tree, tree')
    BY <1>2, <2>1, <2>2, <2>3 DEF Alike
  <2> QED BY <1>1, <2>3, <2>4, FilterKeeps
<1> QED BY <1>4, <1>5, <1>6 DEF Inject

\* EndInjections: nothing stale is kept after a wrap.
LEMMA EndInjectionsKeeps ==
  ASSUME Injected, EndInjections PROVE Injected'
<1>1. tree' = tree /\ pc' = "join_checks"
  BY DEF EndInjections
<1>2. index' \in {NoIndex, ScopeMaps(tree)}
  BY DEF EndInjections, After, Injected
<1> QED BY <1>1, <1>2 DEF Injected

LEMMA InjectedStep == Injected /\ [Next]_vars => Injected'
<1> SUFFICES ASSUME Injected, [Next]_vars PROVE Injected'
  OBVIOUS
<1>1. CASE ColumnPolicy
  <2>1. infos = ScopeMaps(tree)
    BY <1>1, InfosFresh DEF ColumnPolicy
  <2> QED BY <1>1, <2>1 DEF ColumnPolicy, Injected
<1>2. CASE ScanReferences
  BY <1>2, ScanKeeps
<1>3. CASE EndInjections
  BY <1>3, EndInjectionsKeeps
<1>4. CASE JoinChecks
  <2>1. infos = ScopeMaps(tree)
    BY <1>4, InfosFresh DEF JoinChecks
  <2> QED BY <1>4, <2>1 DEF JoinChecks, Injected
<1>5. CASE PartitionFilters
  <2>1. infos = ScopeMaps(tree)
    BY <1>5, InfosFresh DEF PartitionFilters
  <2> QED BY <1>5, <2>1 DEF PartitionFilters, Injected
<1>6. ASSUME NEW r \in todo, Inject(r[1], r[2]) PROVE Injected'
  BY <1>6, InjectKeeps
<1>7. ASSUME NEW r \in todo, CollectScope(r) PROVE Injected'
  BY <1>7 DEF CollectScope, Injected
<1>8. ASSUME NEW r \in todo, EstimateReference(r) PROVE Injected'
  BY <1>8 DEF EstimateReference, Injected
<1>9. CASE StartEstimate
  BY <1>9 DEF StartEstimate, Injected
<1>10. CASE EndEstimation
  BY <1>10 DEF EndEstimation, Injected
<1>11. CASE UNCHANGED vars
  BY <1>11 DEF vars, Injected, wrapped_any
<1> QED BY <1>1, <1>2, <1>3, <1>4, <1>5, <1>6, <1>7, <1>8, <1>9, <1>10, <1>11 DEF Next

\* After the injections every check sees the statement as it is.
THEOREM IndexIsFreshAlways == Spec => []IndexIsFresh
<1>1. Injected => IndexIsFresh
  BY InfosFresh DEF IndexIsFresh
<1> QED BY <1>1, InjectedInit, InjectedStep, PTL DEF Spec

-----------------------------------------------------------------------------
(* Join sanity.                                                             *)

\* What a condition mentions depends on the statement alone.
LEMMA AliasesSame ==
  ASSUME tree' = tree, NEW i, NEW c PROVE AliasesIn(i, c)' = AliasesIn(i, c)
<1>1. Text' = Text
  BY DEF Text, ColumnsIn, Pool, Derived, WrapUses, Filter
<1> QED BY <1>1 DEF AliasesIn, Mentions, ColumnsIn

LEMMA JudgementsSame ==
  ASSUME tree' = tree, NEW i, NEW k
  PROVE  (Cartesian(i, k)' <=> Cartesian(i, k)) /\ (Suspicious(i, k)' <=> Suspicious(i, k))
<1>1. \A c : AliasesIn(i, c)' = AliasesIn(i, c)
  BY AliasesSame
<1> QED BY <1>1 DEF Cartesian, Suspicious, Links, Prior

\* Every join that is wrong by itself is reported.
JoinsJudged ==
  AfterJoinChecks /\ policy.check_joins =>
    \A i \in DOMAIN tree : \A k \in DOMAIN tree[i].sources :
      k > 1 /\ tree[i].sources[k].join # "unnest" /\ (Cartesian(i, k) \/ Suspicious(i, k)) => Reported(i)

\* A report stays.
LEMMA LaterKeeps ==
  ASSUME tree' = tree, policy' = policy, violations \subseteq violations',
         AfterJoinChecks' => AfterJoinChecks, JoinsJudged
  PROVE  JoinsJudged'
<1>1. \A i : Reported(i) => Reported(i)'
  BY DEF Reported
<1>2. \A i, k : Cartesian(i, k)' \/ Suspicious(i, k)' => Cartesian(i, k) \/ Suspicious(i, k)
  BY JudgementsSame
<1> QED BY <1>1, <1>2 DEF JoinsJudged

LEMMA JoinChecksJudge ==
  ASSUME Injected, JoinChecks PROVE JoinsJudged'
<1> SUFFICES ASSUME policy.check_joins,
                    NEW i \in DOMAIN tree, NEW k \in DOMAIN tree[i].sources,
                    k > 1, tree[i].sources[k].join # "unnest",
                    Cartesian(i, k) \/ Suspicious(i, k)
             PROVE  Reported(i)'
  BY JudgementsSame DEF JoinsJudged, JoinChecks
<1>1. infos = ScopeMaps(tree)
  BY InfosFresh DEF JoinChecks
<1>2. <<i, k>> \in Positions(tree) /\ <<i, 0>> \in DOMAIN infos
  BY <1>1 DEF Positions, ScopeMaps, ScopesOf
<1>3. <<i, k>> \in Joins
  BY <1>2 DEF Joins
<1>4. PICK code \in {"CARTESIAN_JOIN", "SUSPICIOUS_JOIN"}, error \in {policy.strict_joins, FALSE} :
        Violation(code, error, <<i, k>>) \in violations'
  BY <1>3 DEF JoinChecks
<1> QED BY <1>4 DEF Reported, Violation

LEMMA JoinsJudgedStep == Injected /\ JoinsJudged /\ [Next]_vars => JoinsJudged'
<1> SUFFICES ASSUME Injected, JoinsJudged, [Next]_vars PROVE JoinsJudged'
  OBVIOUS
<1> USE DEF AfterJoinChecks
<1>1. CASE ColumnPolicy \/ ScanReferences \/ EndInjections
  BY <1>1 DEF ColumnPolicy, ScanReferences, EndInjections, JoinsJudged
<1>2. CASE JoinChecks
  BY <1>2, JoinChecksJudge
<1>3. CASE PartitionFilters
  BY <1>3, LaterKeeps DEF PartitionFilters
<1>4. ASSUME NEW r \in todo, Inject(r[1], r[2]) PROVE JoinsJudged'
  BY <1>4 DEF Inject, JoinsJudged
<1>5. ASSUME NEW r \in todo, CollectScope(r) PROVE JoinsJudged'
  BY <1>5, LaterKeeps DEF CollectScope
<1>6. ASSUME NEW r \in todo, EstimateReference(r) PROVE JoinsJudged'
  BY <1>6, LaterKeeps DEF EstimateReference
<1>7. CASE StartEstimate
  BY <1>7, LaterKeeps DEF StartEstimate
<1>8. CASE EndEstimation
  BY <1>8, LaterKeeps DEF EndEstimation
<1>9. CASE UNCHANGED vars
  BY <1>9, LaterKeeps DEF vars
<1> QED BY <1>1, <1>2, <1>3, <1>4, <1>5, <1>6, <1>7, <1>8, <1>9 DEF Next

\* The first source of the part without the first one is linked to a source
\* before it, so to the other part.
LEMMA LinkedAcross ==
  ASSUME Injected, JoinsJudged, AfterJoinChecks, policy.check_joins,
         NEW i \in DOMAIN tree, OwnConditions(i), ~Reported(i),
         NEW part \in SUBSET DOMAIN tree[i].sources, 1 \in part,
         NEW rest, rest = DOMAIN tree[i].sources \ part, rest # {},
         \A k \in rest : tree[i].sources[k].join # "unnest"
  PROVE  LET of(ks) == {tree[i].sources[k].alias : k \in ks}
             across(c) == AliasesIn(i, c) \cap of(part) # {} /\ AliasesIn(i, c) \cap of(rest) # {}
         IN  \/ \E conj \in tree[i].where : across({conj})
             \/ \E k \in DOMAIN tree[i].sources : across(tree[i].sources[k].on)
<1> DEFINE of(ks) == {tree[i].sources[k].alias : k \in ks}
           across(c) == AliasesIn(i, c) \cap of(part) # {} /\ AliasesIn(i, c) \cap of(rest) # {}
<1>1. DOMAIN tree[i].sources = 1..Len(tree[i].sources) /\ Len(tree[i].sources) \in Nat
  BY DEF Injected, Select
<1>2. rest \subseteq 1..Len(tree[i].sources)
  BY <1>1
<1>3. PICK k \in rest : \A j \in rest : k <= j
  BY <1>1, <1>2, Smallest
<1>4. k \in DOMAIN tree[i].sources /\ k > 1
  BY <1>1, <1>3
<1>5. \A j \in 1..(k - 1) : j \in part
  BY <1>1, <1>3
<1>6. Prior(i, k) \subseteq of(part)
  BY <1>5 DEF Prior
<1>7. ~Cartesian(i, k) /\ ~Suspicious(i, k)
  BY <1>4 DEF JoinsJudged
<1>8. tree[i].sources[k].alias \in of(rest)
  OBVIOUS
<1>9. CASE tree[i].sources[k].on = {}
  <2>1. PICK conj \in tree[i].where : Links(i, k, AliasesIn(i, {conj}))
    BY <1>7, <1>9 DEF Cartesian
  <2>2. across({conj})
    BY <2>1, <1>6, <1>8 DEF Links
  <2> QED BY <2>2
<1>10. CASE tree[i].sources[k].on # {}
  <2> DEFINE aliases == AliasesIn(i, tree[i].sources[k].on)
  <2>1. aliases # {} /\ aliases \subseteq Prior(i, k) \cup {tree[i].sources[k].alias}
    BY <1>4, <1>10 DEF OwnConditions
  <2>2. tree[i].sources[k].alias \in aliases /\ aliases # {tree[i].sources[k].alias}
    BY <1>7, <1>10, <2>1 DEF Suspicious
  <2>3. across(tree[i].sources[k].on)
    <3>1. aliases \cap of(rest) # {}
      BY <1>8, <2>2
    <3>2. aliases \cap of(part) # {}
      BY <1>6, <2>1, <2>2
    <3> QED BY <3>1, <3>2
  <2> QED BY <1>4, <2>3
<1> QED BY <1>9, <1>10

\* One pass over the joins, each compared with those before it, finds every
\* select whose sources fall into unrelated groups, however many there are.
THEOREM UnreportedJoinsAreLinkedAlways == Spec => []UnreportedJoinsAreLinked
<1>1. Init => JoinsJudged
  BY DEF Init, JoinsJudged, AfterJoinChecks
<1>2. Injected /\ JoinsJudged => UnreportedJoinsAreLinked
  BY LinkedAcross DEF UnreportedJoinsAreLinked
<1> QED BY <1>1, <1>2, InjectedInit, InjectedStep, JoinsJudgedStep, PTL DEF Spec

-----------------------------------------------------------------------------
(* Statements stay well-formed.                                             *)

\* What StatementsAssumption says of a statement; only a governed table is
\* wrapped.
Wellformed(t) ==
  /\ t \in Seq(Select) /\ t # << >> /\ Nested(t)
  /\ \A i \in DOMAIN t :
       /\ \A k, l \in DOMAIN t[i].sources : t[i].sources[k].alias = t[i].sources[l].alias => k = l
       /\ \A use \in Uses(t[i]) : Known(t, i, use)
       /\ \A k \in DOMAIN t[i].sources :
            LET s == t[i].sources[k]
            IN  /\ s.join = "from" <=> k = 1
                /\ s.join \in {"from", "comma", "unnest"} => s.on = {}
                /\ s.wrapped => s.table \in Governed

\* Source s after source r has been filtered, or as it was.
SourceKept(r, s) ==
  /\ s.alias = r.alias /\ s.table = r.table /\ s.scope = r.scope /\ s.join = r.join
  /\ s.on = r.on \/ (r.join = "left" /\ s.on = r.on \cup {Filter(r.alias)})

\* Statement u is t with source k of select i filtered.
Filtered(t, u, i, k) ==
  /\ DOMAIN u = DOMAIN t
  /\ \A j \in DOMAIN t : j # i => u[j] = t[j]
  /\ DOMAIN u[i].sources = DOMAIN t[i].sources
  /\ \A l \in DOMAIN t[i].sources : l # k => u[i].sources[l] = t[i].sources[l]
  /\ SourceKept(t[i].sources[k], u[i].sources[k])
  /\ u[i].items = t[i].items /\ u[i].star = t[i].star
  /\ u[i].where \in {t[i].where, t[i].where \cup {Filter(t[i].sources[k].alias)}}

SourcesKept(r, s) ==
  DOMAIN s = DOMAIN r /\ \A k \in DOMAIN r : SourceKept(r[k], s[k])

LEMMA FilteredSources ==
  ASSUME NEW t, NEW u, NEW i \in DOMAIN t, NEW k \in DOMAIN t[i].sources, Filtered(t, u, i, k),
         NEW j \in DOMAIN t
  PROVE  SourcesKept(t[j].sources, u[j].sources)
<1>1. DOMAIN u[j].sources = DOMAIN t[j].sources
  BY DEF Filtered
<1>2. ASSUME NEW l \in DOMAIN t[j].sources PROVE SourceKept(t[j].sources[l], u[j].sources[l])
  <2>1. CASE j = i /\ l = k
    BY <2>1 DEF Filtered
  <2>2. CASE ~(j = i /\ l = k)
    <3>1. u[j].sources[l] = t[j].sources[l]
      BY <2>2 DEF Filtered
    <3> QED BY <3>1 DEF SourceKept
  <2> QED BY <2>1, <2>2
<1> QED BY <1>1, <1>2 DEF SourcesKept

LEMMA FilteredPool ==
  ASSUME NEW t, NEW u, NEW i \in DOMAIN t, NEW k \in DOMAIN t[i].sources, Filtered(t, u, i, k)
  PROVE  \A j \in DOMAIN t :
           /\ Pool(t[j]) \subseteq Pool(u[j])
           /\ \A conj \in Pool(u[j]) : conj \in Pool(t[j]) \/ (j = i /\ conj = Filter(t[i].sources[k].alias))
<1> SUFFICES ASSUME NEW j \in DOMAIN t, j = i
             PROVE  /\ Pool(t[i]) \subseteq Pool(u[i])
                    /\ \A conj \in Pool(u[i]) : conj \in Pool(t[i]) \/ conj = Filter(t[i].sources[k].alias)
  BY DEF Filtered
<1>1. \A l \in DOMAIN t[i].sources :
        /\ t[i].sources[l].on \subseteq u[i].sources[l].on
        /\ \A conj \in u[i].sources[l].on :
             conj \in t[i].sources[l].on \/ conj = Filter(t[i].sources[k].alias)
  BY DEF Filtered, SourceKept
<1>2. /\ t[i].where \subseteq u[i].where
      /\ \A conj \in u[i].where : conj \in t[i].where \/ conj = Filter(t[i].sources[k].alias)
  BY DEF Filtered
<1>3. DOMAIN u[i].sources = DOMAIN t[i].sources
  BY DEF Filtered
<1> QED BY <1>1, <1>2, <1>3 DEF Pool

LEMMA FilteredInner ==
  ASSUME NEW t, NEW u, NEW i \in DOMAIN t, NEW k \in DOMAIN t[i].sources, Filtered(t, u, i, k)
  PROVE  \A j \in DOMAIN t : Inner(u[j]) = Inner(t[j]) /\ Derived(u[j]) = Derived(t[j])
<1> TAKE j \in DOMAIN t
<1>1. Filter(t[i].sources[k].alias).inner = {}
  BY DEF Filter
<1>2. Inner(u[j]) = Inner(t[j])
  <2>1. ASSUME NEW x \in Inner(u[j]) PROVE x \in Inner(t[j])
    <3>1. PICK conj \in Pool(u[j]) : x \in conj.inner
      BY DEF Inner
    <3>2. conj \in Pool(t[j])
      BY <1>1, <3>1, FilteredPool
    <3> QED BY <3>1, <3>2 DEF Inner
  <2>2. ASSUME NEW x \in Inner(t[j]) PROVE x \in Inner(u[j])
    BY FilteredPool DEF Inner
  <2> QED BY <2>1, <2>2
<1>3. Derived(u[j]) = Derived(t[j])
  <2>1. SourcesKept(t[j].sources, u[j].sources)
    BY FilteredSources
  <2> QED BY <2>1 DEF Derived, SourcesKept, SourceKept
<1> QED BY <1>2, <1>3

\* Names stand for what they stood for.
LEMMA FilteredBindings ==
  ASSUME NEW t \in Seq(Select), NEW u \in Seq(Select), Nested(t),
         NEW i \in DOMAIN t, NEW k \in DOMAIN t[i].sources, Filtered(t, u, i, k), NEW alias
  PROVE  \A j \in DOMAIN t : Binding(u, j, alias) = Binding(t, j, alias)
<1> DEFINE D == DOMAIN t
           N == Len(t)
           A == Bindings(t, alias)
           B == Bindings(u, alias)
           rank == [j \in D |-> N - j]
           S == {j \in D : B[j] = A[j]}
<1>1. N \in Nat /\ D = 1..N /\ DOMAIN u = D
  BY DEF Filtered
<1>2. \A j \in D : rank[j] \in Nat
  BY <1>1
<1>3. Nested(u)
  BY <1>1, FilteredInner DEF Nested
<1>4. \A j \in D : OwnOf(u, j, alias) = OwnOf(t, j, alias) /\ Around(u, j) = Around(t, j)
  <2> TAKE j \in D
  <2>0. SourcesKept(t[j].sources, u[j].sources)
    BY FilteredSources
  <2>1. /\ DOMAIN u[j].sources = DOMAIN t[j].sources
        /\ \A l \in DOMAIN t[j].sources : u[j].sources[l].alias = t[j].sources[l].alias
    BY <2>0 DEF SourcesKept, SourceKept
  <2>2. OwnOf(u, j, alias) = OwnOf(t, j, alias)
    BY <2>1 DEF OwnOf
  <2>3. \A o \in D : Inner(u[o]) = Inner(t[o])
    BY FilteredInner
  <2>4. Around(u, j) = Around(t, j)
    <3> HIDE DEF D
    <3> QED BY <1>1, <2>3 DEF Around, D
  <2> QED BY <2>2, <2>4
<1>5. ASSUME NEW j \in D, \A o \in D : rank[o] < rank[j] => o \in S PROVE j \in S
  <2> HIDE DEF A, B
  <2>1. A[j] = IF OwnOf(t, j, alias) # {} THEN <<j, CHOOSE l \in OwnOf(t, j, alias) : TRUE>>
               ELSE IF Around(t, j) = {} THEN <<0, 0>>
               ELSE A[CHOOSE o \in Around(t, j) : TRUE]
    BY BindingsSteps DEF A
  <2>2. B[j] = IF OwnOf(t, j, alias) # {} THEN <<j, CHOOSE l \in OwnOf(t, j, alias) : TRUE>>
               ELSE IF Around(t, j) = {} THEN <<0, 0>>
               ELSE B[CHOOSE o \in Around(t, j) : TRUE]
    <3>1. B[j] = IF OwnOf(u, j, alias) # {} THEN <<j, CHOOSE l \in OwnOf(u, j, alias) : TRUE>>
                 ELSE IF Around(u, j) = {} THEN <<0, 0>>
                 ELSE B[CHOOSE o \in Around(u, j) : TRUE]
      BY <1>1, <1>3, BindingsSteps DEF B
    <3>2. OwnOf(u, j, alias) = OwnOf(t, j, alias) /\ Around(u, j) = Around(t, j)
      BY <1>4
    <3> QED BY <3>1, <3>2, Zenon
  <2>3. CASE OwnOf(t, j, alias) = {} /\ Around(t, j) # {}
    <3> DEFINE o == CHOOSE o \in Around(t, j) : TRUE
    <3>1. o \in D /\ j < o /\ A[j] = A[o] /\ B[j] = B[o]
      BY <2>1, <2>2, <2>3, AroundIsLater
    <3> HIDE DEF o
    <3>2. rank[o] < rank[j]
      BY <3>1, <1>1
    <3> QED BY <1>5, <3>1, <3>2
  <2>4. CASE OwnOf(t, j, alias) # {} \/ Around(t, j) = {}
    BY <2>1, <2>2, <2>4
  <2> QED BY <2>3, <2>4
<1>6. D \subseteq S
  <2> HIDE DEF D, S, rank
  <2> QED BY <1>2, <1>5, AllByRank
<1> QED BY <1>6 DEF Binding

\* A filter speaks of its source, by the column of the filter.
LEMMA FilteredUses ==
  ASSUME NEW t, NEW u, NEW i \in DOMAIN t, NEW k \in DOMAIN t[i].sources, Filtered(t, u, i, k),
         NEW j \in DOMAIN t, NEW use \in Uses(u[j])
  PROVE  \/ use \in Uses(t[j])
         \/ j = i /\ use = [alias |-> t[i].sources[k].alias, column |-> Tenant, compared |-> TRUE]
<1>1. CASE use \in u[j].items
  BY <1>1 DEF Filtered, Uses
<1>2. ASSUME NEW conj \in Pool(u[j]), use \in conj.uses
      PROVE  \/ use \in Uses(t[j])
             \/ j = i /\ use = [alias |-> t[i].sources[k].alias, column |-> Tenant, compared |-> TRUE]
  <2>1. CASE conj \in Pool(t[j])
    BY <1>2, <2>1 DEF Uses
  <2>2. CASE j = i /\ conj = Filter(t[i].sources[k].alias)
    BY <1>2, <2>2 DEF Filter
  <2> QED BY <2>1, <2>2, FilteredPool
<1> QED BY <1>1, <1>2 DEF Uses

LEMMA FilteredKnown ==
  ASSUME NEW t \in Seq(Select), NEW u \in Seq(Select), Wellformed(t),
         NEW i \in DOMAIN t, NEW k \in DOMAIN t[i].sources, Filtered(t, u, i, k),
         t[i].sources[k].table \in Governed,
         NEW j \in DOMAIN t, NEW use \in Uses(u[j])
  PROVE  Known(u, j, use)
<1>1. Nested(t)
  BY DEF Wellformed
<1> DEFINE b == Binding(t, j, use.alias)
<1>2. Binding(u, j, use.alias) = b
  BY <1>1, FilteredBindings
<1>3. b # <<0, 0>> => \E o \in DOMAIN t : \E l \in DOMAIN t[o].sources :
                        b = <<o, l>> /\ t[o].sources[l].alias = use.alias
  BY <1>1, BindingNames
<1> HIDE DEF b
<1>4. ASSUME b # <<0, 0>> PROVE u[b[1]].sources[b[2]].table = t[b[1]].sources[b[2]].table
  <2>1. PICK o \in DOMAIN t : \E l \in DOMAIN t[o].sources : b = <<o, l>>
    BY <1>3, <1>4
  <2>2. PICK l \in DOMAIN t[o].sources : b = <<o, l>>
    BY <2>1
  <2>3. SourcesKept(t[o].sources, u[o].sources)
    BY FilteredSources
  <2>4. u[o].sources[l].table = t[o].sources[l].table
    BY <2>3 DEF SourcesKept, SourceKept
  <2> QED BY <2>2, <2>4
<1>5. CASE use \in Uses(t[j])
  <2>1. Known(t, j, use)
    BY <1>5 DEF Wellformed
  <2>2. b # <<0, 0>> /\ (t[b[1]].sources[b[2]].table # "" =>
                           use.column \in Catalog[t[b[1]].sources[b[2]].table].columns)
    BY <2>1 DEF Known, b
  <2> QED BY <1>2, <1>4, <2>2 DEF Known
<1>6. CASE j = i /\ use = [alias |-> t[i].sources[k].alias, column |-> Tenant, compared |-> TRUE]
  <2>1. k \in OwnOf(t, i, use.alias)
    BY <1>6 DEF OwnOf
  <2>2. \A l \in OwnOf(t, i, use.alias) : l = k
    BY <1>6 DEF OwnOf, Wellformed
  <2>3. b = <<i, k>>
    <3>1. b = <<i, CHOOSE l \in OwnOf(t, i, use.alias) : TRUE>>
      BY <1>1, <1>6, <2>1, BindingsSteps DEF b, Binding
    <3> QED BY <2>1, <2>2, <3>1
  <2>4. use.column \in Catalog[t[i].sources[k].table].columns
    BY <1>6, GovernedAssumption
  <2>5. u[i].sources[k].table = t[i].sources[k].table
    BY DEF Filtered, SourceKept
  <2>6. b # <<0, 0>> /\ b[1] = i /\ b[2] = k
    <3>1. i # 0
      OBVIOUS
    <3> QED BY <2>3, <3>1
  <2> QED BY <1>2, <2>4, <2>5, <2>6 DEF Known
<1> QED BY <1>5, <1>6, FilteredUses

LEMMA FilteredWellformed ==
  ASSUME NEW t, NEW u \in Seq(Select), Wellformed(t),
         NEW i \in DOMAIN t, NEW k \in DOMAIN t[i].sources, Filtered(t, u, i, k),
         t[i].sources[k].table \in Governed
  PROVE  Wellformed(u)
<1>1. t \in Seq(Select) /\ DOMAIN u = DOMAIN t /\ u # << >>
  <2>1. t \in Seq(Select) /\ t # << >> /\ DOMAIN u = DOMAIN t
    BY DEF Wellformed, Filtered
  <2> QED BY <2>1
<1>2. Nested(u)
  <2>1. Nested(t)
    BY DEF Wellformed
  <2>2. ASSUME NEW j \in DOMAIN u PROVE Inner(u[j]) \cup Derived(u[j]) \subseteq 1..(j - 1)
    <3>1. Inner(u[j]) = Inner(t[j]) /\ Derived(u[j]) = Derived(t[j])
      BY <1>1, FilteredInner
    <3> QED BY <1>1, <2>1, <3>1 DEF Nested
  <2> QED BY <2>2 DEF Nested
<1>3. ASSUME NEW j \in DOMAIN t PROVE \A use \in Uses(u[j]) : Known(u, j, use)
  BY <1>1, FilteredKnown
<1>4. ASSUME NEW j \in DOMAIN t, NEW l \in DOMAIN u[j].sources
      PROVE  /\ u[j].sources[l].join = "from" <=> l = 1
             /\ u[j].sources[l].join \in {"from", "comma", "unnest"} => u[j].sources[l].on = {}
             /\ u[j].sources[l].wrapped => u[j].sources[l].table \in Governed
             /\ \A n \in DOMAIN u[j].sources : u[j].sources[l].alias = u[j].sources[n].alias => l = n
  <2>1. SourcesKept(t[j].sources, u[j].sources)
    BY FilteredSources
  <2>2. /\ u[j].sources[l].join = "from" <=> l = 1
        /\ u[j].sources[l].join \in {"from", "comma", "unnest"} => u[j].sources[l].on = {}
        /\ \A n \in DOMAIN u[j].sources : u[j].sources[l].alias = u[j].sources[n].alias => l = n
    BY <2>1 DEF SourcesKept, SourceKept, Wellformed
  <2>3. u[j].sources[l].wrapped => u[j].sources[l].table \in Governed
    <3>1. CASE j = i /\ l = k
      BY <2>1, <3>1 DEF SourcesKept, SourceKept
    <3>2. CASE ~(j = i /\ l = k)
      <4>1. u[j].sources[l] = t[j].sources[l] /\ l \in DOMAIN t[j].sources
        BY <2>1, <3>2 DEF Filtered, SourcesKept
      <4> QED BY <4>1 DEF Wellformed
    <3> QED BY <3>1, <3>2
  <2> QED BY <2>2, <2>3
<1> QED BY <1>1, <1>2, <1>3, <1>4 DEF Wellformed

\* _inject on one reference filters that reference and does nothing else.
LEMMA InjectFilters ==
  ASSUME tree \in Seq(Select), NEW i \in DOMAIN tree, NEW k \in DOMAIN tree[i].sources, Inject(i, k)
  PROVE  Filtered(tree, tree', i, k)
<1> DEFINE s == tree[i].sources[k]
           filter == Filter(s.alias)
<1>1. tree[i] \in Select /\ tree[i].sources \in Seq(Source) /\ s \in Source
  <2>1. tree[i] \in Select
    OBVIOUS
  <2>2. tree[i].sources \in Seq(Source)
    BY <2>1 DEF Select
  <2> QED BY <2>1, <2>2
<1> HIDE DEF filter
<1>2. CASE tree' = [tree EXCEPT ![i].sources[k].wrapped = TRUE]
  <2> DEFINE new == [s EXCEPT !.wrapped = TRUE]
             sources == [tree[i].sources EXCEPT ![k] = new]
  <2>1. tree' = [tree EXCEPT ![i] = [tree[i] EXCEPT !.sources = sources]]
    BY <1>2
  <2>2. SourceKept(s, new)
    BY <1>1 DEF Source, SourceKept
  <2> HIDE DEF new
  <2>3. DOMAIN sources = DOMAIN tree[i].sources /\ sources[k] = new
        /\ \A l \in DOMAIN tree[i].sources : l # k => sources[l] = tree[i].sources[l]
    BY <1>1
  <2> HIDE DEF sources
  <2>4. DOMAIN tree' = DOMAIN tree /\ \A j \in DOMAIN tree : j # i => tree'[j] = tree[j]
    BY <2>1
  <2>5. tree'[i].sources = sources /\ tree'[i].items = tree[i].items
        /\ tree'[i].star = tree[i].star /\ tree'[i].where = tree[i].where
    BY <2>1, <1>1 DEF Select
  <2> QED BY <2>2, <2>3, <2>4, <2>5 DEF Filtered
<1>3. CASE s.join = "left" /\ tree' = [tree EXCEPT ![i].sources[k].on = @ \cup {filter}]
  <2> DEFINE new == [s EXCEPT !.on = @ \cup {filter}]
             sources == [tree[i].sources EXCEPT ![k] = new]
  <2>1. tree' = [tree EXCEPT ![i] = [tree[i] EXCEPT !.sources = sources]]
    BY <1>3
  <2>2. SourceKept(s, new)
    BY <1>1, <1>3 DEF Source, SourceKept, filter
  <2> HIDE DEF new
  <2>3. DOMAIN sources = DOMAIN tree[i].sources /\ sources[k] = new
        /\ \A l \in DOMAIN tree[i].sources : l # k => sources[l] = tree[i].sources[l]
    BY <1>1
  <2> HIDE DEF sources
  <2>4. DOMAIN tree' = DOMAIN tree /\ \A j \in DOMAIN tree : j # i => tree'[j] = tree[j]
    BY <2>1
  <2>5. tree'[i].sources = sources /\ tree'[i].items = tree[i].items
        /\ tree'[i].star = tree[i].star /\ tree'[i].where = tree[i].where
    BY <2>1, <1>1 DEF Select
  <2> QED BY <2>2, <2>3, <2>4, <2>5 DEF Filtered
<1>4. CASE tree' = [tree EXCEPT ![i].where = @ \cup {filter}]
  <2>1. DOMAIN tree' = DOMAIN tree /\ \A j \in DOMAIN tree : j # i => tree'[j] = tree[j]
    BY <1>4
  <2>2. tree'[i].sources = tree[i].sources /\ tree'[i].items = tree[i].items
        /\ tree'[i].star = tree[i].star /\ tree'[i].where = tree[i].where \cup {filter}
    BY <1>4, <1>1 DEF Select
  <2> QED BY <2>1, <2>2 DEF Filtered, SourceKept, filter
<1> QED BY <1>2, <1>3, <1>4 DEF Inject, filter

Structured ==
  /\ Wellformed(tree)
  /\ pc = "inject" => \A at \in todo : tree[at[1]].sources[at[2]].table \in Governed

LEMMA StructuredInit == Init => Structured
<1> SUFFICES ASSUME Init PROVE Structured
  OBVIOUS
<1>1. tree \in Statements
  BY DEF Init
<1> QED BY <1>1, StatementsAssumption DEF Init, Structured, Wellformed, Nested

LEMMA InjectKeepsStructure ==
  ASSUME Injected, Structured, NEW i, NEW k, Inject(i, k), Injected' PROVE Structured'
<1>1. /\ <<i, k>> \in Positions(tree) /\ <<i, k>> \in todo /\ pc = "inject" /\ pc' = "inject"
      /\ todo \subseteq Positions(tree) /\ todo' \subseteq todo
      /\ tree \in Seq(Select) /\ tree' \in Seq(Select) /\ Wellformed(tree)
  BY DEF Inject, Injected, Structured
<1>2. i \in DOMAIN tree /\ k \in DOMAIN tree[i].sources
  BY <1>1, PositionIs
<1>3. Filtered(tree, tree', i, k)
  BY <1>1, <1>2, InjectFilters
<1>4. tree[i].sources[k].table \in Governed
  BY <1>1 DEF Structured
<1>5. Wellformed(tree')
  BY <1>1, <1>2, <1>3, <1>4, FilteredWellformed
<1>6. ASSUME NEW at \in todo PROVE tree'[at[1]].sources[at[2]].table \in Governed
  <2>1. at[1] \in DOMAIN tree /\ at[2] \in DOMAIN tree[at[1]].sources
    BY <1>1 DEF Positions
  <2>2. SourcesKept(tree[at[1]].sources, tree'[at[1]].sources)
    BY <1>2, <1>3, <2>1, FilteredSources
  <2>3. tree[at[1]].sources[at[2]].table \in Governed
    BY <1>1 DEF Structured
  <2> QED BY <2>1, <2>2, <2>3 DEF SourcesKept, SourceKept
<1> QED BY <1>1, <1>5, <1>6 DEF Structured

LEMMA ScanKeepsStructure ==
  ASSUME Injected, Structured, ScanReferences PROVE Structured'
<1>1. infos = ScopeMaps(tree) /\ tree' = tree
  BY InfosFresh DEF ScanReferences
<1>2. todo' \subseteq Queued
  BY DEF ScanReferences, Injected
<1>3. ASSUME NEW at \in Queued PROVE tree[at[1]].sources[at[2]].table \in Governed
  <2>1. at \in Positions(tree) /\ ScopeMaps(tree)[<<at[1], 0>>][at[2]].table \in Governed
    BY <1>1 DEF Queued
  <2>2. at[1] \in DOMAIN tree /\ at[2] \in DOMAIN tree[at[1]].sources
    BY <2>1 DEF Positions
  <2>3. <<at[1], 0>> \in ScopesOf(tree)
    BY <2>2 DEF ScopesOf
  <2>4. ScopeMaps(tree)[<<at[1], 0>>][at[2]] = SourceAt(tree, at[1], at[2])
    BY <2>2, <2>3 DEF ScopeMaps
  <2>5. SourceAt(tree, at[1], at[2]).table \in {"", tree[at[1]].sources[at[2]].table}
    BY DEF SourceAt
  <2>6. "" \notin Governed
    BY CatalogAssumption, GovernedAssumption
  <2> QED BY <2>1, <2>4, <2>5, <2>6
<1> QED BY <1>1, <1>2, <1>3 DEF Structured

LEMMA StructuredStep == Injected /\ Structured /\ [Next]_vars => Structured'
<1> SUFFICES ASSUME Injected, Structured, [Next]_vars PROVE Structured'
  OBVIOUS
<1>0. Injected'
  BY InjectedStep
<1>1. CASE ColumnPolicy \/ EndInjections \/ JoinChecks \/ PartitionFilters \/ StartEstimate \/ EndEstimation
  BY <1>1 DEF ColumnPolicy, EndInjections, JoinChecks, PartitionFilters, StartEstimate, EndEstimation, Structured
<1>2. CASE ScanReferences
  BY <1>2, ScanKeepsStructure
<1>3. ASSUME NEW r \in todo, Inject(r[1], r[2]) PROVE Structured'
  BY <1>0, <1>3, InjectKeepsStructure
<1>4. ASSUME NEW r \in todo, CollectScope(r) PROVE Structured'
  BY <1>4 DEF CollectScope, Structured
<1>5. ASSUME NEW r \in todo, EstimateReference(r) PROVE Structured'
  BY <1>5 DEF EstimateReference, Structured
<1>6. CASE UNCHANGED vars
  BY <1>6 DEF vars, Structured
<1> QED BY <1>1, <1>2, <1>3, <1>4, <1>5, <1>6 DEF Next

-----------------------------------------------------------------------------
(* Partition filters.                                                       *)

\* A scope is a select with its sources or a wrapped source with its copy.
LEMMA MapsCases ==
  ASSUME NEW t, NEW s \in DOMAIN ScopeMaps(t)
  PROVE  \/ \E i \in DOMAIN t :
              s = <<i, 0>> /\ ScopeMaps(t)[s] = [k \in DOMAIN t[i].sources |-> SourceAt(t, i, k)]
         \/ \E i \in DOMAIN t : \E k \in DOMAIN t[i].sources :
              /\ s = <<i, k>> /\ k # 0 /\ t[i].sources[k].wrapped
              /\ ScopeMaps(t)[s] = <<CopyAt(t, i, k)>>
<1>1. s \in ScopesOf(t)
  BY DEF ScopeMaps
<1>2. ScopeMaps(t)[s] = IF s[2] = 0 THEN [k \in DOMAIN t[s[1]].sources |-> SourceAt(t, s[1], k)]
                                    ELSE <<CopyAt(t, s[1], s[2])>>
  BY <1>1 DEF ScopeMaps
<1>3. CASE s \in {<<i, 0>> : i \in DOMAIN t}
  <2>1. PICK i \in DOMAIN t : s = <<i, 0>>
    BY <1>3
  <2>2. s[1] = i /\ s[2] = 0
    BY <2>1
  <2> QED BY <1>2, <2>1, <2>2
<1>4. CASE s \in Positions(t) /\ t[s[1]].sources[s[2]].wrapped
  <2>0. PICK i \in DOMAIN t : \E k \in DOMAIN t[i].sources : s = <<i, k>>
    BY <1>4 DEF Positions
  <2>1. PICK k \in DOMAIN t[i].sources : s = <<i, k>>
    BY <2>0
  <2>2. CASE k = 0
    BY <1>2, <2>1, <2>2
  <2>3. CASE k # 0
    BY <1>2, <1>4, <2>1, <2>3
  <2> QED BY <2>2, <2>3
<1> QED BY <1>1, <1>3, <1>4 DEF ScopesOf

\* A physical reference is a table of a select that is not wrapped, or the copy
\* in a wrap.
LEMMA ReferenceCases ==
  ASSUME infos = ScopeMaps(tree), NEW r \in References
  PROVE  \E i \in DOMAIN tree : \E k \in DOMAIN tree[i].sources :
           LET s == tree[i].sources[k]
           IN  /\ s.table # ""
               /\ \/ r = <<<<i, 0>>, k>> /\ ~s.wrapped /\ SourceOf(r) = SourceAt(tree, i, k)
                  \/ r = <<<<i, k>>, 1>> /\ s.wrapped /\ k # 0 /\ SourceOf(r) = CopyAt(tree, i, k)
<1>0. PICK s \in DOMAIN infos :
        \E n \in DOMAIN infos[s] : r = <<s, n>> /\ infos[s][n].table # ""
  <2> DEFINE physical(s) == {k \in DOMAIN infos[s] : infos[s][k].table # ""}
  <2>1. PICK s \in DOMAIN infos : r \in {s} \X physical(s)
    BY DEF References
  <2>2. r = <<s, r[2]>> /\ r[2] \in physical(s)
    <3> HIDE DEF physical
    <3> QED BY <2>1
  <2> QED BY <2>2
<1>1. PICK n \in DOMAIN infos[s] : r = <<s, n>> /\ infos[s][n].table # ""
  BY <1>0
<1>2. SourceOf(r) = ScopeMaps(tree)[s][n] /\ s \in DOMAIN ScopeMaps(tree)
      /\ n \in DOMAIN ScopeMaps(tree)[s] /\ ScopeMaps(tree)[s][n].table # ""
  BY <1>1 DEF SourceOf
<1>3. ASSUME NEW i \in DOMAIN tree, s = <<i, 0>>,
             ScopeMaps(tree)[s] = [k \in DOMAIN tree[i].sources |-> SourceAt(tree, i, k)]
      PROVE  /\ n \in DOMAIN tree[i].sources /\ r = <<<<i, 0>>, n>> /\ SourceOf(r) = SourceAt(tree, i, n)
             /\ tree[i].sources[n].table # "" /\ ~tree[i].sources[n].wrapped
  <2>1. n \in DOMAIN tree[i].sources /\ SourceOf(r) = SourceAt(tree, i, n) /\ SourceOf(r).table # ""
    BY <1>2, <1>3
  <2>2. SourceAt(tree, i, n).table =
          IF tree[i].sources[n].wrapped THEN "" ELSE tree[i].sources[n].table
    BY DEF SourceAt
  <2>3. r = <<<<i, 0>>, n>>
    BY <1>1, <1>3, Zenon
  <2> QED BY <2>1, <2>2, <2>3
<1>4. ASSUME NEW i \in DOMAIN tree, NEW k \in DOMAIN tree[i].sources, s = <<i, k>>, k # 0,
             ScopeMaps(tree)[s] = <<CopyAt(tree, i, k)>>
      PROVE  r = <<<<i, k>>, 1>> /\ SourceOf(r) = CopyAt(tree, i, k) /\ tree[i].sources[k].table # ""
  <2> DEFINE copy == CopyAt(tree, i, k)
  <2>1. copy.table = tree[i].sources[k].table
    BY DEF CopyAt
  <2> HIDE DEF copy
  <2>2. n \in DOMAIN <<copy>> /\ SourceOf(r) = <<copy>>[n] /\ SourceOf(r).table # ""
    BY <1>2, <1>4 DEF copy
  <2>3. n = 1 /\ SourceOf(r) = copy
    <3>1. DOMAIN <<copy>> = {1} /\ <<copy>>[1] = copy
      OBVIOUS
    <3>2. n = 1
      BY <2>2, <3>1
    <3> QED BY <2>2, <3>1, <3>2
  <2>4. r = <<<<i, k>>, 1>>
    BY <1>1, <1>4, <2>3, Zenon
  <2> QED BY <2>1, <2>2, <2>3, <2>4 DEF copy
<1>5. CASE \E i \in DOMAIN tree :
             s = <<i, 0>> /\ ScopeMaps(tree)[s] = [k \in DOMAIN tree[i].sources |-> SourceAt(tree, i, k)]
  BY <1>3, <1>5
<1>6. CASE \E i \in DOMAIN tree : \E k \in DOMAIN tree[i].sources :
             /\ s = <<i, k>> /\ k # 0 /\ tree[i].sources[k].wrapped
             /\ ScopeMaps(tree)[s] = <<CopyAt(tree, i, k)>>
  BY <1>4, <1>6
<1> QED BY <1>2, <1>5, <1>6, MapsCases

AfterFilters == pc \in {"collect", "estimate", "done"}
UnfilteredNodes == {SourceOf(r).node : r \in {r \in Partitioned : ~Constrained(r)}}
FlagsFound == [node \in {SourceOf(r).node : r \in Partitioned} |->
                 \E r \in Partitioned : SourceOf(r).node = node /\ Constrained(r)]

\* What check_partition_filters found is what there still is to find.
FiltersJudged ==
  /\ \A v \in violations :
       v.code = "MISSING_PARTITION_FILTER" => AfterFilters /\ v.at \in UnfilteredNodes
  /\ AfterFilters /\ policy.require_partition_filter /\ UnfilteredNodes # {} =>
       \E v \in violations : v.error
  /\ AfterFilters => partition_flags = FlagsFound

LEMMA FindingsSame ==
  ASSUME tree' = tree, infos' = infos
  PROVE  UnfilteredNodes' = UnfilteredNodes /\ FlagsFound' = FlagsFound
<1>1. Text' = Text
  BY DEF Text, ColumnsIn, Pool, Derived, WrapUses, Filter
<1>2. ASSUME NEW r PROVE (Constrained(r)' <=> Constrained(r)) /\ SourceOf(r)' = SourceOf(r)
  BY <1>1 DEF Constrained, ColumnIsConstrained, PoolOfScope, Mentions, ColumnsIn, SourceOf
<1>3. Partitioned' = Partitioned
  BY <1>2 DEF Partitioned, References, SourceOf
<1> QED BY <1>2, <1>3 DEF UnfilteredNodes, FlagsFound

LEMMA FiltersJudgedInit == Init => FiltersJudged
BY DEF Init, FiltersJudged, AfterFilters

\* Reports and flags stay what they are while the statement does.
LEMMA LaterKeepsFindings ==
  ASSUME tree' = tree, policy' = policy, infos' = infos, violations \subseteq violations',
         \A v \in violations' : v.code = "MISSING_PARTITION_FILTER" => v \in violations,
         partition_flags' = partition_flags, AfterFilters' <=> AfterFilters, FiltersJudged
  PROVE  FiltersJudged'
<1>1. UnfilteredNodes' = UnfilteredNodes /\ FlagsFound' = FlagsFound
  BY FindingsSame
<1> HIDE DEF UnfilteredNodes, FlagsFound, AfterFilters
<1> QED BY <1>1 DEF FiltersJudged

\* Nothing is reported before.
LEMMA EarlierKeepsFindings ==
  ASSUME ~AfterFilters', ~AfterFilters,
         \A v \in violations' : v.code = "MISSING_PARTITION_FILTER" => v \in violations,
         FiltersJudged
  PROVE  FiltersJudged'
BY DEF FiltersJudged

LEMMA PartitionFiltersJudge ==
  ASSUME Injected, FiltersJudged, PartitionFilters PROVE FiltersJudged'
<1>1. infos = ScopeMaps(tree) /\ tree' = tree /\ policy' = policy
  BY InfosFresh DEF PartitionFilters
<1>2. infos' = infos
  BY <1>1 DEF PartitionFilters, infos
<1>3. UnfilteredNodes' = UnfilteredNodes /\ FlagsFound' = FlagsFound
  BY <1>1, <1>2, FindingsSame
<1>4. AfterFilters' /\ ~AfterFilters
  BY DEF PartitionFilters, AfterFilters
<1>5. partition_flags' = FlagsFound
  BY DEF PartitionFilters, FlagsFound
<1>6. ASSUME NEW v \in violations', v.code = "MISSING_PARTITION_FILTER" PROVE v.at \in UnfilteredNodes
  <2>1. v \notin violations
    BY <1>4, <1>6 DEF FiltersJudged
  <2>2. PICK r \in Partitioned :
          ~Constrained(r) /\ v = Violation("MISSING_PARTITION_FILTER", TRUE, SourceOf(r).node)
    BY <2>1 DEF PartitionFilters
  <2>3. v.at = SourceOf(r).node
    BY <2>2 DEF Violation
  <2> QED BY <2>2, <2>3 DEF UnfilteredNodes
<1>7. ASSUME policy.require_partition_filter, UnfilteredNodes # {} PROVE \E v \in violations' : v.error
  <2>1. PICK r \in Partitioned : ~Constrained(r)
    BY <1>7 DEF UnfilteredNodes
  <2>2. Violation("MISSING_PARTITION_FILTER", TRUE, SourceOf(r).node) \in violations'
    BY <1>7, <2>1 DEF PartitionFilters
  <2>3. Violation("MISSING_PARTITION_FILTER", TRUE, SourceOf(r).node).error
    BY DEF Violation
  <2> QED BY <2>2, <2>3
<1> HIDE DEF UnfilteredNodes, FlagsFound, AfterFilters
<1> QED BY <1>1, <1>3, <1>4, <1>5, <1>6, <1>7 DEF FiltersJudged

LEMMA OtherCodes ==
  ASSUME NEW code, NEW error, NEW at PROVE Violation(code, error, at).code = code
BY DEF Violation

LEMMA FiltersJudgedStep == Injected /\ FiltersJudged /\ [Next]_vars => FiltersJudged'
<1> SUFFICES ASSUME Injected, FiltersJudged, [Next]_vars PROVE FiltersJudged'
  OBVIOUS
<1>1. CASE ColumnPolicy \/ ScanReferences \/ EndInjections
  BY <1>1, EarlierKeepsFindings DEF ColumnPolicy, ScanReferences, EndInjections, AfterFilters
<1>2. CASE JoinChecks
  <2>1. \A v \in violations' : v.code = "MISSING_PARTITION_FILTER" => v \in violations
    BY <1>2 DEF JoinChecks, Violation
  <2> QED BY <1>2, <2>1, EarlierKeepsFindings DEF JoinChecks, AfterFilters
<1>3. CASE PartitionFilters
  BY <1>3, PartitionFiltersJudge
<1>4. ASSUME NEW r \in todo, Inject(r[1], r[2]) PROVE FiltersJudged'
  BY <1>4, EarlierKeepsFindings DEF Inject, AfterFilters
<1>5. ASSUME tree' = tree, index' = index PROVE infos' = infos
  BY <1>5 DEF infos
<1>6. ASSUME NEW r \in todo, CollectScope(r) PROVE FiltersJudged'
  BY <1>5, <1>6, LaterKeepsFindings DEF CollectScope, AfterFilters
<1>7. ASSUME NEW r \in todo, EstimateReference(r) PROVE FiltersJudged'
  <2>1. \A v \in violations' : v.code = "MISSING_PARTITION_FILTER" => v \in violations
    BY <1>7 DEF EstimateReference, Violation
  <2>2. /\ tree' = tree /\ policy' = policy /\ index' = index /\ violations \subseteq violations'
        /\ partition_flags' = partition_flags /\ pc' = pc
    BY <1>7 DEF EstimateReference
  <2> QED BY <1>5, <2>1, <2>2, LaterKeepsFindings DEF AfterFilters
<1>8. CASE StartEstimate
  BY <1>5, <1>8, LaterKeepsFindings DEF StartEstimate, AfterFilters
<1>9. CASE EndEstimation
  <2>1. \A v \in violations' : v.code = "MISSING_PARTITION_FILTER" => v \in violations
    BY <1>9 DEF EndEstimation, Violation
  <2> QED BY <1>5, <1>9, <2>1, LaterKeepsFindings DEF EndEstimation, AfterFilters
<1>10. CASE UNCHANGED vars
  BY <1>5, <1>10, LaterKeepsFindings DEF vars, AfterFilters
<1> QED BY <1>1, <1>2, <1>3, <1>4, <1>6, <1>7, <1>8, <1>9, <1>10 DEF Next

\* What a source that is not wrapped is constrained by.
LEMMA ConstrainedWritten ==
  ASSUME NEW i \in DOMAIN tree, NEW k \in DOMAIN tree[i].sources, NEW r,
         r = <<<<i, 0>>, k>>, SourceOf(r) = SourceAt(tree, i, k), ~tree[i].sources[k].wrapped
  PROVE  Constrained(r) <=>
           \E conj \in Pool(tree[i]) : \E m \in Mentions(i, conj) :
             /\ m.use.compared /\ m.use.column \in PartitionsAt(i, k)
             /\ m.use.alias = tree[i].sources[k].alias
<1> DEFINE src == SourceAt(tree, i, k)
<1>1. src.table = tree[i].sources[k].table /\ src.alias = tree[i].sources[k].alias
  BY DEF SourceAt
<1> HIDE DEF src
<1>2. r[1] = <<i, 0>> /\ r[1][1] = i /\ r[1][2] = 0
  OBVIOUS
<1>3. PoolOfScope(r[1]) = Pool(tree[i])
  BY <1>2 DEF PoolOfScope
<1>4. SourceOf(r) = src
  BY DEF src
<1>5. Constrained(r) <=>
        \E p \in PartitionsAt(i, k) : \E conj \in Pool(tree[i]) : \E m \in Mentions(i, conj) :
          m.use.column = p /\ m.use.compared /\ m.use.alias = tree[i].sources[k].alias
  BY <1>1, <1>2, <1>3, <1>4 DEF Constrained, ColumnIsConstrained, PartitionsAt
<1> QED BY <1>5

\* A name that stands for a source has its alias.
BoundTo(scope, alias, i, k) == Binding(tree, scope, alias) = <<i, k>>

LEMMA BoundAlias ==
  ASSUME tree \in Seq(Select), Nested(tree)
  PROVE  \A i \in DOMAIN tree : \A scope \in DOMAIN tree : \A k, alias :
           BoundTo(scope, alias, i, k) =>
             k \in DOMAIN tree[i].sources /\ tree[i].sources[k].alias = alias
<1> TAKE i \in DOMAIN tree
<1> TAKE scope \in DOMAIN tree
<1> TAKE k, alias
<1> HAVE BoundTo(scope, alias, i, k)
<1>1. i # 0
  OBVIOUS
<1>2. <<i, k>> # <<0, 0>>
  BY <1>1
<1>3. PICK j \in DOMAIN tree : \E l \in DOMAIN tree[j].sources :
        <<i, k>> = <<j, l>> /\ tree[j].sources[l].alias = alias
  BY <1>2, BindingNames DEF BoundTo
<1>4. PICK l \in DOMAIN tree[j].sources : <<i, k>> = <<j, l>> /\ tree[j].sources[l].alias = alias
  BY <1>3
<1>5. i = j /\ k = l
  BY <1>4
<1> QED BY <1>4, <1>5

\* The WHERE and the ONs, from the source's point of view or not.
LEMMA FilteringInPool ==
  ASSUME NEW i \in DOMAIN tree, NEW k PROVE Filtering(i, k) \subseteq Pool(tree[i])
<1> DEFINE J == {j \in DOMAIN tree[i].sources :
                   CASE tree[i].sources[j].join = "inner" -> k <= j
                     [] tree[i].sources[j].join = "left" -> k = j
                     [] tree[i].sources[j].join = "right" -> k < j
                     [] OTHER -> FALSE}
<1>1. J \subseteq DOMAIN tree[i].sources
  OBVIOUS
<1>2. Filtering(i, k) = tree[i].where \cup UNION {tree[i].sources[j].on : j \in J}
  BY DEF Filtering
<1> HIDE DEF J
<1> QED BY <1>1, <1>2 DEF Pool

LEMMA FoundIsReal ==
  ASSUME Injected, Structured, FiltersJudged, NEW v \in violations,
         v.code = "MISSING_PARTITION_FILTER", v.at[3] = "written"
  PROVE  ~Pruned(v.at[1], v.at[2])
<1>1. tree \in Seq(Select) /\ Nested(tree) /\ infos = ScopeMaps(tree)
  BY InfosFresh DEF Injected, Structured, Wellformed, FiltersJudged, AfterFilters
<1>2. PICK r \in Partitioned : ~Constrained(r) /\ v.at = SourceOf(r).node
  BY DEF FiltersJudged, UnfilteredNodes
<1>3. r \in References
  BY DEF Partitioned
<1>4. PICK i \in DOMAIN tree : \E k \in DOMAIN tree[i].sources :
           LET s == tree[i].sources[k]
           IN  /\ s.table # ""
               /\ \/ r = <<<<i, 0>>, k>> /\ ~s.wrapped /\ SourceOf(r) = SourceAt(tree, i, k)
                  \/ r = <<<<i, k>>, 1>> /\ s.wrapped /\ k # 0 /\ SourceOf(r) = CopyAt(tree, i, k)
  BY <1>1, <1>3, ReferenceCases
<1>5. PICK k \in DOMAIN tree[i].sources :
           LET s == tree[i].sources[k]
           IN  /\ s.table # ""
               /\ \/ r = <<<<i, 0>>, k>> /\ ~s.wrapped /\ SourceOf(r) = SourceAt(tree, i, k)
                  \/ r = <<<<i, k>>, 1>> /\ s.wrapped /\ k # 0 /\ SourceOf(r) = CopyAt(tree, i, k)
  BY <1>4
<1>6. SourceAt(tree, i, k).node = <<i, k, "written">> /\ CopyAt(tree, i, k).node = <<i, k, "copy">>
  BY DEF SourceAt, CopyAt
<1>7. SourceOf(r) # CopyAt(tree, i, k)
  BY <1>2, <1>6
<1>8. /\ r = <<<<i, 0>>, k>> /\ ~tree[i].sources[k].wrapped /\ SourceOf(r) = SourceAt(tree, i, k)
  BY <1>5, <1>7
<1>9. v.at[1] = i /\ v.at[2] = k
  BY <1>2, <1>6, <1>8
<1>10. ASSUME NEW conj \in Filtering(i, k), NEW m \in Mentions(i, conj),
              m.use.compared, m.use.column \in PartitionsAt(i, k),
              Binding(tree, m.scope, m.use.alias) = <<i, k>>
       PROVE  FALSE
  <2>1. conj \in Pool(tree[i])
    BY FilteringInPool
  <2>2. m.scope \in DOMAIN tree
    BY <1>1, <2>1, MentionInConjunct
  <2>3. m.use.alias = tree[i].sources[k].alias
    <3>1. BoundTo(m.scope, m.use.alias, i, k)
      BY <1>10 DEF BoundTo
    <3>2. tree \in Seq(Select) /\ Nested(tree)
      BY <1>1
    <3>3. k \in DOMAIN tree[i].sources /\ tree[i].sources[k].alias = m.use.alias
      BY <2>2, <3>1, <3>2, BoundAlias
    <3> QED BY <3>3
  <2>4. Constrained(r)
    BY <1>8, <1>10, <2>1, <2>3, ConstrainedWritten
  <2> QED BY <1>2, <2>4
<1>11. ~Pruned(i, k)
  BY <1>8, <1>10 DEF Pruned
<1> QED BY <1>9, <1>11

\* A reference reported as unfiltered is, whatever the statement: no filter in
\* a clause or a subquery of any depth is overlooked.
THEOREM MissingFilterIsRealAlways == Spec => []MissingFilterIsReal
<1>1. Injected /\ Structured /\ FiltersJudged => MissingFilterIsReal
  BY FoundIsReal DEF MissingFilterIsReal
<1> QED BY <1>1, InjectedInit, InjectedStep, StructuredInit, StructuredStep,
           FiltersJudgedInit, FiltersJudgedStep, PTL DEF Spec

LEMMA OneLong ==
  ASSUME NEW x PROVE DOMAIN <<x>> = {1} /\ <<x>>[1] = x
OBVIOUS

\* Places of sources are counted from one.
LEMMA PlaceIsPositive ==
  ASSUME tree \in Seq(Select), NEW i \in DOMAIN tree, NEW k \in DOMAIN tree[i].sources
  PROVE  k # 0
<1>1. tree[i].sources \in Seq(Source)
  BY PositionIs, PositionTyped
<1> QED BY <1>1

\* A source of a table is in the maps: as it is written or as the copy.
LEMMA PhysicalIsReference ==
  ASSUME tree \in Seq(Select), infos = ScopeMaps(tree),
         NEW i \in DOMAIN tree, NEW k \in DOMAIN tree[i].sources, tree[i].sources[k].table # ""
  PROVE  /\ tree[i].sources[k].wrapped =>
              <<<<i, k>>, 1>> \in References /\ SourceOf(<<<<i, k>>, 1>>) = CopyAt(tree, i, k)
         /\ ~tree[i].sources[k].wrapped =>
              <<<<i, 0>>, k>> \in References /\ SourceOf(<<<<i, 0>>, k>>) = SourceAt(tree, i, k)
<1>0. k # 0
  BY PlaceIsPositive
<1> DEFINE physical(s) == {n \in DOMAIN infos[s] : infos[s][n].table # ""}
<1>1. ASSUME NEW s \in DOMAIN infos, NEW n \in physical(s) PROVE <<s, n>> \in References
  <2>1. <<s, n>> \in {s} \X physical(s)
    OBVIOUS
  <2> QED BY <2>1 DEF References
<1>2. ASSUME tree[i].sources[k].wrapped
      PROVE  <<<<i, k>>, 1>> \in References /\ SourceOf(<<<<i, k>>, 1>>) = CopyAt(tree, i, k)
  <2> DEFINE copy == CopyAt(tree, i, k)
             s == <<i, k>>
  <2>1. s \in ScopesOf(tree) /\ s[1] = i /\ s[2] = k
    BY <1>2, PositionIs DEF ScopesOf
  <2>2. copy.table # ""
    BY DEF CopyAt
  <2> HIDE DEF copy, s
  <2>3. s \in DOMAIN infos /\ infos[s] = <<copy>>
    BY <1>0, <2>1 DEF ScopeMaps, copy
  <2>4. DOMAIN <<copy>> = {1} /\ <<copy>>[1] = copy
    BY OneLong
  <2>5. 1 \in physical(s) /\ infos[s][1] = copy
    BY <2>2, <2>3, <2>4
  <2> HIDE DEF physical
  <2>6. <<s, 1>> \in References
    BY <1>1, <2>3, <2>5
  <2>7. SourceOf(<<s, 1>>) = infos[s][1]
    BY DEF SourceOf
  <2> QED BY <2>5, <2>6, <2>7 DEF s, copy
<1>3. ASSUME ~tree[i].sources[k].wrapped
      PROVE  <<<<i, 0>>, k>> \in References /\ SourceOf(<<<<i, 0>>, k>>) = SourceAt(tree, i, k)
  <2> DEFINE src == SourceAt(tree, i, k)
             s == <<i, 0>>
  <2>1. s \in ScopesOf(tree) /\ s[1] = i /\ s[2] = 0
    BY DEF ScopesOf
  <2>2. src.table # ""
    BY <1>3 DEF SourceAt
  <2> HIDE DEF s
  <2>3. s \in DOMAIN infos /\ infos[s] = [n \in DOMAIN tree[i].sources |-> SourceAt(tree, i, n)]
    BY <2>1 DEF ScopeMaps
  <2>4. k \in DOMAIN infos[s] /\ infos[s][k] = src
    BY <2>3
  <2> HIDE DEF src
  <2>5. k \in physical(s)
    BY <2>2, <2>4
  <2> HIDE DEF physical
  <2>6. <<s, k>> \in References
    BY <1>1, <2>3, <2>5
  <2>7. SourceOf(<<s, k>>) = infos[s][k]
    BY DEF SourceOf
  <2> QED BY <2>4, <2>6, <2>7 DEF s, src
<1> QED BY <1>2, <1>3

\* The filter of a wrap constrains its own column only.
LEMMA ConstrainedCopy ==
  ASSUME NEW i, NEW k, NEW r, r = <<<<i, k>>, 1>>, k # 0,
         SourceOf(r) = CopyAt(tree, i, k), Constrained(r)
  PROVE  Tenant \in PartitionsAt(i, k)
<1> DEFINE filter == Filter(tree[i].sources[k].alias)
<1>1. r[1] = <<i, k>> /\ r[1][1] = i /\ r[1][2] = k
  OBVIOUS
<1>2. PoolOfScope(r[1]) = {filter}
  BY <1>1 DEF PoolOfScope
<1>3. SourceOf(r).table = tree[i].sources[k].table
  BY DEF CopyAt
<1>4. PICK p \in PartitionsAt(i, k) : ColumnIsConstrained(r[1], SourceOf(r), p)
  BY <1>3 DEF Constrained, PartitionsAt
<1> HIDE DEF filter
<1>5. PICK m \in Mentions(i, filter) : m.use.column = p
  BY <1>1, <1>2, <1>4 DEF ColumnIsConstrained
<1>6. \A u \in filter.uses : u.column = Tenant
  BY DEF filter, Filter
<1>7. filter.inner = {}
  BY DEF filter, Filter
<1>8. PICK u \in filter.uses : m = [use |-> u, scope |-> i]
  BY <1>5, <1>7, InColumnsIn DEF Mentions
<1> QED BY <1>4, <1>5, <1>6, <1>8

\* The filter in a wrap speaks of the source that is wrapped.
LEMMA WrapBinds ==
  ASSUME tree \in Seq(Select), Wellformed(tree), NEW j \in DOMAIN tree, NEW u \in WrapUses(tree[j])
  PROVE  \E l \in DOMAIN tree[j].sources :
           /\ tree[j].sources[l].wrapped /\ u.column = Tenant
           /\ tree[j].sources[l].alias = u.alias
           /\ BoundTo(j, u.alias, j, l)
<1>1. PICK l \in DOMAIN tree[j].sources :
        tree[j].sources[l].wrapped /\ u \in Filter(tree[j].sources[l].alias).uses
  BY DEF WrapUses
<1>2. u.alias = tree[j].sources[l].alias /\ u.column = Tenant
  BY <1>1 DEF Filter
<1>3. \A k \in OwnOf(tree, j, u.alias) : k = l
  BY <1>2 DEF Wellformed, OwnOf
<1>4. l \in OwnOf(tree, j, u.alias)
  BY <1>2 DEF OwnOf
<1>5. (CHOOSE k \in OwnOf(tree, j, u.alias) : TRUE) = l
  BY <1>3, <1>4
<1>6. Bindings(tree, u.alias)[j] = <<j, l>>
  <2>1. Nested(tree)
    BY DEF Wellformed
  <2> QED BY <1>4, <1>5, <2>1, BindingsSteps
<1> QED BY <1>1, <1>2, <1>6 DEF BoundTo, Binding

\* Whatever is written in a select stands for a source.
LEMMA WrittenBinds ==
  ASSUME tree \in Seq(Select), Wellformed(tree), NEW j \in DOMAIN tree, NEW u \in Written(tree[j])
  PROVE  Binding(tree, j, u.alias) # <<0, 0>>
<1>1. CASE u \in Uses(tree[j])
  BY <1>1 DEF Wellformed, Known
<1>2. CASE u \in WrapUses(tree[j])
  <2>1. PICK l \in DOMAIN tree[j].sources : BoundTo(j, u.alias, j, l)
    BY <1>2, WrapBinds
  <2>2. Binding(tree, j, u.alias) = <<j, l>> /\ j # 0
    BY <2>1 DEF BoundTo
  <2> QED BY <2>2
<1> QED BY <1>1, <1>2 DEF Written

\* Where no alias is used twice, a mention of the alias of a source is one of
\* that source.
LEMMA PlainBinding ==
  ASSUME tree \in Seq(Select), Wellformed(tree), PlainNames,
         NEW i \in DOMAIN tree, NEW k \in DOMAIN tree[i].sources,
         NEW scope \in DOMAIN tree, NEW u \in Written(tree[scope]), u.alias = tree[i].sources[k].alias
  PROVE  BoundTo(scope, u.alias, i, k)
<1>1. Nested(tree)
  BY DEF Wellformed
<1>3. Binding(tree, scope, u.alias) # <<0, 0>>
  BY WrittenBinds
<1>4. PICK j \in DOMAIN tree : \E l \in DOMAIN tree[j].sources :
        Binding(tree, scope, u.alias) = <<j, l>> /\ tree[j].sources[l].alias = u.alias
  BY <1>1, <1>3, BindingNames
<1>5. PICK l \in DOMAIN tree[j].sources :
        Binding(tree, scope, u.alias) = <<j, l>> /\ tree[j].sources[l].alias = u.alias
  BY <1>4
<1>6. <<j, l>> \in Positions(tree) /\ <<i, k>> \in Positions(tree)
  BY PositionIs
<1> DEFINE p == <<j, l>>
           q == <<i, k>>
<1>7. p[1] = j /\ p[2] = l /\ q[1] = i /\ q[2] = k
  OBVIOUS
<1> HIDE DEF p, q
<1>8. p = q
  BY <1>5, <1>6, <1>7 DEF PlainNames, p, q
<1> QED BY <1>5, <1>8 DEF BoundTo, p, q

\* A comparison in an ON that speaks of a source filters it.
LEMMA PlainFiltering ==
  ASSUME tree \in Seq(Select), Wellformed(tree), PlainOns,
         NEW i \in DOMAIN tree, NEW k \in DOMAIN tree[i].sources, NEW conj \in Pool(tree[i]),
         NEW m \in Mentions(i, conj), m.use.compared, m.use.alias = tree[i].sources[k].alias
  PROVE  conj \in Filtering(i, k)
<1>1. CASE conj \in tree[i].where
  BY <1>1 DEF Filtering
<1>2. ASSUME NEW j \in DOMAIN tree[i].sources, conj \in tree[i].sources[j].on
      PROVE  conj \in Filtering(i, k)
  <2> DEFINE s == tree[i].sources[j]
             of == {n \in DOMAIN tree[i].sources :
                      CASE tree[i].sources[n].join = "inner" -> k <= n
                        [] tree[i].sources[n].join = "left" -> k = n
                        [] tree[i].sources[n].join = "right" -> k < n
                        [] OTHER -> FALSE}
  <2>1. <<i, j>> \in Positions(tree)
    BY PositionIs
  <2>2. s \in Source /\ j \in Nat /\ k \in Nat
    BY <2>1, PositionIs, PositionTyped
  <2>3. s.join \in {"inner", "left", "right"}
    BY <1>2, <2>2 DEF Wellformed, Source
  <2>4. m \in UNION {Mentions(i, c) : c \in s.on}
    BY <1>2
  <2>5. /\ \A n \in DOMAIN tree[i].sources : n > j => m.use.alias # tree[i].sources[n].alias
        /\ s.join = "left" => m.use.alias = s.alias
        /\ s.join = "right" => m.use.alias # s.alias
    <3> DEFINE at == <<i, j>>
    <3>1. at[1] = i /\ at[2] = j /\ at \in Positions(tree)
      BY <2>1
    <3> HIDE DEF at
    <3> QED BY <2>4, <3>1 DEF PlainOns
  <2>6. k <= j /\ (s.join = "left" => k = j) /\ (s.join = "right" => k < j)
    <3>1. k <= j
      BY <2>2, <2>5
    <3>2. s.join = "left" => k = j
      BY <2>5 DEF Wellformed
    <3>3. s.join = "right" => k < j
      BY <2>2, <2>5, <3>1
    <3> QED BY <3>1, <3>2, <3>3
  <2>7. j \in of
    BY <2>3, <2>6
  <2>8. Filtering(i, k) = tree[i].where \cup UNION {tree[i].sources[n].on : n \in of}
    BY DEF Filtering
  <2> HIDE DEF of
  <2> QED BY <1>2, <2>7, <2>8
<1> QED BY <1>1, <1>2 DEF Pool

\* The reference of a source.
ReferenceOf(at) == IF tree[at[1]].sources[at[2]].wrapped THEN <<at, 1>> ELSE <<<<at[1], 0>>, at[2]>>
NodeOf(at) == IF tree[at[1]].sources[at[2]].wrapped THEN <<at[1], at[2], "copy">>
                                                    ELSE <<at[1], at[2], "written">>

LEMMA ReferenceOfSource ==
  ASSUME tree \in Seq(Select), infos = ScopeMaps(tree),
         NEW i \in DOMAIN tree, NEW k \in DOMAIN tree[i].sources, tree[i].sources[k].table # ""
  PROVE  LET r == ReferenceOf(<<i, k>>)
         IN  r \in References /\ SourceOf(r).table = tree[i].sources[k].table /\ SourceOf(r).node = NodeOf(<<i, k>>)
<1> DEFINE r == ReferenceOf(<<i, k>>)
<1>1. ASSUME tree[i].sources[k].wrapped
      PROVE  r \in References /\ SourceOf(r).table = tree[i].sources[k].table /\ SourceOf(r).node = NodeOf(<<i, k>>)
  <2>1. r = <<<<i, k>>, 1>> /\ NodeOf(<<i, k>>) = <<i, k, "copy">>
    BY <1>1 DEF ReferenceOf, NodeOf
  <2>2. CopyAt(tree, i, k).table = tree[i].sources[k].table /\ CopyAt(tree, i, k).node = <<i, k, "copy">>
    BY DEF CopyAt
  <2>3. r \in References /\ SourceOf(r) = CopyAt(tree, i, k)
    BY <1>1, <2>1, PhysicalIsReference
  <2> QED BY <2>1, <2>2, <2>3
<1>2. ASSUME ~tree[i].sources[k].wrapped
      PROVE  r \in References /\ SourceOf(r).table = tree[i].sources[k].table /\ SourceOf(r).node = NodeOf(<<i, k>>)
  <2>1. r = <<<<i, 0>>, k>> /\ NodeOf(<<i, k>>) = <<i, k, "written">>
    BY <1>2 DEF ReferenceOf, NodeOf
  <2>2. SourceAt(tree, i, k).table = tree[i].sources[k].table /\ SourceAt(tree, i, k).node = <<i, k, "written">>
    BY <1>2 DEF SourceAt
  <2>3. r \in References /\ SourceOf(r) = SourceAt(tree, i, k)
    BY <1>2, <2>1, PhysicalIsReference
  <2> QED BY <2>1, <2>2, <2>3
<1> QED BY <1>1, <1>2

\* What the reference of a source is constrained by: the filter in its wrap, or a
\* comparison taken for a filter.
LEMMA ConstrainedIsTaken ==
  ASSUME tree \in Seq(Select), infos = ScopeMaps(tree),
         NEW i \in DOMAIN tree, NEW k \in DOMAIN tree[i].sources, tree[i].sources[k].table # "",
         Constrained(ReferenceOf(<<i, k>>))
  PROVE  /\ tree[i].sources[k].wrapped => Pruned(i, k)
         /\ ~tree[i].sources[k].wrapped => TakenForFilter(i, k)
<1>1. ASSUME tree[i].sources[k].wrapped PROVE Pruned(i, k)
  <2> DEFINE r == <<<<i, k>>, 1>>
  <2>1. SourceOf(r) = CopyAt(tree, i, k) /\ ReferenceOf(<<i, k>>) = r
    BY <1>1, PhysicalIsReference DEF ReferenceOf
  <2>2. k # 0
    BY PlaceIsPositive
  <2> HIDE DEF r
  <2>3. Constrained(r)
    BY <2>1
  <2>4. Tenant \in PartitionsAt(i, k)
    BY <2>1, <2>2, <2>3, ConstrainedCopy DEF r
  <2> QED BY <1>1, <2>4 DEF Pruned
<1>2. ASSUME ~tree[i].sources[k].wrapped PROVE TakenForFilter(i, k)
  <2> DEFINE r == <<<<i, 0>>, k>>
  <2>1. SourceOf(r) = SourceAt(tree, i, k) /\ ReferenceOf(<<i, k>>) = r
    BY <1>2, PhysicalIsReference DEF ReferenceOf
  <2> HIDE DEF r
  <2>2. Constrained(r)
    BY <2>1
  <2> QED BY <1>2, <2>1, <2>2, ConstrainedWritten DEF r, TakenForFilter
<1> QED BY <1>1, <1>2

\* Where names and ONs leave no doubt, what is taken for a filter of a source is
\* one.
LEMMA TakenIsPruned ==
  ASSUME tree \in Seq(Select), Wellformed(tree), PlainNames, PlainOns,
         NEW i \in DOMAIN tree, NEW k \in DOMAIN tree[i].sources, TakenForFilter(i, k)
  PROVE  Pruned(i, k)
<1>1. Nested(tree)
  BY DEF Wellformed
<1>2. PICK conj \in Pool(tree[i]) : \E m \in Mentions(i, conj) :
           /\ m.use.compared /\ m.use.column \in PartitionsAt(i, k)
           /\ m.use.alias = tree[i].sources[k].alias
  BY DEF TakenForFilter
<1>3. PICK m \in Mentions(i, conj) :
           /\ m.use.compared /\ m.use.column \in PartitionsAt(i, k)
           /\ m.use.alias = tree[i].sources[k].alias
  BY <1>2
<1>4. PICK u \in Written(tree[m.scope]) : u.alias = m.use.alias
  BY <1>1, MentionInConjunct
<1>5. m.scope \in DOMAIN tree
  BY <1>1, MentionInConjunct
<1>6. BoundTo(m.scope, u.alias, i, k)
  BY <1>3, <1>4, <1>5, PlainBinding
<1>7. Binding(tree, m.scope, m.use.alias) = <<i, k>>
  BY <1>4, <1>6 DEF BoundTo
<1>8. conj \in Filtering(i, k)
  BY <1>3, PlainFiltering
<1> QED BY <1>3, <1>7, <1>8 DEF Pruned

LEMMA AcceptedIsPruned ==
  ASSUME Injected, Structured, FiltersJudged, PlainNames, PlainOns,
         Accepted, policy.require_partition_filter,
         NEW i \in DOMAIN tree, NEW k \in DOMAIN tree[i].sources,
         tree[i].sources[k].table # "", PartitionsAt(i, k) # {}
  PROVE  Pruned(i, k)
<1>1. tree \in Seq(Select) /\ Wellformed(tree) /\ infos = ScopeMaps(tree)
  BY InfosFresh DEF Injected, Structured, Accepted
<1>2. UnfilteredNodes = {}
  BY DEF FiltersJudged, AfterFilters, Accepted
<1> DEFINE r == ReferenceOf(<<i, k>>)
<1>3. r \in References /\ SourceOf(r).table = tree[i].sources[k].table
  BY <1>1, ReferenceOfSource
<1> HIDE DEF r
<1>4. r \in Partitioned
  BY <1>3 DEF Partitioned, PartitionsAt
<1>5. Constrained(r)
  BY <1>2, <1>4 DEF UnfilteredNodes
<1> QED BY <1>1, <1>5, ConstrainedIsTaken, TakenIsPruned DEF r

\* Where aliases are used once and every ON filters the sources it speaks of, a
\* statement that is let through under require_partition_filter scans no
\* partitioned table whole.
THEOREM PartitionedScansPrunedAlways == Spec => []PartitionedScansPruned
<1>1. ASSUME Injected, Structured, FiltersJudged PROVE PartitionedScansPruned
  <2> SUFFICES ASSUME PlainNames, PlainOns PROVE EveryScanIsPruned
    BY DEF PartitionedScansPruned
  <2> SUFFICES ASSUME Accepted, policy.require_partition_filter,
                      NEW at \in Physical, PartitionsAt(at[1], at[2]) # {}
               PROVE  Pruned(at[1], at[2])
    BY DEF EveryScanIsPruned
  <2>1. at[1] \in DOMAIN tree /\ at[2] \in DOMAIN tree[at[1]].sources
    <3>1. at \in Positions(tree)
      BY DEF Physical
    <3> QED BY <3>1 DEF Positions
  <2>2. tree[at[1]].sources[at[2]].table # ""
    BY DEF Physical
  <2> QED BY <1>1, <2>1, <2>2, AcceptedIsPruned
<1> QED BY <1>1, InjectedInit, InjectedStep, StructuredInit, StructuredStep,
           FiltersJudgedInit, FiltersJudgedStep, PTL DEF Spec

-----------------------------------------------------------------------------
(* The types.                                                               *)

LEMMA PositionInNode ==
  ASSUME tree \in Seq(Select), NEW at \in Positions(tree) PROVE at \in Node
<1>1. PICK i \in DOMAIN tree : \E k \in DOMAIN tree[i].sources : at = <<i, k>>
  BY DEF Positions
<1>2. PICK k \in DOMAIN tree[i].sources : at = <<i, k>>
  BY <1>1
<1>3. i \in Nat /\ k \in Nat
  BY PositionIs, PositionTyped
<1> QED BY <1>2, <1>3 DEF Node

\* What the maps say of a physical reference.
LEMMA ReferenceTyped ==
  ASSUME tree \in Seq(Select), infos = ScopeMaps(tree), NEW r \in References
  PROVE  SourceOf(r).node \in Node /\ SourceOf(r).table \in Tables
<1>1. PICK i \in DOMAIN tree : \E k \in DOMAIN tree[i].sources :
           LET s == tree[i].sources[k]
           IN  /\ s.table # ""
               /\ \/ r = <<<<i, 0>>, k>> /\ ~s.wrapped /\ SourceOf(r) = SourceAt(tree, i, k)
                  \/ r = <<<<i, k>>, 1>> /\ s.wrapped /\ k # 0 /\ SourceOf(r) = CopyAt(tree, i, k)
  BY ReferenceCases
<1>2. PICK k \in DOMAIN tree[i].sources :
           LET s == tree[i].sources[k]
           IN  /\ s.table # ""
               /\ \/ r = <<<<i, 0>>, k>> /\ ~s.wrapped /\ SourceOf(r) = SourceAt(tree, i, k)
                  \/ r = <<<<i, k>>, 1>> /\ s.wrapped /\ k # 0 /\ SourceOf(r) = CopyAt(tree, i, k)
  BY <1>1
<1>3. i \in Nat /\ k \in Nat /\ tree[i].sources[k] \in Source
  BY PositionIs, PositionTyped
<1>4. tree[i].sources[k].table \in Tables
  BY <1>2, <1>3 DEF Source
<1>5. /\ CopyAt(tree, i, k).node = <<i, k, "copy">>
      /\ CopyAt(tree, i, k).table = tree[i].sources[k].table
  BY DEF CopyAt
<1>6. /\ SourceAt(tree, i, k).node = <<i, k, "written">>
      /\ ~tree[i].sources[k].wrapped => SourceAt(tree, i, k).table = tree[i].sources[k].table
  BY DEF SourceAt
<1>7. <<i, k, "copy">> \in Node /\ <<i, k, "written">> \in Node
  BY <1>3 DEF Node
<1> QED BY <1>2, <1>4, <1>5, <1>6, <1>7

LEMMA MapTyped ==
  ASSUME tree \in Seq(Select), infos = ScopeMaps(tree), NEW s \in DOMAIN infos, NEW k \in DOMAIN infos[s]
  PROVE  infos[s][k].table \in Tables \cup {""}
<1> SUFFICES ASSUME infos[s][k].table # "" PROVE infos[s][k].table \in Tables
  OBVIOUS
<1> DEFINE r == <<s, k>>
<1>1. r \in References
  <2> DEFINE physical(x) == {n \in DOMAIN infos[x] : infos[x][n].table # ""}
  <2>1. r \in {s} \X physical(s)
    OBVIOUS
  <2> HIDE DEF physical, r
  <2>2. References = UNION {{x} \X physical(x) : x \in DOMAIN infos}
    BY DEF References, physical
  <2> QED BY <2>1, <2>2
<1>2. SourceOf(r) = infos[s][k]
  BY DEF SourceOf
<1> QED BY <1>1, <1>2, ReferenceTyped

\* The table a column is counted for.
LEMMA TableOfTyped ==
  ASSUME tree \in Seq(Select), Nested(tree), infos = ScopeMaps(tree), NEW s \in DOMAIN infos, NEW use
  PROVE  TableOf(s, use) \in Tables \cup {""}
<1>1. PICK i \in DOMAIN tree :
        \/ s = <<i, 0>>
        \/ \E k \in DOMAIN tree[i].sources : s = <<i, k>> /\ k # 0 /\ infos[s] = <<CopyAt(tree, i, k)>>
  BY MapsCases
<1>2. CASE s[2] # 0
  <2>1. PICK k \in DOMAIN tree[i].sources : s = <<i, k>> /\ infos[s] = <<CopyAt(tree, i, k)>>
    BY <1>1, <1>2
  <2> DEFINE copy == CopyAt(tree, i, k)
  <2> HIDE DEF copy
  <2>2. DOMAIN infos[s] = {1}
    BY <2>1, OneLong DEF copy
  <2>3. infos[s][1].table \in Tables \cup {""}
    BY <2>2, MapTyped
  <2> QED BY <1>2, <2>3 DEF TableOf
<1>3. CASE s[2] = 0
  <2>1. s[1] = i
    BY <1>1
  <2> DEFINE b == Binding(tree, i, use.alias)
  <2>2. b = <<0, 0>> \/ \E j \in DOMAIN tree : \E k \in DOMAIN tree[j].sources : b = <<j, k>>
    BY BindingNames
  <2> HIDE DEF b
  <2>3. TableOf(s, use) = IF b = <<0, 0>> THEN "" ELSE infos[<<b[1], 0>>][b[2]].table
    BY <1>3, <2>1 DEF TableOf, b
  <2>4. ASSUME NEW j \in DOMAIN tree, NEW k \in DOMAIN tree[j].sources, b = <<j, k>>
        PROVE  infos[<<b[1], 0>>][b[2]].table \in Tables \cup {""}
    <3> DEFINE x == <<j, 0>>
    <3>1. x \in ScopesOf(tree) /\ x[1] = j /\ x[2] = 0
      BY DEF ScopesOf
    <3> HIDE DEF x
    <3>2. x \in DOMAIN infos /\ DOMAIN infos[x] = DOMAIN tree[j].sources
      BY <3>1 DEF ScopeMaps
    <3>3. infos[x][k].table \in Tables \cup {""}
      BY <3>2, MapTyped
    <3>4. b[1] = j /\ b[2] = k
      BY <2>4
    <3> QED BY <3>3, <3>4 DEF x
  <2> QED BY <2>2, <2>3, <2>4
<1> QED BY <1>2, <1>3

QueueTyped ==
  /\ pc \in {"column_policy", "row_level_security", "inject", "join_checks",
             "partition_filters", "collect", "estimate", "done"}
  /\ todo \subseteq (IF pc = "collect" THEN DOMAIN infos
                     ELSE IF pc = "estimate" THEN References ELSE Positions(tree))
  /\ pc \notin {"inject", "collect", "estimate"} => todo = {}

LEMMA QueueTypedStep == Injected /\ QueueTyped /\ [Next]_vars => QueueTyped'
<1> SUFFICES ASSUME Injected, QueueTyped, [Next]_vars PROVE QueueTyped'
  OBVIOUS
<1>0. Injected'
  BY InjectedStep
<1>1. CASE ColumnPolicy \/ EndInjections \/ JoinChecks
  BY <1>1 DEF ColumnPolicy, EndInjections, JoinChecks, QueueTyped
<1>2. CASE ScanReferences
  <2>1. pc' = "inject" /\ todo' \subseteq Positions(tree)'
    BY <1>0, <1>2 DEF ScanReferences, Injected
  <2> QED BY <2>1 DEF QueueTyped
<1>3. CASE PartitionFilters
  <2>1. infos' = infos
    BY <1>3 DEF PartitionFilters, infos
  <2> QED BY <1>3, <2>1 DEF PartitionFilters, QueueTyped
<1>4. ASSUME NEW r \in todo, Inject(r[1], r[2]) PROVE QueueTyped'
  <2>1. pc' = "inject" /\ todo' \subseteq Positions(tree)'
    BY <1>0, <1>4 DEF Inject, Injected
  <2> QED BY <2>1 DEF QueueTyped
<1>5. ASSUME NEW r \in todo, CollectScope(r) PROVE QueueTyped'
  <2>1. infos' = infos /\ pc' = "collect" /\ pc = "collect" /\ todo' \subseteq todo
    BY <1>5 DEF CollectScope, infos
  <2> QED BY <2>1 DEF QueueTyped
<1>6. ASSUME NEW r \in todo, EstimateReference(r) PROVE QueueTyped'
  <2>1. References' = References /\ pc' = "estimate" /\ pc = "estimate" /\ todo' \subseteq todo
    BY <1>6 DEF EstimateReference, infos, References
  <2> QED BY <2>1 DEF QueueTyped
<1>7. CASE StartEstimate
  <2>1. References' = References
    <3>1. infos' = infos
      BY <1>7 DEF StartEstimate, infos
    <3> QED BY <3>1 DEF References
  <2>2. pc' = "estimate" /\ todo' = References
    BY <1>7 DEF StartEstimate
  <2> QED BY <2>1, <2>2 DEF QueueTyped
<1>8. CASE EndEstimation
  BY <1>8 DEF EndEstimation, QueueTyped
<1>9. CASE UNCHANGED vars
  <2>1. tree' = tree /\ pc' = pc /\ todo' = todo /\ infos' = infos
    BY <1>9 DEF vars, infos
  <2>2. References' = References /\ Positions(tree)' = Positions(tree)
    BY <2>1 DEF References
  <2> QED BY <2>1, <2>2 DEF QueueTyped
<1> QED BY <1>1, <1>2, <1>3, <1>4, <1>5, <1>6, <1>7, <1>8, <1>9 DEF Next

ReportsTyped ==
  /\ policy \in Policy
  /\ violations \subseteq [code : Codes, error : BOOLEAN, at : Node]

LEMMA ViolationTyped ==
  ASSUME NEW code \in Codes, NEW error \in BOOLEAN, NEW at \in Node
  PROVE  Violation(code, error, at) \in [code : Codes, error : BOOLEAN, at : Node]
BY DEF Violation

LEMMA ReportsTypedStep == Injected /\ ReportsTyped /\ [Next]_vars => ReportsTyped'
<1> SUFFICES ASSUME Injected, ReportsTyped, [Next]_vars PROVE ReportsTyped'
  OBVIOUS
<1> DEFINE Reports == [code : Codes, error : BOOLEAN, at : Node]
<1>0. policy' = policy /\ tree \in Seq(Select) /\ policy \in Policy /\ violations \subseteq Reports
  BY DEF Next, vars, Injected, ReportsTyped, ColumnPolicy, ScanReferences, EndInjections, JoinChecks,
         PartitionFilters, Inject, CollectScope, EstimateReference, StartEstimate, EndEstimation
<1>1. <<0, 0>> \in Node
  BY DEF Node
<1> HIDE DEF Reports
<1> SUFFICES violations' \subseteq Reports
  BY <1>0 DEF ReportsTyped, Reports
<1>2. CASE JoinChecks
  <2>1. policy.strict_joins \in BOOLEAN
    BY <1>0 DEF Policy
  <2>2. Joins \subseteq Positions(tree)
    BY DEF Joins
  <2>3. \A j \in Joins : /\ Violation("CARTESIAN_JOIN", policy.strict_joins, j) \in Reports
                         /\ Violation("SUSPICIOUS_JOIN", FALSE, j) \in Reports
    BY <1>0, <2>1, <2>2, PositionInNode, ViolationTyped DEF Codes, Reports
  <2>4. ASSUME NEW v \in violations', v \notin violations
        PROVE  \E j \in Joins : \/ v = Violation("CARTESIAN_JOIN", policy.strict_joins, j)
                               \/ v = Violation("SUSPICIOUS_JOIN", FALSE, j)
    BY <1>2, <2>4 DEF JoinChecks
  <2> QED BY <1>0, <2>3, <2>4
<1>3. CASE PartitionFilters
  <2>1. infos = ScopeMaps(tree)
    BY <1>3, InfosFresh DEF PartitionFilters
  <2>2. \A r \in Partitioned : SourceOf(r).node \in Node
    BY <1>0, <2>1, ReferenceTyped DEF Partitioned
  <2>3. \A r \in Partitioned : Violation("MISSING_PARTITION_FILTER", TRUE, SourceOf(r).node) \in Reports
    BY <2>2, ViolationTyped DEF Codes, Reports
  <2> QED BY <1>0, <1>3, <2>3 DEF PartitionFilters
<1>4. ASSUME NEW r \in todo, EstimateReference(r) PROVE violations' \subseteq Reports
  <2>1. Violation("MISSING_STATISTICS", policy.on_missing_stats = "error", <<0, 0>>) \in Reports
    BY <1>1, ViolationTyped DEF Codes, Reports
  <2> QED BY <1>0, <1>4, <2>1 DEF EstimateReference
<1>5. CASE EndEstimation
  <2>1. Violation("SCAN_BUDGET_EXCEEDED", TRUE, <<0, 0>>) \in Reports
    BY <1>1, ViolationTyped DEF Codes, Reports
  <2> QED BY <1>0, <1>5, <2>1 DEF EndEstimation
<1>6. CASE ColumnPolicy \/ ScanReferences \/ EndInjections \/ StartEstimate \/ UNCHANGED vars
  BY <1>0, <1>6 DEF ColumnPolicy, ScanReferences, EndInjections, StartEstimate, vars
<1>7. ASSUME NEW r \in todo, Inject(r[1], r[2]) \/ CollectScope(r) PROVE violations' \subseteq Reports
  BY <1>0, <1>7 DEF Inject, CollectScope
<1> QED BY <1>2, <1>3, <1>4, <1>5, <1>6, <1>7 DEF Next

-----------------------------------------------------------------------------
(* The columns each table is read for.                                      *)

Marks(t, columns) == columns = AllColumns \/ columns \subseteq Catalog[t].columns
Covers(columns, c) == columns = AllColumns \/ c \in columns

MarksTyped == \A t \in DOMAIN referenced : t \in Tables /\ Marks(t, referenced[t])

\* What collect_referenced_columns knows of the tables of a scope.
CoveredHere(s) ==
  \A k \in DOMAIN infos[s] : infos[s][k].table # "" =>
    /\ infos[s][k].table \in DOMAIN referenced
    /\ BareStar(s) => referenced[infos[s][k].table] = AllColumns

\* What it knows of the columns that are written in a scope.
CoveredUse(s, u) ==
  LET t == TableOf(s, u)
  IN  t # "" /\ u.column \in Catalog[t].columns => t \in DOMAIN referenced /\ Covers(referenced[t], u.column)

Covered(s) == CoveredHere(s) /\ \A u \in Owned(s) : CoveredUse(s, u)

\* Every scope that has been collected is covered by what is collected.
Gathered ==
  /\ MarksTyped
  /\ ~AfterFilters => partition_flags = << >> /\ referenced = << >>
  /\ AfterFilters => \A s \in DOMAIN infos : (s \in todo /\ pc = "collect") \/ Covered(s)

\* What is said of a table and of one of its columns is not taken back.
Grows(before, after) ==
  /\ DOMAIN before \subseteq DOMAIN after
  /\ \A t \in DOMAIN before : /\ before[t] = AllColumns => after[t] = AllColumns
                              /\ \A c : Covers(before[t], c) => Covers(after[t], c)

LEMMA MarkCovers ==
  ASSUME NEW old, NEW marked
  PROVE  /\ old = AllColumns => Mark(old, marked) = AllColumns
         /\ \A c : Covers(old, c) \/ c \in marked => Covers(Mark(old, marked), c)
BY DEF Mark, Covers

\* CollectScope, table by table.
LEMMA CollectMarks ==
  ASSUME NEW s, CollectScope(s)
  PROVE  LET here == {infos[s][k].table : k \in DOMAIN infos[s]} \ {""}
             marked(t) == Catalog[t].columns \cap {u.column : u \in {u \in Owned(s) : TableOf(s, u) = t}}
             touched == here \cup ({TableOf(s, u) : u \in Owned(s)} \ {""})
             old(t) == IF BareStar(s) /\ t \in here THEN AllColumns
                       ELSE IF t \in DOMAIN referenced THEN referenced[t] ELSE {}
         IN  /\ DOMAIN referenced' = touched \cup DOMAIN referenced
             /\ \A t \in touched : referenced'[t] = Mark(old(t), marked(t))
             /\ \A t \in DOMAIN referenced \ touched : referenced'[t] = referenced[t]
<1> DEFINE here == {infos[s][k].table : k \in DOMAIN infos[s]} \ {""}
           marked(t) == Catalog[t].columns \cap {u.column : u \in {u \in Owned(s) : TableOf(s, u) = t}}
           touched == here \cup ({TableOf(s, u) : u \in Owned(s)} \ {""})
           old(t) == IF BareStar(s) /\ t \in here THEN AllColumns
                     ELSE IF t \in DOMAIN referenced THEN referenced[t] ELSE {}
<1>1. referenced' = [t \in touched \cup DOMAIN referenced |->
                       IF t \in touched THEN Mark(old(t), marked(t)) ELSE referenced[t]]
  BY DEF CollectScope
<1> HIDE DEF touched, old, marked
<1>4. /\ DOMAIN referenced' = touched \cup DOMAIN referenced
      /\ \A t \in touched : referenced'[t] = Mark(old(t), marked(t))
      /\ \A t \in DOMAIN referenced \ touched : referenced'[t] = referenced[t]
  BY <1>1
<1> QED BY <1>4 DEF touched, old, marked

LEMMA ScopesSame ==
  ASSUME tree' = tree, infos' = infos, NEW s
  PROVE  /\ Owned(s)' = Owned(s) /\ (BareStar(s)' <=> BareStar(s))
         /\ \A u : TableOf(s, u)' = TableOf(s, u)
<1>1. \A u : Binding(tree, s[1], u.alias)' = Binding(tree, s[1], u.alias)
  OBVIOUS
<1>2. \A u : TableOf(s, u)' = TableOf(s, u)
  BY <1>1 DEF TableOf
<1> QED BY <1>2 DEF Owned, BareStar

LEMMA GrowsKeepsCovered ==
  ASSUME tree' = tree, infos' = infos, Grows(referenced, referenced'), NEW s, Covered(s)
  PROVE  Covered(s)'
<1>1. /\ Owned(s)' = Owned(s) /\ (BareStar(s)' <=> BareStar(s))
      /\ \A u : TableOf(s, u)' = TableOf(s, u)
  BY ScopesSame
<1>2. CoveredHere(s)'
  BY <1>1 DEF Covered, CoveredHere, Grows
<1>3. \A u \in Owned(s) : CoveredUse(s, u)'
  <2> TAKE u \in Owned(s)
  <2>1. CoveredUse(s, u)
    BY DEF Covered
  <2>2. TableOf(s, u)' = TableOf(s, u)
    BY <1>1
  <2> QED BY <2>1, <2>2 DEF CoveredUse, Grows
<1> QED BY <1>1, <1>2, <1>3 DEF Covered

LEMMA CollectGrows ==
  ASSUME NEW s, CollectScope(s) PROVE Grows(referenced, referenced')
<1> DEFINE here == {infos[s][k].table : k \in DOMAIN infos[s]} \ {""}
           marked(t) == Catalog[t].columns \cap {u.column : u \in {u \in Owned(s) : TableOf(s, u) = t}}
           touched == here \cup ({TableOf(s, u) : u \in Owned(s)} \ {""})
           old(t) == IF BareStar(s) /\ t \in here THEN AllColumns
                     ELSE IF t \in DOMAIN referenced THEN referenced[t] ELSE {}
<1>1. /\ DOMAIN referenced' = touched \cup DOMAIN referenced
      /\ \A t \in touched : referenced'[t] = Mark(old(t), marked(t))
      /\ \A t \in DOMAIN referenced \ touched : referenced'[t] = referenced[t]
  BY CollectMarks
<1>2. ASSUME NEW t \in DOMAIN referenced \cap touched
      PROVE  /\ referenced[t] = AllColumns => referenced'[t] = AllColumns
             /\ \A c : Covers(referenced[t], c) => Covers(referenced'[t], c)
  <2>1. old(t) \in {AllColumns, referenced[t]}
    OBVIOUS
  <2>2. referenced'[t] = Mark(old(t), marked(t))
    BY <1>1
  <2> HIDE DEF old, marked
  <2>3. /\ old(t) = AllColumns => referenced'[t] = AllColumns
        /\ \A c : Covers(old(t), c) => Covers(referenced'[t], c)
    BY <2>2 DEF Mark, Covers
  <2>4. CASE old(t) = AllColumns
    BY <2>3, <2>4 DEF Covers
  <2>5. CASE old(t) = referenced[t]
    BY <2>3, <2>5
  <2> QED BY <2>1, <2>4, <2>5
<1> HIDE DEF touched, old, marked
<1> QED BY <1>1, <1>2 DEF Grows

LEMMA CollectCovers ==
  ASSUME NEW s, CollectScope(s) PROVE Covered(s)'
<1> DEFINE here == {infos[s][k].table : k \in DOMAIN infos[s]} \ {""}
           marked(t) == Catalog[t].columns \cap {u.column : u \in {u \in Owned(s) : TableOf(s, u) = t}}
           touched == here \cup ({TableOf(s, u) : u \in Owned(s)} \ {""})
           old(t) == IF BareStar(s) /\ t \in here THEN AllColumns
                     ELSE IF t \in DOMAIN referenced THEN referenced[t] ELSE {}
<1>0. tree' = tree /\ infos' = infos
  BY DEF CollectScope, infos
<1>1. /\ DOMAIN referenced' = touched \cup DOMAIN referenced
      /\ \A t \in touched : referenced'[t] = Mark(old(t), marked(t))
  BY CollectMarks
<1>2. /\ Owned(s)' = Owned(s) /\ (BareStar(s)' <=> BareStar(s))
      /\ \A u : TableOf(s, u)' = TableOf(s, u)
  BY <1>0, ScopesSame
<1>3. ASSUME NEW k \in DOMAIN infos[s], infos[s][k].table # ""
      PROVE  /\ infos[s][k].table \in DOMAIN referenced'
             /\ BareStar(s) => referenced'[infos[s][k].table] = AllColumns
  <2> DEFINE t == infos[s][k].table
  <2>1. t \in here
    BY <1>3
  <2> HIDE DEF t, here
  <2>2. t \in touched
    BY <2>1
  <2>3. BareStar(s) => old(t) = AllColumns
    BY <2>1
  <2> HIDE DEF touched, old, marked
  <2> QED BY <1>1, <2>2, <2>3, MarkCovers DEF t
<1>4. CoveredHere(s)'
  BY <1>0, <1>2, <1>3 DEF CoveredHere
<1>5. ASSUME NEW u \in Owned(s), TableOf(s, u) # "", u.column \in Catalog[TableOf(s, u)].columns
      PROVE  /\ TableOf(s, u) \in DOMAIN referenced'
             /\ Covers(referenced'[TableOf(s, u)], u.column)
  <2> DEFINE t == TableOf(s, u)
  <2>1. t \in touched /\ u.column \in marked(t)
    BY <1>5
  <2> HIDE DEF touched, old, marked, t
  <2>2. t \in DOMAIN referenced' /\ referenced'[t] = Mark(old(t), marked(t))
    BY <1>1, <2>1
  <2>3. Covers(referenced'[t], u.column)
    BY <2>1, <2>2 DEF Mark, Covers
  <2> QED BY <2>2, <2>3 DEF t
<1>6. \A u \in Owned(s) : CoveredUse(s, u)'
  <2> TAKE u \in Owned(s)
  <2>1. TableOf(s, u)' = TableOf(s, u)
    BY <1>2
  <2> HIDE DEF touched, old, marked
  <2> QED BY <1>5, <2>1 DEF CoveredUse
<1> QED BY <1>2, <1>4, <1>6 DEF Covered

LEMMA CollectKeepsMarksTyped ==
  ASSUME Injected, Structured, MarksTyped, QueueTyped, NEW s \in todo, CollectScope(s) PROVE MarksTyped'
<1> DEFINE here == {infos[s][k].table : k \in DOMAIN infos[s]} \ {""}
           marked(t) == Catalog[t].columns \cap {u.column : u \in {u \in Owned(s) : TableOf(s, u) = t}}
           touched == here \cup ({TableOf(s, u) : u \in Owned(s)} \ {""})
           old(t) == IF BareStar(s) /\ t \in here THEN AllColumns
                     ELSE IF t \in DOMAIN referenced THEN referenced[t] ELSE {}
<1>0. infos = ScopeMaps(tree) /\ pc = "collect" /\ s \in DOMAIN infos /\ tree \in Seq(Select) /\ Nested(tree)
  BY InfosFresh DEF CollectScope, QueueTyped, Injected, Structured, Wellformed
<1>1. /\ DOMAIN referenced' = touched \cup DOMAIN referenced
      /\ \A t \in touched : referenced'[t] = Mark(old(t), marked(t))
      /\ \A t \in DOMAIN referenced \ touched : referenced'[t] = referenced[t]
  BY CollectMarks
<1>2. touched \subseteq Tables
  <2>1. here \subseteq Tables
    BY <1>0, MapTyped
  <2>2. \A u \in Owned(s) : TableOf(s, u) \in Tables \cup {""}
    BY <1>0, TableOfTyped
  <2> HIDE DEF here
  <2> QED BY <2>1, <2>2
<1>3. ASSUME NEW t \in touched PROVE Marks(t, referenced'[t])
  <2>1. Marks(t, old(t))
    BY DEF MarksTyped, Marks
  <2>2. marked(t) \subseteq Catalog[t].columns
    OBVIOUS
  <2> HIDE DEF old, marked
  <2>3. referenced'[t] = Mark(old(t), marked(t))
    BY <1>1
  <2> QED BY <2>1, <2>2, <2>3 DEF Mark, Marks
<1> HIDE DEF touched, old, marked
<1> QED BY <1>1, <1>2, <1>3 DEF MarksTyped

LEMMA GatheredInit == Init => Gathered
BY DEF Init, Gathered, MarksTyped, AfterFilters

LEMMA GatheredStep ==
  Injected /\ Structured /\ QueueTyped /\ Gathered /\ [Next]_vars => Gathered'
<1> SUFFICES ASSUME Injected, Structured, QueueTyped, Gathered, [Next]_vars PROVE Gathered'
  OBVIOUS
<1>1. CASE ColumnPolicy \/ ScanReferences \/ EndInjections \/ JoinChecks
  <2>1. ~AfterFilters /\ ~AfterFilters'
    BY <1>1 DEF ColumnPolicy, ScanReferences, EndInjections, JoinChecks, AfterFilters
  <2>2. referenced' = referenced /\ partition_flags' = partition_flags
    BY <1>1 DEF ColumnPolicy, ScanReferences, EndInjections, JoinChecks
  <2> QED BY <2>1, <2>2 DEF Gathered, MarksTyped
<1>2. ASSUME NEW r \in todo, Inject(r[1], r[2]) PROVE Gathered'
  <2>1. ~AfterFilters /\ ~AfterFilters'
    BY <1>2 DEF Inject, AfterFilters
  <2>2. referenced' = referenced /\ partition_flags' = partition_flags
    BY <1>2 DEF Inject
  <2> QED BY <2>1, <2>2 DEF Gathered, MarksTyped
<1>3. CASE PartitionFilters
  <2>1. ~AfterFilters /\ AfterFilters' /\ pc' = "collect"
    BY <1>3 DEF PartitionFilters, AfterFilters
  <2>2. referenced' = referenced /\ infos' = infos /\ todo' = DOMAIN infos
    BY <1>3 DEF PartitionFilters, infos
  <2> QED BY <2>1, <2>2 DEF Gathered, MarksTyped
<1>4. ASSUME NEW r \in todo, CollectScope(r) PROVE Gathered'
  <2>1. AfterFilters /\ AfterFilters' /\ pc' = "collect" /\ pc = "collect" /\ todo' = todo \ {r}
        /\ tree' = tree /\ infos' = infos
    BY <1>4 DEF CollectScope, AfterFilters, infos
  <2>2. MarksTyped'
    BY <1>4, CollectKeepsMarksTyped DEF Gathered
  <2>3. Grows(referenced, referenced') /\ Covered(r)'
    BY <1>4, CollectGrows, CollectCovers
  <2>4. \A s \in DOMAIN infos : s \in todo \/ Covered(s)
    BY <2>1 DEF Gathered
  <2>5. \A s : Covered(s) => Covered(s)'
    BY <2>1, <2>3, GrowsKeepsCovered
  <2>6. \A s \in DOMAIN infos : s \in todo' \/ Covered(s)'
    BY <2>1, <2>3, <2>4, <2>5
  <2> QED BY <2>1, <2>2, <2>6 DEF Gathered
<1>5. ASSUME tree' = tree, index' = index, referenced' = referenced, AfterFilters, AfterFilters',
             pc = "collect" => todo = {}
      PROVE  Gathered'
  <2>1. infos' = infos
    BY <1>5 DEF infos
  <2>2. Grows(referenced, referenced')
    BY <1>5 DEF Grows
  <2>3. \A s \in DOMAIN infos : Covered(s)
    BY <1>5 DEF Gathered
  <2>4. \A s \in DOMAIN infos : Covered(s)'
    BY <1>5, <2>1, <2>2, <2>3, GrowsKeepsCovered
  <2> QED BY <1>5, <2>1, <2>4 DEF Gathered, MarksTyped
<1>6. CASE StartEstimate \/ EndEstimation
  BY <1>5, <1>6 DEF StartEstimate, EndEstimation, AfterFilters
<1>7. ASSUME NEW r \in todo, EstimateReference(r) PROVE Gathered'
  BY <1>5, <1>7 DEF EstimateReference, AfterFilters
<1>8. CASE UNCHANGED vars
  <2>1. tree' = tree /\ infos' = infos /\ referenced' = referenced /\ pc' = pc /\ todo' = todo
        /\ partition_flags' = partition_flags /\ (AfterFilters' <=> AfterFilters)
    BY <1>8 DEF vars, infos, AfterFilters
  <2>2. Grows(referenced, referenced')
    BY <2>1 DEF Grows
  <2>3. \A s : Covered(s) => Covered(s)'
    BY <2>1, <2>2, GrowsKeepsCovered
  <2>4. MarksTyped'
    BY <2>1 DEF Gathered, MarksTyped
  <2> HIDE DEF AfterFilters
  <2> QED BY <2>1, <2>3, <2>4 DEF Gathered
<1> QED BY <1>1, <1>2, <1>3, <1>4, <1>6, <1>7, <1>8 DEF Next

-----------------------------------------------------------------------------
(* Sums.                                                                    *)

SumOf(f, S) == MapThenSumSet(LAMBDA x : f[x], S)

AnyOf(T) == CHOOSE x \in T : TRUE

\* g is the sum over each subset of S, an element at a time.
Adds(g, f, S) ==
  /\ g[{}] = 0
  /\ \A T \in SUBSET S : T # {} => g[T] = f[AnyOf(T)] + g[T \ {AnyOf(T)}]

LEMMA AnyOfIs ==
  ASSUME NEW T, T # {} PROVE AnyOf(T) \in T
BY DEF AnyOf

\* Size of a subset, as a rank.
LEMMA SubsetRank ==
  ASSUME NEW S, IsFiniteSet(S)
  PROVE  /\ Cardinality(S) \in Nat
         /\ \A T \in SUBSET S : /\ IsFiniteSet(T) /\ Cardinality(T) \in 0..Cardinality(S)
                                /\ \A x \in T : Cardinality(T \ {x}) < Cardinality(T)
<1>1. Cardinality(S) \in Nat
  BY FS_CardinalityType
<1>2. ASSUME NEW T \in SUBSET S
      PROVE  /\ IsFiniteSet(T) /\ Cardinality(T) \in 0..Cardinality(S)
             /\ \A x \in T : Cardinality(T \ {x}) < Cardinality(T)
  <2>1. IsFiniteSet(T) /\ Cardinality(T) <= Cardinality(S)
    BY FS_Subset
  <2>2. Cardinality(T) \in Nat
    BY <2>1, FS_CardinalityType
  <2>3. \A x \in T : Cardinality(T \ {x}) = Cardinality(T) - 1
    BY <2>1, FS_RemoveElement
  <2> QED BY <1>1, <2>1, <2>2, <2>3
<1> QED BY <1>1, <1>2

LEMMA SumExists ==
  ASSUME NEW S, IsFiniteSet(S), NEW f, \A x \in S : f[x] \in Nat
  PROVE  \E g \in [SUBSET S -> Nat] : Adds(g, f, S) /\ SumOf(f, S) = g[S]
<1> DEFINE D == SUBSET S
           V == Nat
           next(g, T) == IF T = {} THEN 0 ELSE f[AnyOf(T)] + g[T \ {AnyOf(T)}]
           G == [g \in FunctionsOn(D, V) |-> [T \in D |-> next(g, T)]]
           rank == [T \in D |-> Cardinality(T)]
           N == Cardinality(S)
<1>1. N \in Nat /\ \A T \in D : rank[T] \in 0..N
  BY SubsetRank
<1>2. \A T \in D : T # {} => /\ AnyOf(T) \in T /\ f[AnyOf(T)] \in Nat
                             /\ T \ {AnyOf(T)} \in D /\ rank[T \ {AnyOf(T)}] < rank[T]
  BY SubsetRank, AnyOfIs
<1>3. \A g \in [D -> V] : \A T \in D : next(g, T) \in V
  <2> HIDE DEF D, rank
  <2> QED BY <1>2
<1>4. G \in [FunctionsOn(D, V) -> FunctionsOn(D, V)]
  <2> HIDE DEF D, V, next
  <2> QED BY <1>3 DEF FunctionsOn
<1>5. LowerDecide(G, D, V, rank)
  <2>0. \A g \in [D -> V] : \A T \in D : G[g][T] = next(g, T)
    <3> HIDE DEF D, V, next
    <3> QED BY DEF FunctionsOn
  <2> SUFFICES ASSUME NEW g \in [D -> V], NEW h \in [D -> V], NEW T \in D,
                      \A X \in D : rank[X] < rank[T] => g[X] = h[X]
               PROVE  next(g, T) = next(h, T)
    <3> HIDE DEF G, D, V, next, rank
    <3> QED BY <2>0 DEF LowerDecide
  <2> HIDE DEF D, rank
  <2> QED BY <1>2
<1>6. PICK g \in [D -> V] : G[g] = g
  <2> HIDE DEF D, V, G, N, rank
  <2>1. V # {}
    BY DEF V
  <2> QED BY <1>1, <1>4, <1>5, <2>1, RankedFixpointExists
<1>7. g = [T \in D |-> next(g, T)]
  <2>1. g \in FunctionsOn(D, V)
    BY <1>6 DEF FunctionsOn
  <2> HIDE DEF D, V, next
  <2> QED BY <1>6, <2>1
<1> DEFINE sum == CHOOSE h : h = [T \in D |-> next(h, T)]
<1>8. sum = [T \in D |-> next(sum, T)]
  <2> HIDE DEF next, D
  <2> QED BY <1>7
<1>9. SumOf(f, S) = sum[S]
  BY DEF SumOf, MapThenSumSet, MapThenFoldSet, AnyOf
<1> HIDE DEF sum
<1>10. \A T \in D : sum[T] = next(sum, T)
  <2> HIDE DEF D, next
  <2> QED BY <1>8
<1>11. Adds(sum, f, S)
  BY <1>10 DEF Adds
<1>12. sum \in [D -> V]
  <2> DEFINE P == {T \in D : sum[T] \in V}
  <2>1. ASSUME NEW T \in D, \A X \in D : rank[X] < rank[T] => X \in P PROVE T \in P
    <3>1. T # {} => T \ {AnyOf(T)} \in P /\ f[AnyOf(T)] \in Nat
      BY <1>2, <2>1
    <3>2. sum[T] = next(sum, T)
      BY <1>10
    <3>3. sum[T] \in V
      <4> HIDE DEF D, rank
      <4> QED BY <3>1, <3>2
    <3> QED BY <3>3
  <2>2. \A T \in D : rank[T] \in Nat
    <3> HIDE DEF N, D, rank
    <3> QED BY <1>1
  <2>3. D \subseteq P
    <3> HIDE DEF D, P, rank
    <3> QED BY <2>1, <2>2, AllByRank
  <2> HIDE DEF D, V, next
  <2> QED BY <1>8, <2>3
<1> QED BY <1>9, <1>11, <1>12

\* The sum of a subset does not depend on what it is a subset of.
LEMMA SumsAgree ==
  ASSUME NEW S, IsFiniteSet(S), NEW R, IsFiniteSet(R), NEW f, NEW g, Adds(g, f, S), NEW h, Adds(h, f, R),
         NEW U, U \subseteq S, U \subseteq R
  PROVE  g[U] = h[U]
<1> DEFINE D == SUBSET U
           rank == [T \in D |-> Cardinality(T)]
           P == {T \in D : g[T] = h[T]}
<1>1. \A T \in D : rank[T] \in Nat /\ \A x \in T : T \ {x} \in D /\ rank[T \ {x}] < rank[T]
  <2>1. IsFiniteSet(U)
    BY FS_Subset
  <2> QED BY <2>1, SubsetRank
<1>2. ASSUME NEW T \in D, \A X \in D : rank[X] < rank[T] => X \in P PROVE T \in P
  <2>1. CASE T = {}
    BY <2>1 DEF Adds
  <2>2. CASE T # {}
    <3>1. AnyOf(T) \in T
      BY <2>2, AnyOfIs
    <3>2. T \ {AnyOf(T)} \in P
      BY <1>1, <1>2, <3>1
    <3>3. g[T] = f[AnyOf(T)] + g[T \ {AnyOf(T)}] /\ h[T] = f[AnyOf(T)] + h[T \ {AnyOf(T)}]
      BY <2>2 DEF Adds
    <3> QED BY <3>2, <3>3
  <2> QED BY <2>1, <2>2
<1>3. D \subseteq P
  <2> HIDE DEF D, P, rank
  <2> QED BY <1>1, <1>2, AllByRank
<1> QED BY <1>3

\* Any element may be added last.
LEMMA AddsInAnyOrder ==
  ASSUME NEW S, IsFiniteSet(S), NEW f, \A x \in S : f[x] \in Nat, NEW g \in [SUBSET S -> Nat], Adds(g, f, S)
  PROVE  \A x \in S : g[S] = f[x] + g[S \ {x}]
<1> DEFINE D == SUBSET S
           rank == [T \in D |-> Cardinality(T)]
           P == {T \in D : \A x \in T : g[T] = f[x] + g[T \ {x}]}
<1>1. \A T \in D : rank[T] \in Nat /\ \A x \in T : T \ {x} \in D /\ rank[T \ {x}] < rank[T]
  BY SubsetRank
<1>2. ASSUME NEW T \in D, \A X \in D : rank[X] < rank[T] => X \in P PROVE T \in P
  <2> SUFFICES ASSUME NEW x \in T PROVE g[T] = f[x] + g[T \ {x}]
    OBVIOUS
  <2> DEFINE c == AnyOf(T)
  <2>1. c \in T /\ g[T] = f[c] + g[T \ {c}]
    BY AnyOfIs DEF Adds
  <2> HIDE DEF c
  <2>2. CASE x = c
    BY <2>1, <2>2
  <2>3. CASE x # c
    <3>1. T \ {c} \in P /\ T \ {x} \in P
      BY <1>1, <1>2, <2>1
    <3> DEFINE rest == (T \ {c}) \ {x}
    <3>2. rest = (T \ {x}) \ {c} /\ rest \in D
      OBVIOUS
    <3>3. g[T \ {c}] = f[x] + g[rest]
      BY <2>1, <2>3, <3>1
    <3>4. g[T \ {x}] = f[c] + g[(T \ {x}) \ {c}]
      BY <2>1, <2>3, <3>1
    <3>5. f[x] \in Nat /\ f[c] \in Nat /\ g[rest] \in Nat
      BY <2>1, <3>2
    <3> HIDE DEF D, P, rest
    <3>6. g[T \ {x}] = f[c] + g[rest]
      BY <3>2, <3>4
    <3> QED BY <2>1, <3>3, <3>5, <3>6
  <2> QED BY <2>2, <2>3
<1>3. D \subseteq P
  <2> HIDE DEF D, P, rank
  <2> QED BY <1>1, <1>2, AllByRank
<1> QED BY <1>3

LEMMA SumOfEmpty ==
  ASSUME NEW f PROVE SumOf(f, {}) = 0
<1>1. IsFiniteSet({})
  BY FS_EmptySet
<1> QED BY <1>1, SumExists DEF Adds

LEMMA SumOfPart ==
  ASSUME NEW S, IsFiniteSet(S), NEW f, NEW g, Adds(g, f, S),
         NEW R, IsFiniteSet(R), R \subseteq S, \A y \in R : f[y] \in Nat
  PROVE  g[R] = SumOf(f, R)
<1>1. PICK h \in [SUBSET R -> Nat] : Adds(h, f, R) /\ SumOf(f, R) = h[R]
  BY SumExists
<1>2. Adds(h, f, R) /\ R \subseteq R
  BY <1>1
<1>3. g[R] = h[R]
  BY <1>2, SumsAgree
<1> QED BY <1>1, <1>3

\* So a sum is that of the rest and any one.
LEMMA SumWithout ==
  ASSUME NEW S, IsFiniteSet(S), NEW f, \A x \in S : f[x] \in Nat
  PROVE  /\ SumOf(f, S) \in Nat
         /\ \A x \in S : SumOf(f, S) = f[x] + SumOf(f, S \ {x})
<1>1. PICK g \in [SUBSET S -> Nat] : Adds(g, f, S) /\ SumOf(f, S) = g[S]
  BY SumExists
<1>2. SumOf(f, S) \in Nat
  BY <1>1
<1>3. ASSUME NEW x \in S PROVE SumOf(f, S) = f[x] + SumOf(f, S \ {x})
  <2> DEFINE R == S \ {x}
  <2>1. IsFiniteSet(R) /\ R \subseteq S /\ \A y \in R : f[y] \in Nat
    BY FS_Subset
  <2> HIDE DEF R
  <2>3. g[R] = SumOf(f, R)
    BY <1>1, <2>1, SumOfPart
  <2>4. g[S] = f[x] + g[S \ {x}]
    BY <1>1, AddsInAnyOrder
  <2> QED BY <1>1, <2>3, <2>4 DEF R
<1> QED BY <1>2, <1>3

\* A sum over the smaller of two sets of smaller numbers is smaller.
LEMMA SumBelow ==
  ASSUME NEW A, IsFiniteSet(A), NEW f, \A x \in A : f[x] \in Nat,
         NEW B, IsFiniteSet(B), NEW h, \A y \in B : h[y] \in Nat,
         NEW g, \A x \in A : g[x] \in B /\ f[x] <= h[g[x]],
         \A x, z \in A : g[x] = g[z] => x = z
  PROVE  SumOf(f, A) <= SumOf(h, B)
<1> DEFINE D == SUBSET A
           rank == [X \in D |-> Cardinality(X)]
           P == {X \in D : \A Y \in SUBSET B : (\A x \in X : g[x] \in Y) => SumOf(f, X) <= SumOf(h, Y)}
<1>1. \A X \in D : rank[X] \in Nat /\ \A x \in X : X \ {x} \in D /\ rank[X \ {x}] < rank[X]
  BY SubsetRank
<1>2. ASSUME NEW X \in D, \A Z \in D : rank[Z] < rank[X] => Z \in P PROVE X \in P
  <2> SUFFICES ASSUME NEW Y \in SUBSET B, \A x \in X : g[x] \in Y PROVE SumOf(f, X) <= SumOf(h, Y)
    OBVIOUS
  <2>1. IsFiniteSet(X) /\ IsFiniteSet(Y)
    BY FS_Subset
  <2>2. SumOf(f, X) \in Nat /\ SumOf(h, Y) \in Nat
    BY <2>1, SumWithout
  <2>3. CASE X = {}
    BY <2>2, <2>3, SumOfEmpty
  <2>4. CASE X # {}
    <3>1. PICK x \in X : TRUE
      BY <2>4
    <3>2. SumOf(f, X) = f[x] + SumOf(f, X \ {x})
      BY <2>1, SumWithout
    <3>3. g[x] \in Y /\ SumOf(h, Y) = h[g[x]] + SumOf(h, Y \ {g[x]})
      BY <2>1, SumWithout
    <3>4. X \ {x} \in P
      BY <1>1, <1>2
    <3>5. \A z \in X \ {x} : g[z] \in Y \ {g[x]}
      OBVIOUS
    <3>6. SumOf(f, X \ {x}) <= SumOf(h, Y \ {g[x]})
      BY <3>4, <3>5
    <3>7. f[x] <= h[g[x]] /\ f[x] \in Nat /\ h[g[x]] \in Nat
      BY <3>3
    <3>8. SumOf(f, X \ {x}) \in Nat /\ SumOf(h, Y \ {g[x]}) \in Nat
      <4>1. IsFiniteSet(X \ {x}) /\ IsFiniteSet(Y \ {g[x]})
        BY <2>1, FS_Subset
      <4> QED BY <4>1, SumWithout
    <3> HIDE DEF D, P
    <3> QED BY <3>2, <3>3, <3>6, <3>7, <3>8
  <2> QED BY <2>3, <2>4
<1>3. D \subseteq P
  <2> HIDE DEF D, P, rank
  <2> QED BY <1>1, <1>2, AllByRank
<1>4. A \in P
  BY <1>3
<1> QED BY <1>4

-----------------------------------------------------------------------------
(* Scan estimates.                                                          *)

LEMMA EntryTyped ==
  ASSUME NEW t \in Tables
  PROVE  /\ Catalog[t] \in Entry /\ IsFiniteSet(Catalog[t].columns)
         /\ Cardinality(Catalog[t].columns) \in Nat
<1>1. Catalog[t] \in Entry /\ IsFiniteSet(Catalog[t].columns)
  BY CatalogAssumption
<1> QED BY <1>1, FS_CardinalityType

LEMMA MaxOne ==
  ASSUME NEW a \in Nat PROVE Max({a, 1}) \in Nat \ {0} /\ a <= Max({a, 1})
BY DEF Max

LEMMA MaxZero ==
  ASSUME NEW a \in Int PROVE Max({a, 0}) = IF a >= 0 THEN a ELSE 0
BY DEF Max

LEMMA BaseTyped ==
  ASSUME NEW t \in Tables PROVE BaseBytes(Catalog[t]) \in Statistic
<1> DEFINE entry == Catalog[t]
           bytes == entry.total_bytes
           rows == entry.row_count
           width == Max({Cardinality(entry.columns), 1})
<1>1. /\ bytes \in Nat \cup {None} /\ rows \in Nat \cup {None} /\ width \in Nat
  BY EntryTyped, MaxOne DEF Entry, Statistic
<1>2. BaseBytes(entry) = IF bytes # None THEN bytes ELSE IF rows # None THEN rows * width ELSE None
  BY DEF BaseBytes
<1> HIDE DEF entry, bytes, rows, width
<1>3. \A n \in Nat : n * width \in Nat
  BY <1>1
<1>4. BaseBytes(entry) \in Nat \cup {None}
  BY <1>1, <1>2, <1>3
<1> QED BY <1>4 DEF entry, Statistic

\* The share of the columns, as a fraction.
LEMMA RatioTyped ==
  ASSUME NEW t \in Tables, NEW columns, Marks(t, columns)
  PROVE  /\ ColumnRatio(Catalog[t], columns)[1] \in Nat
         /\ ColumnRatio(Catalog[t], columns)[2] \in Nat \ {0}
<1> DEFINE entry == Catalog[t]
           all == Cardinality(entry.columns)
           ref == Cardinality(columns)
<1>1. all \in Nat
  BY EntryTyped
<1>2. CASE ~entry.columnar \/ all = 0 \/ columns = AllColumns
  <2>1. ColumnRatio(entry, columns) = <<1, 1>>
    BY <1>2 DEF ColumnRatio
  <2> QED BY <2>1
<1>3. CASE ~(~entry.columnar \/ all = 0 \/ columns = AllColumns)
  <2>1. IsFiniteSet(columns)
    BY <1>3, EntryTyped, FS_Subset DEF Marks
  <2>2. ref \in Nat
    BY <2>1, FS_CardinalityType
  <2>3. ColumnRatio(entry, columns) = IF 50 * ref < all THEN <<1, 50>> ELSE <<ref, all>>
    BY <1>3 DEF ColumnRatio
  <2> HIDE DEF entry, all, ref
  <2>4. all \in Nat \ {0}
    BY <1>1, <1>3
  <2>5. CASE 50 * ref < all
    <3>1. ColumnRatio(entry, columns) = <<1, 50>>
      BY <2>3, <2>5
    <3> QED BY <3>1 DEF entry
  <2>6. CASE ~(50 * ref < all)
    <3>1. ColumnRatio(entry, columns) = <<ref, all>>
      BY <2>3, <2>6
    <3>2. ColumnRatio(entry, columns)[1] = ref /\ ColumnRatio(entry, columns)[2] = all
      BY <3>1
    <3> QED BY <2>2, <2>4, <3>2 DEF entry
  <2> QED BY <2>5, <2>6
<1> QED BY <1>2, <1>3

\* What a reference adds to the estimate.
BytesFor(r) ==
  LET entry == Catalog[SourceOf(r).table]
      ratio == ColumnRatio(entry, referenced[SourceOf(r).table])
      base == BaseBytes(entry)
  IN  IF base = None THEN None
      ELSE (base * ratio[1]) \div (ratio[2] * PartFactor(SourceOf(r).node))
RowsFor(r) ==
  LET entry == Catalog[SourceOf(r).table]
  IN  IF entry.row_count = None THEN None ELSE entry.row_count \div PartFactor(SourceOf(r).node)

LEMMA EstimateAdds ==
  ASSUME NEW r, EstimateReference(r)
  PROVE  estimate' = [bytes_scanned |-> Plus(estimate.bytes_scanned, BytesFor(r)),
                      rows_scanned |-> Plus(estimate.rows_scanned, RowsFor(r)),
                      incomplete |-> \/ estimate.incomplete
                                     \/ BaseBytes(Catalog[SourceOf(r).table]) = None]
BY DEF EstimateReference, BytesFor, RowsFor

LEMMA PartTyped ==
  ASSUME policy \in Policy, NEW node PROVE PartFactor(node) \in Nat \ {0}
BY DEF PartFactor, Policy

LEMMA DivNat ==
  ASSUME NEW a \in Nat, NEW b \in Nat \ {0}, NEW c \in Nat \ {0}, NEW d \in Nat
  PROVE  (d * a) \div (b * c) \in Nat /\ a \div c \in Nat
<1>1. b * c \in Nat \ {0} /\ d * a \in Nat
  OBVIOUS
<1> QED BY <1>1

LEMMA AddedTyped ==
  ASSUME policy \in Policy, tree \in Seq(Select), infos = ScopeMaps(tree), NEW r \in References,
         SourceOf(r).table \in DOMAIN referenced, MarksTyped
  PROVE  BytesFor(r) \in Statistic /\ RowsFor(r) \in Statistic
<1> DEFINE t == SourceOf(r).table
           ratio == ColumnRatio(Catalog[t], referenced[t])
           part == PartFactor(SourceOf(r).node)
           base == BaseBytes(Catalog[t])
<1>1. t \in Tables
  BY ReferenceTyped
<1>2. Marks(t, referenced[t])
  BY DEF MarksTyped
<1>3. ratio[1] \in Nat /\ ratio[2] \in Nat \ {0}
  BY <1>1, <1>2, RatioTyped
<1>4. part \in Nat \ {0}
  BY PartTyped
<1>5. base \in Statistic /\ Catalog[t].row_count \in Statistic
  BY <1>1, BaseTyped, EntryTyped DEF Entry
<1>6. BytesFor(r) = IF base = None THEN None ELSE (base * ratio[1]) \div (ratio[2] * part)
  BY DEF BytesFor
<1>7. RowsFor(r) = IF Catalog[t].row_count = None THEN None ELSE Catalog[t].row_count \div part
  BY DEF RowsFor
<1> HIDE DEF ratio, part, base, t
<1>8. BytesFor(r) \in Statistic
  <2>1. CASE base = None
    BY <1>6, <2>1 DEF Statistic
  <2>2. CASE base # None
    <3>1. base \in Nat
      BY <1>5, <2>2 DEF Statistic
    <3>2. (base * ratio[1]) \div (ratio[2] * part) \in Nat
      BY <1>3, <1>4, <3>1, DivNat
    <3> QED BY <1>6, <2>2, <3>2 DEF Statistic
  <2> QED BY <2>1, <2>2
<1>9. RowsFor(r) \in Statistic
  <2>1. CASE Catalog[t].row_count = None
    BY <1>7, <2>1 DEF Statistic
  <2>2. CASE Catalog[t].row_count # None
    <3>1. Catalog[t].row_count \in Nat
      BY <1>5, <2>2 DEF Statistic
    <3>2. Catalog[t].row_count \div part \in Nat
      BY <1>4, <3>1, DivNat
    <3> QED BY <1>7, <2>2, <3>2 DEF Statistic
  <2> QED BY <2>1, <2>2
<1> QED BY <1>8, <1>9

Counted(n) == IF n = None THEN 0 ELSE n

LEMMA PlusCounts ==
  ASSUME NEW total \in Statistic, NEW n \in Statistic
  PROVE  /\ Plus(total, n) \in Statistic
         /\ Counted(total) \in Nat /\ Counted(n) \in Nat
         /\ Counted(Plus(total, n)) = Counted(total) + Counted(n)
<1>1. total \in Int /\ n \in Int /\ (total = None \/ total \in Nat) /\ (n = None \/ n \in Nat)
  BY DEF Statistic, None
<1>2. Max({total, 0}) = Counted(total)
  BY <1>1, MaxZero DEF Counted, None
<1>3. CASE n = None
  BY <1>1, <1>3 DEF Plus, Counted, Statistic, None
<1>4. CASE n # None
  <2>1. Plus(total, n) = n + Counted(total)
    BY <1>2, <1>4 DEF Plus
  <2>2. n \in Nat /\ Counted(total) \in Nat
    BY <1>1, <1>4 DEF Counted, None
  <2> QED BY <2>1, <2>2, <1>4 DEF Counted, Statistic, None
<1> QED BY <1>3, <1>4

LEMMA PositionsFinite ==
  ASSUME tree \in Seq(Select) PROVE IsFiniteSet(Positions(tree))
<1> DEFINE of == [i \in DOMAIN tree |-> {i} \X DOMAIN tree[i].sources]
<1>1. IsFiniteSet(DOMAIN tree)
  <2>1. DOMAIN tree = 1..Len(tree) /\ Len(tree) \in Nat
    OBVIOUS
  <2> QED BY <2>1, FS_Interval
<1>2. ASSUME NEW i \in DOMAIN tree PROVE IsFiniteSet(of[i])
  <2>1. tree[i] \in Select
    OBVIOUS
  <2>2. tree[i].sources \in Seq(Source)
    BY <2>1 DEF Select
  <2>3. DOMAIN tree[i].sources = 1..Len(tree[i].sources) /\ Len(tree[i].sources) \in Nat
    BY <2>2
  <2> DEFINE n == Len(tree[i].sources)
  <2>4. IsFiniteSet(DOMAIN tree[i].sources)
    <3> HIDE DEF n
    <3>1. n \in Int
      BY <2>3 DEF n
    <3>2. IsFiniteSet(1..n)
      BY <3>1, FS_Interval
    <3> QED BY <2>3, <3>2 DEF n
  <2>5. IsFiniteSet({i} \X DOMAIN tree[i].sources)
    BY <2>4, FS_Singleton, FS_Product
  <2> QED BY <2>5
<1>3. Positions(tree) = UNION {of[i] : i \in DOMAIN tree}
  BY DEF Positions
<1>4. DOMAIN of = DOMAIN tree
  OBVIOUS
<1> HIDE DEF of
<1>5. IsFiniteSet({of[i] : i \in DOMAIN tree})
  BY <1>1, <1>4, ImageFinite
<1>6. \A T \in {of[i] : i \in DOMAIN tree} : IsFiniteSet(T)
  BY <1>2
<1> QED BY <1>3, <1>5, <1>6, FS_UNION

LEMMA ReferenceIsOf ==
  ASSUME tree \in Seq(Select), infos = ScopeMaps(tree), NEW r \in References
  PROVE  \E at \in Physical : r = ReferenceOf(at)
<1>1. PICK i \in DOMAIN tree : \E k \in DOMAIN tree[i].sources :
           LET s == tree[i].sources[k]
           IN  /\ s.table # ""
               /\ \/ r = <<<<i, 0>>, k>> /\ ~s.wrapped /\ SourceOf(r) = SourceAt(tree, i, k)
                  \/ r = <<<<i, k>>, 1>> /\ s.wrapped /\ k # 0 /\ SourceOf(r) = CopyAt(tree, i, k)
  BY ReferenceCases
<1>2. PICK k \in DOMAIN tree[i].sources :
           LET s == tree[i].sources[k]
           IN  /\ s.table # ""
               /\ \/ r = <<<<i, 0>>, k>> /\ ~s.wrapped /\ SourceOf(r) = SourceAt(tree, i, k)
                  \/ r = <<<<i, k>>, 1>> /\ s.wrapped /\ k # 0 /\ SourceOf(r) = CopyAt(tree, i, k)
  BY <1>1
<1> DEFINE at == <<i, k>>
<1>3. at[1] = i /\ at[2] = k /\ at \in Positions(tree)
  BY PositionIs
<1>4. at \in Physical
  <2> HIDE DEF at
  <2> QED BY <1>2, <1>3 DEF Physical
<1>5. r = ReferenceOf(at)
  BY <1>2, <1>3 DEF ReferenceOf
<1> QED BY <1>4, <1>5

LEMMA ReferencesFinite ==
  ASSUME tree \in Seq(Select), infos = ScopeMaps(tree) PROVE IsFiniteSet(References)
<1> DEFINE g == [at \in Positions(tree) |-> ReferenceOf(at)]
           T == {g[at] : at \in Positions(tree)}
<1>1. References \subseteq T
  BY ReferenceIsOf DEF Physical
<1>2. DOMAIN g = Positions(tree)
  OBVIOUS
<1>3. IsFiniteSet(T)
  <2> HIDE DEF g
  <2> QED BY <1>2, PositionsFinite, ImageFinite
<1> HIDE DEF T
<1> QED BY <1>1, <1>3, FS_Subset

BytesAdded == [r \in References |-> Counted(BytesFor(r))]
RowsAdded == [r \in References |-> Counted(RowsFor(r))]
Exceeding == \/ Exceeds(estimate.bytes_scanned, policy.max_bytes_scanned)
             \/ Exceeds(estimate.rows_scanned, policy.max_rows_scanned)

\* The estimate and what is to come are the sum over all references, a table
\* without statistics is noted, and at the end a budget is held against it.
Summing ==
  /\ Counted(estimate.bytes_scanned) + SumOf(BytesAdded, todo) = SumOf(BytesAdded, References)
  /\ Counted(estimate.rows_scanned) + SumOf(RowsAdded, todo) = SumOf(RowsAdded, References)
  /\ \A r \in References : r \in todo \/ BaseBytes(Catalog[SourceOf(r).table]) # None \/ estimate.incomplete

Estimated ==
  /\ estimate \in [bytes_scanned : Statistic, rows_scanned : Statistic, incomplete : BOOLEAN]
  /\ pc \notin {"estimate", "done"} => estimate = NoEstimate
  /\ pc \in {"estimate", "done"} => Summing
  /\ pc = "done" => (Exceeding => \E v \in violations : v.error)

LEMMA EstimatedInit == Init => Estimated
BY DEF Init, Estimated, NoEstimate, Statistic

LEMMA AddedSame ==
  ASSUME tree' = tree, infos' = infos, policy' = policy, partition_flags' = partition_flags,
         referenced' = referenced
  PROVE  References' = References /\ BytesAdded' = BytesAdded /\ RowsAdded' = RowsAdded
<1>1. References' = References
  BY DEF References
<1>2. \A r : BytesFor(r)' = BytesFor(r) /\ RowsFor(r)' = RowsFor(r)
  BY DEF BytesFor, RowsFor, SourceOf, PartFactor
<1> QED BY <1>1, <1>2 DEF BytesAdded, RowsAdded

\* The table of a reference is marked once its scope is collected.
LEMMA ReferenceIsMarked ==
  ASSUME Gathered, AfterFilters, pc = "collect" => todo = {}, NEW r \in References
  PROVE  SourceOf(r).table \in DOMAIN referenced
<1>0. PICK s \in DOMAIN infos :
      \E n \in DOMAIN infos[s] : r = <<s, n>> /\ infos[s][n].table # ""
  <2> DEFINE physical(s) == {k \in DOMAIN infos[s] : infos[s][k].table # ""}
  <2>1. PICK s \in DOMAIN infos : r \in {s} \X physical(s)
    BY DEF References
  <2>2. r = <<s, r[2]>> /\ r[2] \in physical(s)
    <3> HIDE DEF physical
    <3> QED BY <2>1
  <2> QED BY <2>2
<1>1. PICK n \in DOMAIN infos[s] : r = <<s, n>> /\ infos[s][n].table # ""
  BY <1>0
<1>2. Covered(s)
  BY DEF Gathered, AfterFilters
<1>3. infos[s][n].table \in DOMAIN referenced
  BY <1>1, <1>2 DEF Covered, CoveredHere
<1> QED BY <1>1, <1>3 DEF SourceOf

\* Once the scopes are collected every reference has its number.
LEMMA AddedNat ==
  ASSUME Injected, Gathered, ReportsTyped, AfterFilters, pc = "collect" => todo = {}
  PROVE  /\ IsFiniteSet(References)
         /\ \A r \in References : /\ BytesFor(r) \in Statistic /\ RowsFor(r) \in Statistic
                                  /\ BytesAdded[r] = Counted(BytesFor(r)) /\ BytesAdded[r] \in Nat
                                  /\ RowsAdded[r] = Counted(RowsFor(r)) /\ RowsAdded[r] \in Nat
<1>1. tree \in Seq(Select) /\ infos = ScopeMaps(tree) /\ policy \in Policy /\ MarksTyped
  BY InfosFresh DEF Injected, AfterFilters, Gathered, ReportsTyped
<1>2. IsFiniteSet(References)
  BY <1>1, ReferencesFinite
<1>3. \A r \in References : SourceOf(r).table \in DOMAIN referenced
  BY ReferenceIsMarked
<1>4. ASSUME NEW r \in References
      PROVE  /\ BytesFor(r) \in Statistic /\ RowsFor(r) \in Statistic
             /\ BytesAdded[r] = Counted(BytesFor(r)) /\ BytesAdded[r] \in Nat
             /\ RowsAdded[r] = Counted(RowsFor(r)) /\ RowsAdded[r] \in Nat
  <2>1. BytesFor(r) \in Statistic /\ RowsFor(r) \in Statistic
    BY <1>1, <1>3, AddedTyped
  <2>2. Counted(BytesFor(r)) \in Nat /\ Counted(RowsFor(r)) \in Nat
    BY <2>1 DEF Counted, Statistic
  <2> QED BY <2>1, <2>2 DEF BytesAdded, RowsAdded
<1> QED BY <1>2, <1>4

LEMMA StartSums ==
  ASSUME Injected, Gathered, ReportsTyped, QueueTyped, Estimated, StartEstimate PROVE Estimated'
<1>1. /\ tree' = tree /\ infos' = infos /\ policy' = policy /\ estimate' = estimate
      /\ partition_flags' = partition_flags /\ referenced' = referenced
      /\ pc' = "estimate" /\ todo' = References /\ AfterFilters /\ (pc = "collect" => todo = {})
  BY DEF StartEstimate, infos, AfterFilters
<1>2. References' = References /\ BytesAdded' = BytesAdded /\ RowsAdded' = RowsAdded
  BY <1>1, AddedSame
<1>3. estimate = NoEstimate
  BY DEF Estimated, StartEstimate
<1>4. SumOf(BytesAdded, References) \in Nat /\ SumOf(RowsAdded, References) \in Nat
  BY <1>1, AddedNat, SumWithout
<1>5. Counted(NoEstimate.bytes_scanned) = 0 /\ Counted(NoEstimate.rows_scanned) = 0
  BY DEF Counted, NoEstimate
<1>6. Summing'
  <2>1. SumOf(BytesAdded, todo)' = SumOf(BytesAdded, References)
        /\ SumOf(BytesAdded, References)' = SumOf(BytesAdded, References)
    BY <1>1, <1>2
  <2>2. SumOf(RowsAdded, todo)' = SumOf(RowsAdded, References)
        /\ SumOf(RowsAdded, References)' = SumOf(RowsAdded, References)
    BY <1>1, <1>2
  <2> QED BY <1>1, <1>2, <1>3, <1>4, <1>5, <2>1, <2>2 DEF Summing
<1> QED BY <1>1, <1>6 DEF Estimated

LEMMA ReferenceSums ==
  ASSUME Injected, Gathered, ReportsTyped, QueueTyped, Estimated, NEW r \in todo, EstimateReference(r)
  PROVE  Estimated'
<1>1. /\ tree' = tree /\ infos' = infos /\ policy' = policy
      /\ partition_flags' = partition_flags /\ referenced' = referenced
      /\ pc = "estimate" /\ pc' = "estimate" /\ todo' = todo \ {r} /\ AfterFilters
  BY DEF EstimateReference, infos, AfterFilters
<1>2. References' = References /\ BytesAdded' = BytesAdded /\ RowsAdded' = RowsAdded
  BY <1>1, AddedSame
<1>3. todo \subseteq References /\ r \in References
  BY <1>1 DEF QueueTyped
<1>4. IsFiniteSet(todo)
  BY <1>1, <1>3, AddedNat, FS_Subset
<1>5. /\ SumOf(BytesAdded, todo) = BytesAdded[r] + SumOf(BytesAdded, todo \ {r})
      /\ SumOf(RowsAdded, todo) = RowsAdded[r] + SumOf(RowsAdded, todo \ {r})
  BY <1>1, <1>3, <1>4, AddedNat, SumWithout
<1>6. SumOf(BytesAdded, todo \ {r}) \in Nat /\ SumOf(RowsAdded, todo \ {r}) \in Nat
  <2>1. IsFiniteSet(todo \ {r})
    BY <1>4, FS_Subset
  <2>2. \A x \in todo \ {r} : BytesAdded[x] \in Nat /\ RowsAdded[x] \in Nat
    BY <1>1, <1>3, AddedNat
  <2> QED BY <2>1, <2>2, SumWithout
<1>7. estimate' = [bytes_scanned |-> Plus(estimate.bytes_scanned, BytesFor(r)),
                   rows_scanned |-> Plus(estimate.rows_scanned, RowsFor(r)),
                   incomplete |-> \/ estimate.incomplete
                                  \/ BaseBytes(Catalog[SourceOf(r).table]) = None]
  BY EstimateAdds
<1>8. /\ estimate.bytes_scanned \in Statistic /\ estimate.rows_scanned \in Statistic
      /\ estimate.incomplete \in BOOLEAN /\ Summing
  BY <1>1 DEF Estimated
<1>9. /\ BytesFor(r) \in Statistic /\ RowsFor(r) \in Statistic
      /\ BytesAdded[r] = Counted(BytesFor(r)) /\ RowsAdded[r] = Counted(RowsFor(r))
  BY <1>1, <1>3, AddedNat
<1>10. /\ estimate'.bytes_scanned \in Statistic
       /\ Counted(estimate'.bytes_scanned) = Counted(estimate.bytes_scanned) + BytesAdded[r]
       /\ Counted(estimate.bytes_scanned) \in Nat /\ BytesAdded[r] \in Nat
  BY <1>7, <1>8, <1>9, PlusCounts
<1>11. /\ estimate'.rows_scanned \in Statistic
       /\ Counted(estimate'.rows_scanned) = Counted(estimate.rows_scanned) + RowsAdded[r]
       /\ Counted(estimate.rows_scanned) \in Nat /\ RowsAdded[r] \in Nat
  BY <1>7, <1>8, <1>9, PlusCounts
<1>12. Summing'
  <2>1. Counted(estimate.bytes_scanned)' + SumOf(BytesAdded, todo)' = SumOf(BytesAdded, References)'
    <3>1. SumOf(BytesAdded, todo)' = SumOf(BytesAdded, todo \ {r})
          /\ SumOf(BytesAdded, References)' = SumOf(BytesAdded, References)
      BY <1>1, <1>2
    <3>2. Counted(estimate.bytes_scanned) + SumOf(BytesAdded, todo) = SumOf(BytesAdded, References)
      BY <1>8 DEF Summing
    <3> QED BY <1>5, <1>6, <1>10, <3>1, <3>2
  <2>2. Counted(estimate.rows_scanned)' + SumOf(RowsAdded, todo)' = SumOf(RowsAdded, References)'
    <3>1. SumOf(RowsAdded, todo)' = SumOf(RowsAdded, todo \ {r})
          /\ SumOf(RowsAdded, References)' = SumOf(RowsAdded, References)
      BY <1>1, <1>2
    <3>2. Counted(estimate.rows_scanned) + SumOf(RowsAdded, todo) = SumOf(RowsAdded, References)
      BY <1>8 DEF Summing
    <3> QED BY <1>5, <1>6, <1>11, <3>1, <3>2
  <2>3. \A x \in References :
          x \in todo \ {r} \/ BaseBytes(Catalog[SourceOf(x).table]) # None \/ estimate'.incomplete
    BY <1>7, <1>8 DEF Summing
  <2>4. \A x : SourceOf(x)' = SourceOf(x)
    BY <1>1 DEF SourceOf
  <2> QED BY <1>1, <1>2, <2>1, <2>2, <2>3, <2>4 DEF Summing
<1>13. estimate' \in [bytes_scanned : Statistic, rows_scanned : Statistic, incomplete : BOOLEAN]
  BY <1>7, <1>8, <1>10, <1>11
<1> QED BY <1>1, <1>12, <1>13 DEF Estimated

LEMMA EndSums ==
  ASSUME Estimated, EndEstimation PROVE Estimated'
<1>1. /\ tree' = tree /\ infos' = infos /\ policy' = policy /\ estimate' = estimate
      /\ partition_flags' = partition_flags /\ referenced' = referenced
      /\ pc' = "done" /\ pc = "estimate" /\ todo' = todo
  BY DEF EndEstimation, infos
<1>2. References' = References /\ BytesAdded' = BytesAdded /\ RowsAdded' = RowsAdded
  BY <1>1, AddedSame
<1>3. Summing'
  <2>1. Summing
    BY <1>1 DEF Estimated
  <2>2. \A x : SourceOf(x)' = SourceOf(x)
    BY <1>1 DEF SourceOf
  <2> QED BY <1>1, <1>2, <2>1, <2>2 DEF Summing
<1>4. Exceeding' => Exceeding
  BY <1>1 DEF Exceeding
<1>5. Exceeding => \E v \in violations' : v.error
  <2> SUFFICES ASSUME Exceeding PROVE \E v \in violations' : v.error
    OBVIOUS
  <2>1. Violation("SCAN_BUDGET_EXCEEDED", TRUE, <<0, 0>>) \in violations'
    BY DEF EndEstimation, Exceeding
  <2>2. Violation("SCAN_BUDGET_EXCEEDED", TRUE, <<0, 0>>).error
    BY DEF Violation
  <2> QED BY <2>1, <2>2
<1> QED BY <1>1, <1>3, <1>4, <1>5 DEF Estimated

LEMMA EstimatedStep ==
  Injected /\ Gathered /\ ReportsTyped /\ QueueTyped /\ Estimated /\ [Next]_vars => Estimated'
<1> SUFFICES ASSUME Injected, Gathered, ReportsTyped, QueueTyped, Estimated, [Next]_vars PROVE Estimated'
  OBVIOUS
<1>1. ASSUME pc \notin {"estimate", "done"}, pc' \notin {"estimate", "done"}, estimate' = estimate
      PROVE  Estimated'
  BY <1>1 DEF Estimated
<1>2. CASE ColumnPolicy \/ ScanReferences \/ EndInjections \/ JoinChecks \/ PartitionFilters
  BY <1>1, <1>2 DEF ColumnPolicy, ScanReferences, EndInjections, JoinChecks, PartitionFilters
<1>3. ASSUME NEW r \in todo, Inject(r[1], r[2]) \/ CollectScope(r) PROVE Estimated'
  BY <1>1, <1>3 DEF Inject, CollectScope
<1>4. ASSUME NEW r \in todo, EstimateReference(r) PROVE Estimated'
  BY <1>4, ReferenceSums
<1>5. CASE StartEstimate
  BY <1>5, StartSums
<1>6. CASE EndEstimation
  BY <1>6, EndSums
<1>7. CASE UNCHANGED vars
  <2>1. /\ tree' = tree /\ infos' = infos /\ policy' = policy /\ estimate' = estimate /\ pc' = pc
        /\ partition_flags' = partition_flags /\ referenced' = referenced /\ todo' = todo
        /\ violations' = violations
    BY <1>7 DEF vars, infos
  <2>2. References' = References /\ BytesAdded' = BytesAdded /\ RowsAdded' = RowsAdded
    BY <2>1, AddedSame
  <2>3. \A x : SourceOf(x)' = SourceOf(x)
    BY <2>1 DEF SourceOf
  <2>4. Summing => Summing'
    BY <2>1, <2>2, <2>3 DEF Summing
  <2>5. Exceeding' <=> Exceeding
    BY <2>1 DEF Exceeding
  <2> QED BY <2>1, <2>4, <2>5 DEF Estimated
<1> QED BY <1>2, <1>3, <1>4, <1>5, <1>6, <1>7 DEF Next

LEMMA QueueTypedInit == Init => QueueTyped
BY DEF Init, QueueTyped

LEMMA ReportsTypedInit == Init => ReportsTyped
BY PoliciesAssumption DEF Init, ReportsTyped

Together == Injected /\ Structured /\ FiltersJudged /\ QueueTyped /\ ReportsTyped /\ Gathered /\ Estimated

LEMMA TogetherAlways == Spec => []Together
<1>1. Init => Together
  BY InjectedInit, StructuredInit, FiltersJudgedInit, QueueTypedInit, ReportsTypedInit, GatheredInit,
     EstimatedInit DEF Together
<1>2. Together /\ [Next]_vars => Together'
  BY InjectedStep, StructuredStep, FiltersJudgedStep, QueueTypedStep, ReportsTypedStep, GatheredStep,
     EstimatedStep DEF Together
<1> QED BY <1>1, <1>2, PTL DEF Spec

\* The variables keep their types, whatever the statement, the catalog and the
\* policy: queues name what there is, marks are columns of their table, no
\* estimate is negative.
THEOREM TypeCorrect == Spec => []TypeOK
<1>1. ASSUME Together PROVE TypeOK
  <2>1. Injected /\ FiltersJudged /\ QueueTyped /\ ReportsTyped /\ Gathered /\ Estimated
    BY <1>1 DEF Together
  <2>2. tree \in Seq(Select)
    BY <2>1 DEF Injected
  <2>3. \A node \in DOMAIN partition_flags : node \in Node /\ partition_flags[node] \in BOOLEAN
    <3>1. CASE ~AfterFilters
      <4>1. partition_flags = << >>
        BY <2>1, <3>1 DEF Gathered
      <4> QED BY <4>1
    <3>2. CASE AfterFilters
      <4>1. partition_flags = FlagsFound /\ infos = ScopeMaps(tree)
        BY <2>1, <3>2, InfosFresh DEF FiltersJudged, AfterFilters
      <4>2. \A r \in Partitioned : SourceOf(r).node \in Node
        BY <2>2, <4>1, ReferenceTyped DEF Partitioned
      <4> HIDE DEF Partitioned
      <4> QED BY <4>1, <4>2 DEF FlagsFound
    <3> QED BY <3>1, <3>2
  <2>4. \A t \in DOMAIN referenced :
          t \in Tables /\ (referenced[t] = AllColumns \/ referenced[t] \subseteq Catalog[t].columns)
    BY <2>1 DEF Gathered, MarksTyped, Marks
  <2>5. estimate \in [bytes_scanned : Statistic, rows_scanned : Statistic, incomplete : BOOLEAN]
    BY <2>1 DEF Estimated
  <2>6. policy \in Policy /\ violations \subseteq [code : Codes, error : BOOLEAN, at : Node]
    BY <2>1 DEF ReportsTyped
  <2>7. /\ pc \in {"column_policy", "row_level_security", "inject", "join_checks",
                   "partition_filters", "collect", "estimate", "done"}
        /\ todo \subseteq (IF pc = "collect" THEN DOMAIN infos
                           ELSE IF pc = "estimate" THEN References ELSE Positions(tree))
    BY <2>1 DEF QueueTyped
  <2> QED BY <2>2, <2>3, <2>4, <2>5, <2>6, <2>7 DEF TypeOK
<1> QED BY <1>1, TogetherAlways, PTL

-----------------------------------------------------------------------------
(* The budgets.                                                             *)

\* The scope of the reference of a source, once the columns are collected.
LEMMA ReferenceCovered ==
  ASSUME Injected, Gathered, pc = "done",
         NEW i \in DOMAIN tree, NEW k \in DOMAIN tree[i].sources, tree[i].sources[k].table # "",
         tree[i].star \/ tree[i].sources[k].wrapped
  PROVE  referenced[tree[i].sources[k].table] = AllColumns
<1> DEFINE t == tree[i].sources[k].table
<1>1. tree \in Seq(Select) /\ infos = ScopeMaps(tree)
  BY InfosFresh DEF Injected
<1>2. \A s \in DOMAIN infos : Covered(s)
  BY DEF Gathered, AfterFilters
<1>3. k # 0
  BY <1>1, PlaceIsPositive
<1>4. CASE tree[i].sources[k].wrapped
  <2> DEFINE copy == CopyAt(tree, i, k)
             s == <<i, k>>
  <2>1. s \in ScopesOf(tree) /\ s[1] = i /\ s[2] = k
    BY <1>4, PositionIs DEF ScopesOf
  <2>2. copy.table = t
    BY DEF CopyAt
  <2> HIDE DEF copy, s
  <2>3. s \in DOMAIN infos /\ infos[s] = <<copy>>
    BY <1>1, <1>3, <2>1 DEF ScopeMaps, copy
  <2>4. DOMAIN <<copy>> = {1} /\ <<copy>>[1] = copy
    BY OneLong
  <2>5. 1 \in DOMAIN infos[s] /\ infos[s][1].table = t
    BY <2>2, <2>3, <2>4
  <2>6. BareStar(s) /\ CoveredHere(s)
    BY <1>2, <1>3, <2>1, <2>3 DEF BareStar, Covered
  <2> QED BY <2>5, <2>6 DEF CoveredHere
<1>5. CASE ~tree[i].sources[k].wrapped
  <2> DEFINE s == <<i, 0>>
  <2>1. s \in ScopesOf(tree) /\ s[1] = i /\ s[2] = 0
    BY DEF ScopesOf
  <2> HIDE DEF s
  <2>2. s \in DOMAIN infos /\ infos[s] = [n \in DOMAIN tree[i].sources |-> SourceAt(tree, i, n)]
    BY <1>1, <2>1 DEF ScopeMaps
  <2>3. SourceAt(tree, i, k).table = t
    BY <1>5 DEF SourceAt
  <2>4. k \in DOMAIN infos[s] /\ infos[s][k].table = t
    BY <2>2, <2>3
  <2>5. BareStar(s) /\ CoveredHere(s)
    BY <1>2, <1>5, <2>1, <2>2 DEF BareStar, Covered
  <2> QED BY <2>4, <2>5 DEF CoveredHere
<1> QED BY <1>4, <1>5

\* A mention of a column of a source is of a column there is.
LEMMA MentionIsColumn ==
  ASSUME tree \in Seq(Select), Wellformed(tree), NEW j \in DOMAIN tree, NEW m \in Text[j],
         NEW i \in DOMAIN tree, NEW k \in DOMAIN tree[i].sources, tree[i].sources[k].table # "",
         Binding(tree, m.scope, m.use.alias) = <<i, k>>
  PROVE  /\ m.scope \in DOMAIN tree
         /\ m.use.column \in Catalog[tree[i].sources[k].table].columns
         /\ ~tree[i].sources[k].wrapped =>
              \E u \in Uses(tree[m.scope]) : u.alias = m.use.alias /\ u.column = m.use.column
<1>1. Nested(tree) /\ m.scope \in DOMAIN tree
  BY MentionIsWritten DEF Wellformed
<1>2. PICK u \in Written(tree[m.scope]) : u.alias = m.use.alias /\ u.column = m.use.column
  BY <1>1, MentionIsWritten
<1> DEFINE b == Binding(tree, m.scope, u.alias)
<1>3. b = <<i, k>>
  BY <1>2
<1>4. CASE u \in Uses(tree[m.scope])
  <2>1. Known(tree, m.scope, u)
    BY <1>1, <1>4 DEF Wellformed
  <2> HIDE DEF b
  <2>2. b[1] = i /\ b[2] = k
    BY <1>3
  <2>3. u.column \in Catalog[tree[i].sources[k].table].columns
    BY <2>1, <2>2 DEF Known, b
  <2> QED BY <1>1, <1>2, <1>4, <2>3
<1>5. CASE u \in WrapUses(tree[m.scope])
  <2>1. PICK l \in DOMAIN tree[m.scope].sources :
          tree[m.scope].sources[l].wrapped /\ u.column = Tenant /\ BoundTo(m.scope, u.alias, m.scope, l)
    BY <1>1, <1>5, WrapBinds
  <2>2. m.scope = i /\ l = k
    <3>1. <<m.scope, l>> = <<i, k>>
      BY <1>3, <2>1 DEF BoundTo
    <3> QED BY <3>1
  <2>3. tree[i].sources[k].wrapped /\ u.column = Tenant
    BY <2>1, <2>2
  <2>4. Tenant \in Catalog[tree[i].sources[k].table].columns
    BY <2>3, GovernedAssumption DEF Wellformed
  <2> QED BY <1>1, <1>2, <2>3, <2>4
<1> QED BY <1>2, <1>4, <1>5 DEF Written

LEMMA SelectPositive ==
  ASSUME NEW t \in Seq(Select) PROVE \A i \in DOMAIN t : i # 0
OBVIOUS

\* What is read of a source is a part of its columns, and counted.
LEMMA ReadCovered ==
  ASSUME Injected, Structured, Gathered, pc = "done",
         NEW i \in DOMAIN tree, NEW k \in DOMAIN tree[i].sources, tree[i].sources[k].table # ""
  PROVE  /\ Read(i, k) \subseteq Catalog[tree[i].sources[k].table].columns
         /\ \/ referenced[tree[i].sources[k].table] = AllColumns
            \/ Read(i, k) \subseteq referenced[tree[i].sources[k].table]
<1> DEFINE t == tree[i].sources[k].table
           mine == {m \in UNION {Text[j] : j \in DOMAIN tree} : Binding(tree, m.scope, m.use.alias) = <<i, k>>}
<1>1. tree \in Seq(Select) /\ infos = ScopeMaps(tree) /\ Wellformed(tree)
  BY InfosFresh DEF Injected, Structured
<1>5. i # 0
  BY <1>1, SelectPositive
<1>2. \A m \in mine : /\ m.scope \in DOMAIN tree /\ m.use.column \in Catalog[t].columns
                      /\ ~tree[i].sources[k].wrapped =>
                           \E u \in Uses(tree[m.scope]) : u.alias = m.use.alias /\ u.column = m.use.column
  BY <1>1, MentionIsColumn
<1>3. CASE tree[i].star \/ tree[i].sources[k].wrapped
  <2>1. referenced[t] = AllColumns
    BY <1>3, ReferenceCovered
  <2>2. \A c \in Read(i, k) : c \in Catalog[t].columns
    <3>1. CASE tree[i].star
      BY <3>1 DEF Read
    <3>2. CASE ~tree[i].star
      <4>1. Read(i, k) = {m.use.column : m \in mine}
        BY <3>2 DEF Read
      <4> HIDE DEF mine
      <4> QED BY <1>2, <4>1
    <3> QED BY <3>1, <3>2
  <2> QED BY <2>1, <2>2
<1>4. CASE ~(tree[i].star \/ tree[i].sources[k].wrapped)
  <2>1. Read(i, k) = {m.use.column : m \in mine}
    BY <1>4 DEF Read
  <2>2. ASSUME NEW m \in mine PROVE Covers(referenced[t], m.use.column)
    <3> DEFINE s == <<m.scope, 0>>
    <3>1. m.scope \in DOMAIN tree /\ m.use.column \in Catalog[t].columns
      BY <1>2
    <3>2. PICK u \in Uses(tree[m.scope]) : u.alias = m.use.alias /\ u.column = m.use.column
      BY <1>2, <1>4
    <3>3. s \in ScopesOf(tree) /\ s[1] = m.scope /\ s[2] = 0
      BY <3>1 DEF ScopesOf
    <3> DEFINE b == Binding(tree, m.scope, u.alias)
    <3>4. b = <<i, k>>
      BY <3>2
    <3> HIDE DEF s, b, mine
    <3>5. Covered(s)
      <4>1. s \in DOMAIN infos
        BY <1>1, <3>3 DEF ScopeMaps
      <4> QED BY <4>1 DEF Gathered, AfterFilters
    <3>6. u \in Owned(s)
      BY <3>2, <3>3 DEF Owned
    <3>7. TableOf(s, u) = t
      <4>0. i # 0
        BY <1>5
      <4>1. b[1] = i /\ b[2] = k /\ b # <<0, 0>>
        BY <3>4, <4>0
      <4>2. TableOf(s, u) = infos[<<i, 0>>][k].table
        BY <3>3, <4>1 DEF TableOf, b
      <4> DEFINE x == <<i, 0>>
      <4>3. x \in ScopesOf(tree) /\ x[1] = i /\ x[2] = 0
        BY DEF ScopesOf
      <4> HIDE DEF x
      <4>4. infos[x] = [n \in DOMAIN tree[i].sources |-> SourceAt(tree, i, n)]
        BY <1>1, <4>3 DEF ScopeMaps
      <4>5. SourceAt(tree, i, k).table = t
        BY <1>4 DEF SourceAt
      <4>6. infos[x][k].table = t
        BY <4>4, <4>5
      <4> QED BY <4>2, <4>6 DEF x
    <3>8. CoveredUse(s, u)
      BY <3>5, <3>6 DEF Covered
    <3> QED BY <3>1, <3>2, <3>7, <3>8 DEF CoveredUse
  <2> HIDE DEF mine
  <2>3. Read(i, k) \subseteq Catalog[t].columns
    BY <1>2, <2>1
  <2>4. referenced[t] = AllColumns \/ \A m \in mine : m.use.column \in referenced[t]
    BY <2>2 DEF Covers
  <2> QED BY <2>1, <2>3, <2>4
<1> QED BY <1>3, <1>4

LEMMA DivBelow ==
  ASSUME NEW a \in Nat, NEW d \in Nat \ {0}
  PROVE  /\ a \div d \in Nat /\ (a \div d) * d <= a
         /\ \A q \in Nat : q * d <= a => q <= a \div d
OBVIOUS

LEMMA CancelFactor ==
  ASSUME NEW a \in Nat, NEW b \in Nat, NEW n \in Nat \ {0}, a * n <= b * n PROVE a <= b
OBVIOUS

LEMMA TimesMonotone ==
  ASSUME NEW a \in Nat, NEW b \in Nat, NEW n \in Nat, a <= b PROVE a * n <= b * n
OBVIOUS

LEMMA TimesNat ==
  ASSUME NEW a \in Nat, NEW b \in Nat
  PROVE  a * b \in Nat /\ (a # 0 /\ b # 0 => a * b \in Nat \ {0}) /\ a * b = b * a
OBVIOUS

LEMMA TimesAssociate ==
  ASSUME NEW a \in Nat, NEW b \in Nat, NEW c \in Nat PROVE a * (b * c) = (a * b) * c
OBVIOUS

\* A smaller fraction of the same number, cut down by more.
LEMMA FractionBelow ==
  ASSUME NEW base \in Nat, NEW c \in Nat, NEW n \in Nat \ {0}, NEW s \in Nat \ {0},
         NEW r \in Nat, NEW m \in Nat \ {0}, NEW p \in Nat \ {0}, c * m <= r * n, p <= s
  PROVE  (base * c) \div (n * s) <= (base * r) \div (m * p)
<1> DEFINE q == (base * c) \div (n * s)
<1>1. base * c \in Nat /\ n * s \in Nat \ {0} /\ base * r \in Nat /\ m * p \in Nat \ {0}
  BY TimesNat
<1>2. q \in Nat /\ q * (n * s) <= base * c
  BY <1>1, DivBelow
<1> HIDE DEF q
<1>3. (q * (n * s)) * m <= (base * c) * m
  BY <1>1, <1>2, TimesNat, TimesMonotone
<1>4. (base * c) * m = base * (c * m) /\ base * (c * m) <= base * (r * n)
  <2>1. c * m \in Nat /\ r * n \in Nat
    BY TimesNat
  <2>2. (c * m) * base <= (r * n) * base
    BY <2>1, TimesMonotone
  <2>3. (c * m) * base = base * (c * m) /\ (r * n) * base = base * (r * n)
    BY <2>1, TimesNat
  <2> QED BY <2>2, <2>3, TimesAssociate
<1>5. (q * (n * s)) * m = (q * (m * s)) * n
  <2>1. (q * (n * s)) * m = q * ((n * s) * m) /\ (q * (m * s)) * n = q * ((m * s) * n)
    <3>1. m * s \in Nat /\ n * s \in Nat
      BY TimesNat
    <3> QED BY <1>2, <3>1, TimesAssociate
  <2>2. (n * s) * m = (m * s) * n
    OBVIOUS
  <2> QED BY <2>1, <2>2
<1>6. base * (r * n) = (base * r) * n
  BY TimesAssociate
<1>7. q * (m * s) \in Nat /\ m * s \in Nat /\ (q * (n * s)) * m \in Nat /\ (base * c) * m \in Nat
      /\ (base * r) * n \in Nat
  BY <1>1, <1>2, TimesNat
<1>8. (q * (m * s)) * n <= (base * r) * n
  BY <1>3, <1>4, <1>5, <1>6, <1>7
<1>9. q * (m * s) <= base * r
  BY <1>1, <1>7, <1>8, CancelFactor
<1>10. q * (m * p) <= q * (m * s)
  <2>1. p * m <= s * m /\ p * m = m * p /\ s * m = m * s
    BY TimesMonotone, TimesNat
  <2>2. (m * p) * q <= (m * s) * q
    BY <1>1, <1>2, <1>7, <2>1, TimesMonotone
  <2>3. (m * p) * q = q * (m * p) /\ (m * s) * q = q * (m * s)
    BY <1>1, <1>2, <1>7, TimesNat
  <2> QED BY <2>2, <2>3
<1>11. q * (m * p) <= base * r
  <2>1. q * (m * p) \in Nat
    BY <1>1, <1>2, TimesNat
  <2> QED BY <1>1, <1>7, <1>9, <1>10, <2>1
<1>12. q <= (base * r) \div (m * p)
  BY <1>1, <1>2, <1>11, DivBelow
<1> QED BY <1>12 DEF q

LEMMA PhysicalIs ==
  ASSUME NEW at \in Physical
  PROVE  /\ at = <<at[1], at[2]>> /\ at[1] \in DOMAIN tree /\ at[2] \in DOMAIN tree[at[1]].sources
         /\ tree[at[1]].sources[at[2]].table # "" /\ at \in Positions(tree)
<1>1. at \in Positions(tree) /\ tree[at[1]].sources[at[2]].table # ""
  BY DEF Physical
<1>2. PICK i \in DOMAIN tree : at \in {i} \X DOMAIN tree[i].sources
  BY <1>1 DEF Positions
<1>3. at = <<at[1], at[2]>> /\ at[1] = i /\ at[2] \in DOMAIN tree[i].sources
  BY <1>2
<1> QED BY <1>1, <1>3

LEMMA ReferenceOfPhysical ==
  ASSUME tree \in Seq(Select), infos = ScopeMaps(tree), NEW at \in Physical
  PROVE  LET r == ReferenceOf(at)
         IN  r \in References /\ SourceOf(r).table = tree[at[1]].sources[at[2]].table /\ SourceOf(r).node = NodeOf(at)
<1> DEFINE i == at[1]
           k == at[2]
<1>1. at = <<i, k>> /\ i \in DOMAIN tree /\ k \in DOMAIN tree[i].sources /\ tree[i].sources[k].table # ""
  BY PhysicalIs
<1> HIDE DEF i, k
<1>2. LET r == ReferenceOf(<<i, k>>)
      IN  r \in References /\ SourceOf(r).table = tree[i].sources[k].table /\ SourceOf(r).node = NodeOf(<<i, k>>)
  BY <1>1, ReferenceOfSource
<1> QED BY <1>1, <1>2 DEF i, k

LEMMA NodeIsOne ==
  ASSUME NEW at \in Physical, NEW other \in Physical, NodeOf(at) = NodeOf(other) PROVE at = other
<1>1. at[1] = other[1] /\ at[2] = other[2]
  BY DEF NodeOf
<1> QED BY <1>1, PhysicalIs

LEMMA ReferenceIsOne ==
  ASSUME tree \in Seq(Select), infos = ScopeMaps(tree), NEW at \in Physical, NEW other \in Physical,
         ReferenceOf(at) = ReferenceOf(other)
  PROVE  at = other
BY ReferenceOfPhysical, NodeIsOne

\* A source is only cut down by the selectivity of a filter that it has.
LEMMA PartBelow ==
  ASSUME Injected, Structured, FiltersJudged, ReportsTyped, NoneMisread, pc = "done", NEW at \in Physical
  PROVE  /\ PartFactor(NodeOf(at)) \in Nat \ {0} /\ Share(at[1], at[2]) \in Nat \ {0}
         /\ PartFactor(NodeOf(at)) <= Share(at[1], at[2])
<1>1. /\ tree \in Seq(Select) /\ infos = ScopeMaps(tree) /\ Wellformed(tree)
      /\ partition_flags = FlagsFound
  BY InfosFresh DEF Injected, Structured, FiltersJudged, AfterFilters
<1>2. policy.partition_selectivity \in Nat \ {0}
  BY DEF ReportsTyped, Policy
<1>3. ASSUME NodeOf(at) \in DOMAIN partition_flags, partition_flags[NodeOf(at)] PROVE Pruned(at[1], at[2])
  <2>1. PICK r \in Partitioned : SourceOf(r).node = NodeOf(at) /\ Constrained(r)
    <3> HIDE DEF Partitioned
    <3> QED BY <1>1, <1>3 DEF FlagsFound
  <2>2. PICK other \in Physical : r = ReferenceOf(other)
    BY <1>1, <2>1, ReferenceIsOf DEF Partitioned
  <2>3. SourceOf(r).node = NodeOf(other)
    BY <1>1, <2>2, ReferenceOfPhysical
  <2>4. other = at
    BY <2>1, <2>3, NodeIsOne
  <2> DEFINE i == at[1]
             k == at[2]
  <2>5. at = <<i, k>> /\ i \in DOMAIN tree /\ k \in DOMAIN tree[i].sources /\ tree[i].sources[k].table # ""
    BY PhysicalIs
  <2> HIDE DEF i, k
  <2>6. Constrained(ReferenceOf(<<i, k>>))
    BY <2>1, <2>2, <2>4, <2>5
  <2>7. Pruned(i, k)
    <3>1. ~tree[i].sources[k].wrapped => TakenForFilter(i, k)
      BY <1>1, <2>5, <2>6, ConstrainedIsTaken
    <3>2. tree[i].sources[k].wrapped => Pruned(i, k)
      BY <1>1, <2>5, <2>6, ConstrainedIsTaken
    <3> QED BY <3>1, <3>2 DEF NoneMisread, i, k
  <2> QED BY <2>7 DEF i, k
<1>4. CASE NodeOf(at) \in DOMAIN partition_flags /\ partition_flags[NodeOf(at)]
  BY <1>2, <1>3, <1>4 DEF PartFactor, Share
<1>5. CASE ~(NodeOf(at) \in DOMAIN partition_flags /\ partition_flags[NodeOf(at)])
  <2>1. PartFactor(NodeOf(at)) = 1
    BY <1>5 DEF PartFactor
  <2>2. Share(at[1], at[2]) \in Nat \ {0}
    BY <1>2 DEF Share
  <2> QED BY <2>1, <2>2
<1> QED BY <1>4, <1>5

\* The share of the columns that is counted is not below what is read.
LEMMA RatioCovers ==
  ASSUME NEW t \in Tables, NEW columns, Marks(t, columns), NEW read, read \subseteq Catalog[t].columns,
         columns = AllColumns \/ read \subseteq columns
  PROVE  LET entry == Catalog[t]
             ratio == ColumnRatio(entry, columns)
             width == Max({Cardinality(entry.columns), 1})
         IN  /\ Cardinality(read) \in Nat /\ width \in Nat \ {0}
             /\ entry.columnar => Cardinality(read) * ratio[2] <= ratio[1] * width
             /\ ~entry.columnar => ratio = <<1, 1>>
<1> DEFINE entry == Catalog[t]
           all == Cardinality(entry.columns)
           ref == Cardinality(columns)
           n == Cardinality(read)
           width == Max({all, 1})
           ratio == ColumnRatio(entry, columns)
<1>1. all \in Nat /\ IsFiniteSet(entry.columns)
  BY EntryTyped
<1>2. n \in Nat /\ n <= all
  BY <1>1, FS_Subset, FS_CardinalityType
<1>3. width \in Nat \ {0} /\ all <= width
  BY <1>1, MaxOne
<1>4. ~entry.columnar => ratio = <<1, 1>>
  BY DEF ColumnRatio
<1>5. ASSUME entry.columnar PROVE n * ratio[2] <= ratio[1] * width
  <2>1. CASE all = 0 \/ columns = AllColumns
    <3>1. ratio = <<1, 1>>
      BY <2>1 DEF ColumnRatio
    <3>2. ratio[1] = 1 /\ ratio[2] = 1
      BY <3>1
    <3> HIDE DEF ratio, n, width, all
    <3> QED BY <1>1, <1>2, <1>3, <3>2
  <2>2. CASE ~(all = 0 \/ columns = AllColumns)
    <3>1. ratio = IF 50 * ref < all THEN <<1, 50>> ELSE <<ref, all>>
      BY <1>5, <2>2 DEF ColumnRatio
    <3>2. IsFiniteSet(columns)
      BY <1>1, <2>2, FS_Subset DEF Marks
    <3>3. ref \in Nat /\ n <= ref
      BY <2>2, <3>2, FS_Subset, FS_CardinalityType
    <3> HIDE DEF ratio, n, width, all, ref
    <3>4. CASE 50 * ref < all
      <4>1. ratio[1] = 1 /\ ratio[2] = 50
        BY <3>1, <3>4
      <4> QED BY <1>1, <1>2, <1>3, <3>3, <3>4, <4>1
    <3>5. CASE ~(50 * ref < all)
      <4>1. ratio[1] = ref /\ ratio[2] = all
        BY <3>1, <3>5
      <4>2. n * all <= ref * all /\ all * ref <= width * ref
        BY <1>1, <1>2, <1>3, <3>3, TimesMonotone
      <4>3. ref * all = all * ref /\ width * ref = ref * width /\ n * all \in Nat
            /\ ref * all \in Nat /\ ref * width \in Nat
        BY <1>1, <1>2, <1>3, <3>3, TimesNat
      <4> QED BY <4>1, <4>2, <4>3
    <3> QED BY <3>4, <3>5
  <2> QED BY <2>1, <2>2
<1> QED BY <1>2, <1>3, <1>4, <1>5

\* What is counted for the reference of a source is not below what is read.
LEMMA CountedCovers ==
  ASSUME Together, NoneMisread, pc = "done", NEW at \in Physical
  PROVE  /\ BaseBytes(EntryOf(at)) # None =>
              BytesOf(at) \in Nat /\ BytesOf(at) <= BytesAdded[ReferenceOf(at)]
         /\ EntryOf(at).row_count # None =>
              RowsOf(at) \in Nat /\ RowsOf(at) <= RowsAdded[ReferenceOf(at)]
<1> DEFINE i == at[1]
           k == at[2]
           r == ReferenceOf(at)
           t == tree[i].sources[k].table
           entry == Catalog[t]
           base == BaseBytes(entry)
           rows == entry.row_count
           part == PartFactor(NodeOf(at))
           share == Share(i, k)
           read == Cardinality(Read(i, k))
           width == Max({Cardinality(entry.columns), 1})
           ratio == ColumnRatio(entry, referenced[t])
<1>1. /\ Injected /\ Structured /\ FiltersJudged /\ ReportsTyped /\ Gathered
      /\ tree \in Seq(Select) /\ infos = ScopeMaps(tree) /\ MarksTyped /\ AfterFilters
  BY InfosFresh DEF Together, Injected, Gathered, AfterFilters
<1>2. i \in DOMAIN tree /\ k \in DOMAIN tree[i].sources /\ t # ""
  BY PhysicalIs
<1>3. r \in References /\ SourceOf(r).table = t /\ SourceOf(r).node = NodeOf(at)
  BY <1>1, ReferenceOfPhysical
<1>4. t \in Tables
  BY <1>1, <1>3, ReferenceTyped
<1>5. part \in Nat \ {0} /\ share \in Nat \ {0} /\ part <= share
  BY <1>1, PartBelow
<1>6. /\ Read(i, k) \subseteq entry.columns
      /\ referenced[t] = AllColumns \/ Read(i, k) \subseteq referenced[t]
  BY <1>1, <1>2, ReadCovered
<1>7. t \in DOMAIN referenced
  BY <1>1, <1>3, ReferenceIsMarked
<1>8. Marks(t, referenced[t])
  BY <1>1, <1>7 DEF MarksTyped
<1>9. ratio[1] \in Nat /\ ratio[2] \in Nat \ {0}
  BY <1>4, <1>8, RatioTyped
<1>10. /\ read \in Nat /\ width \in Nat \ {0}
       /\ entry.columnar => read * ratio[2] <= ratio[1] * width
       /\ ~entry.columnar => ratio = <<1, 1>>
  BY <1>4, <1>6, <1>8, RatioCovers
<1>11. base \in Statistic /\ rows \in Statistic
  BY <1>4, BaseTyped, EntryTyped DEF Entry
<1>12. EntryOf(at) = entry
  BY DEF EntryOf
<1>13. BytesFor(r) = IF base = None THEN None ELSE (base * ratio[1]) \div (ratio[2] * part)
  BY <1>3 DEF BytesFor
<1>14. RowsFor(r) = IF rows = None THEN None ELSE rows \div part
  BY <1>3 DEF RowsFor
<1>15. BytesAdded[r] = Counted(BytesFor(r)) /\ RowsAdded[r] = Counted(RowsFor(r))
  BY <1>3 DEF BytesAdded, RowsAdded
<1>16. entry.columnar => BytesOf(at) = (base * read) \div (width * share)
  BY <1>12 DEF BytesOf
<1>17. ~entry.columnar => BytesOf(at) = (base * 1) \div (1 * share)
  BY <1>12 DEF BytesOf
<1>18. RowsOf(at) = rows \div share
  BY <1>12 DEF RowsOf
<1> HIDE DEF i, k, r, t, entry, base, rows, part, share, read, width, ratio
<1>19. ASSUME base # None PROVE BytesOf(at) \in Nat /\ BytesOf(at) <= BytesAdded[r]
  <2>1. base \in Nat
    BY <1>11, <1>19 DEF Statistic
  <2>2. (base * ratio[1]) \div (ratio[2] * part) \in Nat
    BY <1>5, <1>9, <2>1, DivNat
  <2>3. BytesAdded[r] = (base * ratio[1]) \div (ratio[2] * part)
    BY <1>13, <1>15, <1>19, <2>2 DEF Counted, None
  <2>4. CASE entry.columnar
    <3>1. (base * read) \div (width * share) \in Nat
      BY <1>5, <1>10, <2>1, DivNat
    <3>2. (base * read) \div (width * share) <= (base * ratio[1]) \div (ratio[2] * part)
      BY <1>5, <1>9, <1>10, <2>1, <2>4, FractionBelow
    <3> QED BY <1>16, <2>3, <2>4, <3>1, <3>2
  <2>5. CASE ~entry.columnar
    <3>0. ratio[1] = 1 /\ ratio[2] = 1 /\ 1 \in Nat /\ 1 \in Nat \ {0} /\ 1 * 1 <= 1 * 1
      BY <1>10, <2>5
    <3>1. (base * 1) \div (1 * share) \in Nat
      BY <1>5, <2>1, <3>0, DivNat
    <3>2. (base * 1) \div (1 * share) <= (base * 1) \div (1 * part)
      BY <1>5, <2>1, <3>0, FractionBelow
    <3> QED BY <1>17, <2>3, <2>5, <3>0, <3>1, <3>2
  <2> QED BY <2>4, <2>5
<1>20. ASSUME rows # None PROVE RowsOf(at) \in Nat /\ RowsOf(at) <= RowsAdded[r]
  <2>1. rows \in Nat
    BY <1>11, <1>20 DEF Statistic
  <2>2. rows \div part \in Nat /\ rows \div share \in Nat
    BY <1>5, <2>1, DivBelow
  <2>3. RowsAdded[r] = rows \div part
    BY <1>14, <1>15, <1>20, <2>2 DEF Counted, None
  <2>4. rows \div share <= rows \div part
    <3>1. (rows \div share) * share <= rows
      BY <1>5, <2>1, DivBelow
    <3>2. part * (rows \div share) <= share * (rows \div share)
      BY <1>5, <2>2, TimesMonotone
    <3>3. (rows \div share) * part \in Nat /\ (rows \div share) * share \in Nat
          /\ (rows \div share) * part = part * (rows \div share)
          /\ (rows \div share) * share = share * (rows \div share)
      BY <1>5, <2>2, TimesNat
    <3>4. (rows \div share) * part <= rows
      BY <2>1, <3>1, <3>2, <3>3
    <3> QED BY <1>5, <2>1, <2>2, <3>4, DivBelow
  <2> QED BY <1>18, <2>2, <2>3, <2>4
<1> QED BY <1>12, <1>19, <1>20 DEF base, rows, r

LEMMA SumBounded ==
  ASSUME tree \in Seq(Select), infos = ScopeMaps(tree), IsFiniteSet(References),
         NEW A, A \subseteq Physical, NEW amounts, DOMAIN amounts = A,
         NEW added, \A r \in References : added[r] \in Nat,
         \A at \in A : amounts[at] \in Nat /\ amounts[at] <= added[ReferenceOf(at)]
  PROVE  SumOf(amounts, A) <= SumOf(added, References)
<1> DEFINE g == [at \in A |-> ReferenceOf(at)]
<1>1. IsFiniteSet(A)
  <2>1. A \subseteq Positions(tree)
    BY DEF Physical
  <2> QED BY <2>1, PositionsFinite, FS_Subset
<1>2. \A at \in A : g[at] \in References /\ amounts[at] <= added[g[at]]
  BY ReferenceOfPhysical
<1>3. \A x, z \in A : g[x] = g[z] => x = z
  BY ReferenceIsOne
<1> HIDE DEF g
<1> QED BY <1>1, <1>2, <1>3, SumBelow

\* What is let through is within a budget.
LEMMA BudgetHolds ==
  ASSUME NEW total \in Statistic, NEW maximum \in Statistic, ~Exceeds(total, maximum), maximum # None
  PROVE  Counted(total) <= maximum
BY DEF Exceeds, Counted, Statistic, None

\* A statement that is let through, and in which no comparison is misread as a
\* partition filter, reads no more than the budgets, source by source; if the
\* estimate is not marked incomplete, that is all that it reads.
THEOREM ScanWithinBudgetAlways == Spec => []ScanWithinBudget
<1>1. ASSUME Together PROVE ScanWithinBudget
  <2> SUFFICES ASSUME Accepted, NoneMisread
               PROVE  /\ Within([at \in WithBytes |-> BytesOf(at)], policy.max_bytes_scanned)
                      /\ Within([at \in WithRows |-> RowsOf(at)], policy.max_rows_scanned)
                      /\ ~estimate.incomplete => WithBytes = Physical
    BY DEF ScanWithinBudget
  <2>1. /\ Injected /\ Gathered /\ ReportsTyped /\ QueueTyped /\ Estimated /\ AfterFilters /\ pc = "done"
        /\ tree \in Seq(Select) /\ infos = ScopeMaps(tree) /\ todo = {}
    BY <1>1, InfosFresh DEF Together, Accepted, AfterFilters, Injected, QueueTyped
  <2>2. IsFiniteSet(References) /\ \A r \in References : BytesAdded[r] \in Nat /\ RowsAdded[r] \in Nat
    BY <2>1, AddedNat
  <2>3. Summing /\ ~Exceeding
    BY <2>1 DEF Estimated, Accepted
  <2>4. /\ policy.max_bytes_scanned \in Statistic /\ policy.max_rows_scanned \in Statistic
        /\ estimate.bytes_scanned \in Statistic /\ estimate.rows_scanned \in Statistic
    BY <2>1 DEF ReportsTyped, Policy, Estimated
  <2>5. SumOf(BytesAdded, {}) = 0 /\ SumOf(RowsAdded, {}) = 0
    BY SumOfEmpty
  <2>6. /\ SumOf(BytesAdded, References) = Counted(estimate.bytes_scanned)
        /\ SumOf(RowsAdded, References) = Counted(estimate.rows_scanned)
    BY <2>1, <2>3, <2>4, <2>5 DEF Summing, Counted, Statistic, None
  <2>7. Within([at \in WithBytes |-> BytesOf(at)], policy.max_bytes_scanned)
    <3> DEFINE amounts == [at \in WithBytes |-> BytesOf(at)]
    <3>1. DOMAIN amounts = WithBytes /\ WithBytes \subseteq Physical
      BY DEF WithBytes
    <3>2. \A at \in WithBytes : amounts[at] \in Nat /\ amounts[at] <= BytesAdded[ReferenceOf(at)]
      BY <1>1, <2>1, CountedCovers DEF WithBytes
    <3> HIDE DEF amounts
    <3>3. SumOf(amounts, WithBytes) <= Counted(estimate.bytes_scanned)
      BY <2>1, <2>2, <2>6, <3>1, <3>2, SumBounded
    <3>4. SumOf(amounts, WithBytes) \in Nat
      <4>1. IsFiniteSet(WithBytes)
        <5>1. WithBytes \subseteq Positions(tree)
          BY <3>1 DEF Physical
        <5> QED BY <2>1, <5>1, PositionsFinite, FS_Subset
      <4> QED BY <3>2, <4>1, SumWithout
    <3>5. ASSUME policy.max_bytes_scanned # None PROVE SumOf(amounts, WithBytes) <= policy.max_bytes_scanned
      <4>1. Counted(estimate.bytes_scanned) <= policy.max_bytes_scanned
        BY <2>3, <2>4, <3>5, BudgetHolds DEF Exceeding
      <4>2. Counted(estimate.bytes_scanned) \in Nat /\ policy.max_bytes_scanned \in Nat
        BY <2>4, <3>5 DEF Counted, Statistic
      <4> QED BY <3>3, <3>4, <4>1, <4>2
    <3> QED BY <3>1, <3>5 DEF Within, SumOf, amounts
  <2>8. Within([at \in WithRows |-> RowsOf(at)], policy.max_rows_scanned)
    <3> DEFINE amounts == [at \in WithRows |-> RowsOf(at)]
    <3>1. DOMAIN amounts = WithRows /\ WithRows \subseteq Physical
      BY DEF WithRows
    <3>2. \A at \in WithRows : amounts[at] \in Nat /\ amounts[at] <= RowsAdded[ReferenceOf(at)]
      BY <1>1, <2>1, CountedCovers DEF WithRows
    <3> HIDE DEF amounts
    <3>3. SumOf(amounts, WithRows) <= Counted(estimate.rows_scanned)
      BY <2>1, <2>2, <2>6, <3>1, <3>2, SumBounded
    <3>4. SumOf(amounts, WithRows) \in Nat
      <4>1. IsFiniteSet(WithRows)
        <5>1. WithRows \subseteq Positions(tree)
          BY <3>1 DEF Physical
        <5> QED BY <2>1, <5>1, PositionsFinite, FS_Subset
      <4> QED BY <3>2, <4>1, SumWithout
    <3>5. ASSUME policy.max_rows_scanned # None PROVE SumOf(amounts, WithRows) <= policy.max_rows_scanned
      <4>1. Counted(estimate.rows_scanned) <= policy.max_rows_scanned
        BY <2>3, <2>4, <3>5, BudgetHolds DEF Exceeding
      <4>2. Counted(estimate.rows_scanned) \in Nat /\ policy.max_rows_scanned \in Nat
        BY <2>4, <3>5 DEF Counted, Statistic
      <4> QED BY <3>3, <3>4, <4>1, <4>2
    <3> QED BY <3>1, <3>5 DEF Within, SumOf, amounts
  <2>9. ASSUME ~estimate.incomplete, NEW at \in Physical PROVE at \in WithBytes
    <3>1. ReferenceOf(at) \in References /\ SourceOf(ReferenceOf(at)).table = tree[at[1]].sources[at[2]].table
      BY <2>1, ReferenceOfPhysical
    <3>2. BaseBytes(Catalog[SourceOf(ReferenceOf(at)).table]) # None
      BY <2>1, <2>3, <2>9, <3>1 DEF Summing
    <3> QED BY <3>1, <3>2 DEF WithBytes, EntryOf
  <2>10. ~estimate.incomplete => WithBytes = Physical
    BY <2>9 DEF WithBytes
  <2> QED BY <2>7, <2>8, <2>10
<1> QED BY <1>1, TogetherAlways, PTL
=============================================================================
