-------------------------- MODULE EcmaModuleProofs --------------------------
(***************************************************************************)
(* Proofs about the linking and evaluation of modules, for every finite    *)
(* set of modules and every program.                                       *)
(***************************************************************************)
EXTENDS EcmaModuleInv, FiniteSetTheorems, SequenceTheorems, TLAPS

-----------------------------------------------------------------------------
(* The graph of imports                                                    *)

\* Every non-empty set of numbers has a least one.
LEMMA LeastNumber ==
  ASSUME NEW T \in SUBSET Nat, T # {}
  PROVE  \E x \in T : \A y \in T : x <= y
<1>1. PICK x \in T : \A y \in T : ~ (<<y, x>> \in OpToRel(<, Nat))
  BY NatLessThanWellFounded, WFMin
<1>2. \A y \in T : ~ (y < x)
  BY <1>1 DEF OpToRel
<1>. QED
  BY <1>2

\* The import nodes of a module are what the model takes for them.
LEMMA GoalFacts ==
  ASSUME NEW c \in Programs, NEW m \in Modules
  PROVE  /\ Arity(c, m) \in Nat
         /\ Goals(c, m) \in [1..Arity(c, m) -> Modules]
         /\ Succ(c, m) \subseteq Modules
         /\ c[m].kind = "vmod" => Arity(c, m) = 0
         /\ OwnNames(c[m]) \subseteq Names
         /\ ToSet(c[m].star) \subseteq Modules
<1>1. c \in [Modules -> Bodies]
  BY ProgramsAssumption
<1>2. c[m].imports \in Seq([to : Modules, names : SUBSET (Names \cup {Star})])
  BY <1>1 DEF Bodies
<1>3. Arity(c, m) \in Nat /\ \A i \in 1..Arity(c, m) : c[m].imports[i].to \in Modules
  <2> DEFINE I == [to : Modules, names : SUBSET (Names \cup {Star})]
  <2>1. \A r \in I : r.to \in Modules
    OBVIOUS
  <2>. HIDE DEF I
  <2>2. c[m].imports \in Seq(I)
    BY <1>2 DEF I
  <2>. QED
    BY <2>1, <2>2 DEF Arity
<1>4. Goals(c, m) \in [1..Arity(c, m) -> Modules] /\ Succ(c, m) \subseteq Modules
  BY <1>3 DEF Goals, Succ
<1>5. c[m].kind = "vmod" => Arity(c, m) = 0
  <2>1. c[m].kind # "js" => [i \in DOMAIN c[m].imports |-> c[m].imports[i].to] = <<>>
    BY ProgramsAssumption
  <2>2. DOMAIN c[m].imports = 1..Arity(c, m)
    BY <1>2 DEF Arity
  <2>. QED
    BY <1>3, <2>1, <2>2
<1>6. OwnNames(c[m]) \subseteq Names
  BY <1>1 DEF Bodies, OwnNames
<1>7. ToSet(c[m].star) \subseteq Modules
  BY <1>1 DEF Bodies, ToSet
<1>. QED
  BY <1>3, <1>4, <1>5, <1>6, <1>7

\* The same, for the operators of the model.
LEMMA TargetFacts ==
  ASSUME NEW m \in Modules
  PROVE  /\ Targets(m) = Goals(code, m)
         /\ code \in Programs => ToSet(Targets(m)) = Succ(code, m)
<1>1. Targets(m) = Goals(code, m)
  BY DEF Targets, Goals, Arity
<1>2. DOMAIN Targets(m) = 1..Arity(code, m)
  BY <1>1 DEF Goals
<1>. QED
  BY <1>1, <1>2 DEF ToSet, Succ

\* Every module leads to itself,
LEMMA LeadsSelf == \A c, m, L : Leads(c, m, m, L)
BY DEF Leads

\* to what it imports,
LEMMA LeadsStep ==
  ASSUME NEW c, NEW m, NEW L, NEW t \in Succ(c, m), t \in L
  PROVE  Leads(c, m, t, L)
BY DEF Leads, Closed

\* and to what these lead to.
LEMMA LeadsOn ==
  ASSUME NEW c, NEW m, NEW k, NEW n, NEW L, Leads(c, m, k, L), Leads(c, k, n, L)
  PROVE  Leads(c, m, n, L)
BY DEF Leads

\* More modules lead further.
LEMMA LeadsMore ==
  ASSUME NEW c, NEW m, NEW k, NEW L, NEW M, L \subseteq M, Leads(c, m, k, L)
  PROVE  Leads(c, m, k, M)
<1>1. \A C \in SUBSET Modules : Closed(c, C, M) => Closed(c, C, L)
  BY DEF Closed
<1>. QED
  BY <1>1 DEF Leads

\* No way leads out of a closed set: without one of its members what is outside
\* is led to as before.
LEMMA LeadsAround ==
  ASSUME NEW c, NEW m, NEW k, NEW L, NEW K \in SUBSET Modules, NEW x \in K,
         Closed(c, K, L), k \notin K, Leads(c, m, k, L)
  PROVE  Leads(c, m, k, L \ {x})
<1>. SUFFICES ASSUME NEW C \in SUBSET Modules, m \in C, Closed(c, C, L \ {x})
              PROVE  k \in C
  BY DEF Leads
<1>1. Closed(c, C \cup K, L)
  BY DEF Closed
<1>2. C \cup K \in SUBSET Modules /\ m \in C \cup K
  OBVIOUS
<1>3. k \in C \cup K
  BY <1>1, <1>2 DEF Leads
<1>. QED
  BY <1>3

-----------------------------------------------------------------------------
(* Recursive functions that grow a set of modules                          *)

\* There is a function that repeats the step h.
LEMMA StepsExist ==
  ASSUME NEW h \in [SUBSET Modules -> SUBSET Modules], NEW S \in SUBSET Modules, NEW N \in Nat
  PROVE  \E f \in [0..N -> SUBSET Modules] : f[0] = S /\ \A i \in 1..N : f[i] = h[f[i - 1]]
<1> DEFINE P(f, n) == /\ f \in [0..n -> SUBSET Modules] /\ f[0] = S
                      /\ \A i \in 1..n : f[i] = h[f[i - 1]]
           T == {n \in Nat : ~ \E f : P(f, n)}
<1>. SUFFICES ASSUME T # {} PROVE FALSE
  OBVIOUS
<1>1. PICK n \in T : \A k \in T : n <= k
  BY LeastNumber
<1>2. CASE n = 0
  <2> DEFINE g == [i \in 0..0 |-> S]
  <2>1. P(g, 0)
    OBVIOUS
  <2>. QED
    BY <1>1, <1>2, <2>1
<1>3. CASE n # 0
  <2>1. n \in Nat /\ n - 1 \in Nat /\ n - 1 \notin T
    <3>1. n \in Nat
      BY <1>1
    <3>. HIDE DEF T
    <3>. QED
      BY <1>1, <1>3, <3>1
  <2>2. PICK f : P(f, n - 1)
    BY <2>1
  <2> DEFINE g == [i \in 0..n |-> IF i = n THEN h[f[n - 1]] ELSE f[i]]
  <2>3. f[n - 1] \in SUBSET Modules
    BY <2>1, <2>2
  <2>4. g \in [0..n -> SUBSET Modules] /\ g[0] = S
    BY <1>3, <2>1, <2>2, <2>3
  <2>5. ASSUME NEW i \in 1..n PROVE g[i] = h[g[i - 1]]
    <3>1. i \in 0..n /\ i - 1 \in 0..n /\ i - 1 # n
      BY <2>1
    <3>2. g[i - 1] = f[i - 1]
      BY <3>1
    <3>3. CASE i = n
      BY <3>1, <3>2, <3>3
    <3>4. CASE i # n
      <4>1. i \in 1..(n - 1) /\ g[i] = f[i]
        BY <2>1, <3>1, <3>4
      <4>. QED
        BY <2>2, <3>2, <4>1
    <3>. QED
      BY <3>3, <3>4
  <2>6. P(g, n)
    BY <2>4, <2>5
  <2>. QED
    BY <1>1, <2>6
<1>. QED
  BY <1>2, <1>3

\* What R imports out of L, and R itself.
Grown(c, L, R) == R \cup (L \cap UNION {Succ(c, m) : m \in R})

\* A search that starts in a module ends before it has taken more steps than
\* there are modules: f is closed in the end.
LEMMA GrowthEnds ==
  ASSUME NEW c \in Programs, NEW L \in SUBSET Modules, NEW S \in SUBSET Modules, S # {},
         NEW f, f[0] = S,
         \A i \in 1..Cardinality(Modules) : f[i] = Grown(c, L, f[i - 1])
  PROVE  LET R == f[Cardinality(Modules)]
         IN /\ S \subseteq R /\ R \subseteq Modules
            /\ Closed(c, R, L)
            /\ \A C \in SUBSET Modules : S \subseteq C /\ Closed(c, C, L) => R \subseteq C
<1> DEFINE N == Cardinality(Modules)
<1>1. N \in Nat
  BY NamesAssumption, FS_CardinalityType
<1>. HIDE DEF N
<1>2. \A i \in 1..N : f[i] = Grown(c, L, f[i - 1])
  BY DEF N
<1>3. \A R \in SUBSET Modules : Grown(c, L, R) \in SUBSET Modules /\ R \subseteq Grown(c, L, R)
  BY DEF Grown
<1>4. \A i \in 0..N : f[i] \in SUBSET Modules /\ S \subseteq f[i]
  <2> DEFINE T == {i \in 0..N : ~ (f[i] \in SUBSET Modules /\ S \subseteq f[i])}
  <2>. SUFFICES ASSUME T # {} PROVE FALSE
    OBVIOUS
  <2>1. T \in SUBSET Nat
    OBVIOUS
  <2>2. PICK i \in T : \A k \in T : i <= k
    BY <2>1, LeastNumber
  <2>3. i # 0
    BY <2>2
  <2>4. i \in 1..N /\ i - 1 \in 0..N /\ i - 1 \notin T
    BY <1>1, <2>2, <2>3
  <2>5. f[i - 1] \in SUBSET Modules /\ S \subseteq f[i - 1]
    BY <2>4
  <2>. QED
    BY <1>2, <1>3, <2>2, <2>4, <2>5
<1>5. ASSUME NEW C \in SUBSET Modules, S \subseteq C, Closed(c, C, L)
      PROVE  f[N] \subseteq C
  <2> DEFINE T == {i \in 0..N : ~ (f[i] \subseteq C)}
  <2>. SUFFICES ASSUME T # {} PROVE FALSE
    BY <1>1
  <2>1. T \in SUBSET Nat
    OBVIOUS
  <2>2. PICK i \in T : \A k \in T : i <= k
    BY <2>1, LeastNumber
  <2>3. i # 0
    BY <1>5, <2>2
  <2>4. i \in 1..N /\ i - 1 \in 0..N /\ i - 1 \notin T
    BY <1>1, <2>2, <2>3
  <2>5. f[i - 1] \subseteq C /\ f[i] = Grown(c, L, f[i - 1])
    BY <1>2, <2>4
  <2>6. f[i] \subseteq C
    BY <1>5, <2>5 DEF Grown, Closed
  <2>. QED
    BY <2>2, <2>6
<1>6. Closed(c, f[N], L)
  <2>. SUFFICES ASSUME ~ Closed(c, f[N], L) PROVE FALSE
    OBVIOUS
  <2>1. \A R \in SUBSET Modules : Grown(c, L, R) = R <=> Closed(c, R, L)
    BY DEF Grown, Closed
  <2>2. ASSUME NEW i \in 0..N, Closed(c, f[i], L) PROVE FALSE
    <3> DEFINE T == {k \in i..N : f[k] # f[i]}
    <3>1. T # {}
      <4>1. N \in i..N
        BY <1>1
      <4>. QED
        BY <2>2, <4>1
    <3>2. T \in SUBSET Nat
      OBVIOUS
    <3>3. PICK k \in T : \A l \in T : k <= l
      BY <3>1, <3>2, LeastNumber
    <3>4. k \in 1..N /\ k - 1 \in i..N /\ k - 1 \notin T
      BY <1>1, <3>3
    <3>5. f[k - 1] = f[i] /\ f[k] = Grown(c, L, f[k - 1])
      BY <1>2, <3>4
    <3>6. f[k] = f[i]
      BY <1>4, <2>1, <2>2, <3>5
    <3>. QED
      BY <3>3, <3>6
  <2>3. \A i \in 0..N : IsFiniteSet(f[i]) /\ Cardinality(f[i]) \in Nat
    BY <1>4, NamesAssumption, FS_Subset, FS_CardinalityType
  <2>4. \A i \in 0..N : Cardinality(f[i]) >= i + 1
    <3> DEFINE T == {i \in 0..N : ~ (Cardinality(f[i]) >= i + 1)}
    <3>. SUFFICES ASSUME T # {} PROVE FALSE
      OBVIOUS
    <3>1. T \in SUBSET Nat
      OBVIOUS
    <3>2. PICK i \in T : \A k \in T : i <= k
      BY <3>1, LeastNumber
    <3>3. i # 0
      <4>1. 0 \in 0..N
        BY <1>1
      <4>2. Cardinality(f[0]) # 0
        BY <2>3, <4>1, FS_EmptySet
      <4>3. Cardinality(f[0]) >= 0 + 1
        BY <2>3, <4>1, <4>2
      <4>. QED
        BY <3>2, <4>3
    <3>4. i \in 1..N /\ i - 1 \in 0..N /\ i - 1 \notin T /\ i \in 0..N
      BY <1>1, <3>2, <3>3
    <3>5. Cardinality(f[i - 1]) >= i
      BY <3>4
    <3>6. f[i - 1] \subseteq f[i] /\ f[i - 1] # f[i]
      <4>1. f[i] = Grown(c, L, f[i - 1]) /\ f[i - 1] \in SUBSET Modules
        BY <1>2, <1>4, <3>4
      <4>2. ~ Closed(c, f[i - 1], L)
        BY <2>2, <3>4
      <4>. QED
        BY <1>3, <2>1, <4>1, <4>2
    <3>7. Cardinality(f[i - 1]) <= Cardinality(f[i]) /\ Cardinality(f[i - 1]) # Cardinality(f[i])
      BY <2>3, <3>4, <3>6, FS_Subset
    <3>8. Cardinality(f[i]) \in Nat /\ Cardinality(f[i - 1]) \in Nat
      BY <2>3, <3>4
    <3>9. Cardinality(f[i]) >= i + 1
      BY <3>4, <3>5, <3>7, <3>8
    <3>. QED
      BY <3>2, <3>9
  <2>5. N \in 0..N /\ Cardinality(f[N]) <= N
    <3>1. N \in 0..N
      BY <1>1
    <3>2. f[N] \subseteq Modules
      BY <1>4, <3>1
    <3>. QED
      BY <3>1, <3>2, NamesAssumption, FS_Subset DEF N
  <2>. QED
    BY <1>1, <2>3, <2>4, <2>5
<1>7. N \in 0..N
  BY <1>1
<1>. QED
  BY <1>4, <1>5, <1>6, <1>7 DEF N

\* Reach is that search.
LEMMA ReachFacts ==
  ASSUME code \in Programs, NEW S \in SUBSET Modules, NEW L \in SUBSET Modules, S # {}
  PROVE  /\ S \subseteq Reach(S, L) /\ Reach(S, L) \subseteq Modules
         /\ Closed(code, Reach(S, L), L)
         /\ \A C \in SUBSET Modules : S \subseteq C /\ Closed(code, C, L) => Reach(S, L) \subseteq C
<1> DEFINE N == Cardinality(Modules)
           step(R) == R \cup (L \cap UNION {ToSet(Targets(m)) : m \in R})
           E(f) == f = [i \in 0..N |-> IF i = 0 THEN S ELSE step(f[i - 1])]
<1>1. N \in Nat
  BY NamesAssumption, FS_CardinalityType
<1>2. Reach(S, L) = (CHOOSE f : E(f))[N]
  BY DEF Reach
<1>3. \A R \in SUBSET Modules : step(R) = Grown(code, L, R) /\ step(R) \in SUBSET Modules
  <2>1. \A m \in Modules : ToSet(Targets(m)) = Succ(code, m)
    BY TargetFacts
  <2>. QED
    BY <2>1 DEF Grown
<1>. HIDE DEF N, step
<1>4. \E f : E(f)
  <2> DEFINE h == [R \in SUBSET Modules |-> step(R)]
  <2>1. h \in [SUBSET Modules -> SUBSET Modules]
    BY <1>3
  <2>2. PICK f \in [0..N -> SUBSET Modules] : f[0] = S /\ \A i \in 1..N : f[i] = h[f[i - 1]]
    BY <1>1, <2>1, StepsExist, ZenonT(60)
  <2>3. ASSUME NEW i \in 0..N PROVE f[i] = IF i = 0 THEN S ELSE step(f[i - 1])
    <3>1. CASE i = 0
      BY <2>2, <3>1
    <3>2. CASE i # 0
      <4>1. i \in 1..N /\ i - 1 \in 0..N
        BY <1>1, <3>2
      <4>2. f[i] = h[f[i - 1]] /\ f[i - 1] \in SUBSET Modules
        BY <2>2, <4>1
      <4>. QED
        BY <3>2, <4>2
    <3>. QED
      BY <3>1, <3>2
  <2>4. E(f)
    BY <2>2, <2>3
  <2>. QED
    BY <2>4
<1>5. PICK f : E(f) /\ Reach(S, L) = f[N]
  <2>. HIDE DEF E
  <2>. QED
    BY <1>2, <1>4
<1>6. f[0] = S /\ \A i \in 1..N : f[i] = step(f[i - 1])
  <2>1. \A i \in 0..N : f[i] = IF i = 0 THEN S ELSE step(f[i - 1])
    BY <1>5
  <2>2. \A i \in 1..N : i \in 0..N /\ i # 0
    BY <1>1
  <2>3. 0 \in 0..N
    BY <1>1
  <2>. QED
    BY <2>1, <2>2, <2>3
<1>7. \A i \in 0..N : f[i] \in SUBSET Modules
  <2> DEFINE T == {i \in 0..N : f[i] \notin SUBSET Modules}
  <2>. SUFFICES ASSUME T # {} PROVE FALSE
    OBVIOUS
  <2>1. T \in SUBSET Nat
    OBVIOUS
  <2>2. PICK i \in T : \A k \in T : i <= k
    BY <2>1, LeastNumber
  <2>3. i # 0
    BY <1>6, <2>2
  <2>4. i \in 1..N /\ i - 1 \in 0..N /\ i - 1 \notin T
    BY <1>1, <2>2, <2>3
  <2>5. f[i] = step(f[i - 1]) /\ f[i - 1] \in SUBSET Modules
    BY <1>6, <2>4
  <2>. QED
    BY <1>3, <2>2, <2>5
<1>8. \A i \in 1..N : f[i] = Grown(code, L, f[i - 1])
  <2>1. \A i \in 1..N : i - 1 \in 0..N
    BY <1>1
  <2>. QED
    BY <1>3, <1>6, <1>7, <2>1
<1>9. /\ S \subseteq f[N] /\ f[N] \subseteq Modules
      /\ Closed(code, f[N], L)
      /\ \A C \in SUBSET Modules : S \subseteq C /\ Closed(code, C, L) => f[N] \subseteq C
  <2>. HIDE DEF E
  <2>1. f[0] = S
    BY <1>6
  <2>. QED
    BY <1>8, <2>1, GrowthEnds DEF N
<1>. QED
  BY <1>5, <1>9

\* What leads to what, in terms of Reach.
LEMMA LeadsReach ==
  ASSUME code \in Programs, NEW m \in Modules, NEW k, NEW L \in SUBSET Modules
  PROVE  Leads(code, m, k, L) <=> k \in Reach({m}, L)
<1>1. /\ {m} \subseteq Reach({m}, L) /\ Reach({m}, L) \subseteq Modules
      /\ Closed(code, Reach({m}, L), L)
      /\ \A C \in SUBSET Modules : {m} \subseteq C /\ Closed(code, C, L) => Reach({m}, L) \subseteq C
  BY ReachFacts
<1>. QED
  BY <1>1 DEF Leads

\* Star exports lead to modules.
LEMMA StarReachType ==
  ASSUME NEW c \in Programs, NEW m \in Modules
  PROVE  StarReach(c, m) \subseteq Modules
<1> DEFINE N == Cardinality(Modules)
           step(R) == R \cup UNION {ToSet(c[k].star) : k \in R}
           E(f) == f = [i \in 0..N |-> IF i = 0 THEN {m} ELSE step(f[i - 1])]
<1>1. N \in Nat
  BY NamesAssumption, FS_CardinalityType
<1>2. StarReach(c, m) = (CHOOSE f : E(f))[N]
  BY DEF StarReach
<1>3. \A R \in SUBSET Modules : step(R) \in SUBSET Modules
  BY GoalFacts
<1>. HIDE DEF N, step
<1>4. \E f : E(f)
  <2> DEFINE h == [R \in SUBSET Modules |-> step(R)]
  <2>1. h \in [SUBSET Modules -> SUBSET Modules] /\ {m} \in SUBSET Modules
    BY <1>3
  <2>2. PICK f \in [0..N -> SUBSET Modules] : f[0] = {m} /\ \A i \in 1..N : f[i] = h[f[i - 1]]
    BY <1>1, <2>1, StepsExist, ZenonT(60)
  <2>3. ASSUME NEW i \in 0..N PROVE f[i] = IF i = 0 THEN {m} ELSE step(f[i - 1])
    <3>1. CASE i = 0
      BY <2>2, <3>1
    <3>2. CASE i # 0
      <4>1. i \in 1..N /\ i - 1 \in 0..N
        BY <1>1, <3>2
      <4>2. f[i] = h[f[i - 1]] /\ f[i - 1] \in SUBSET Modules
        BY <2>2, <4>1
      <4>. QED
        BY <3>2, <4>2
    <3>. QED
      BY <3>1, <3>2
  <2>4. E(f)
    BY <2>2, <2>3
  <2>. QED
    BY <2>4
<1>5. PICK f : E(f) /\ StarReach(c, m) = f[N]
  <2>. HIDE DEF E
  <2>. QED
    BY <1>2, <1>4
<1>6. f[0] = {m} /\ \A i \in 1..N : f[i] = step(f[i - 1])
  <2>1. \A i \in 0..N : f[i] = IF i = 0 THEN {m} ELSE step(f[i - 1])
    BY <1>5
  <2>2. \A i \in 1..N : i \in 0..N /\ i # 0
    BY <1>1
  <2>3. 0 \in 0..N
    BY <1>1
  <2>. QED
    BY <2>1, <2>2, <2>3
<1>7. \A i \in 0..N : f[i] \in SUBSET Modules
  <2> DEFINE T == {i \in 0..N : f[i] \notin SUBSET Modules}
  <2>. SUFFICES ASSUME T # {} PROVE FALSE
    OBVIOUS
  <2>1. T \in SUBSET Nat
    OBVIOUS
  <2>2. PICK i \in T : \A k \in T : i <= k
    BY <2>1, LeastNumber
  <2>3. i # 0
    BY <1>6, <2>2
  <2>4. i \in 1..N /\ i - 1 \in 0..N /\ i - 1 \notin T
    BY <1>1, <2>2, <2>3
  <2>5. f[i] = step(f[i - 1]) /\ f[i - 1] \in SUBSET Modules
    BY <1>6, <2>4
  <2>. QED
    BY <1>3, <2>2, <2>5
<1>8. N \in 0..N
  BY <1>1
<1>. QED
  BY <1>5, <1>7, <1>8

\* A namespace object holds names.
LEMMA NamespaceType ==
  ASSUME NEW c \in Programs, NEW failed, NEW has, NEW n, NEW m \in Modules,
         \A k \in Modules : DOMAIN n[k] \subseteq Names
  PROVE  DOMAIN CreateNamespace(c, failed, has, n, m).exports \subseteq Names
<1>1. \A k \in StarReach(c, m) : k \in Modules /\ OwnNames(c[k]) \subseteq Names
  BY GoalFacts, StarReachType
<1>. QED
  BY <1>1, GoalFacts DEF CreateNamespace

-----------------------------------------------------------------------------
(* The inductive invariant                                                 *)

\* What the lemmas about a link f take for granted.
LinkTypes(c, f, st, anc) ==
  /\ c \in Programs /\ f \in LinkFrames
  /\ st \in [Modules -> States] /\ anc \in [Modules -> Nat]

\* The fields of a link and of the items of its stack.
LEMMA LinkFields ==
  ASSUME NEW f \in LinkFrames
  PROVE  /\ f.op = "link" /\ f.pc \in Searching \cup Closing /\ f.module \in Modules /\ f.dfs \in Nat
         /\ f.stack \in Seq(StackItems) /\ Len(f.stack) \in Nat
         /\ f.cur \in Nat /\ f.base \in Nat /\ f.it \in Nat
         /\ \A i \in 1..Len(f.stack) : f.stack[i] \in StackItems
BY DEF LinkFrames

\* The fields of the items on the stack.
LEMMA ItemFields ==
  ASSUME NEW s \in Seq(StackItems)
  PROVE  /\ Len(s) \in Nat
         /\ \A i \in 1..Len(s) : /\ s[i].m \in Modules /\ s[i].dfs \in Nat /\ s[i].parent \in Nat
                                 /\ s[i].node \in Nat \ {0}
<1>1. \A r \in StackItems : /\ r.m \in Modules /\ r.dfs \in Nat /\ r.parent \in Nat
                            /\ r.node \in Nat \ {0}
  BY DEF StackItems
<1>2. Len(s) \in Nat /\ \A i \in 1..Len(s) : s[i] \in StackItems
  OBVIOUS
<1>. QED
  BY <1>1, <1>2

-----------------------------------------------------------------------------
(* The subtree of an item                                                  *)

\* The items from r on are the subtree of r.
Subtree(s, r) == r \in 1..Len(s) /\ \A i \in (r + 1)..Len(s) : s[i].parent >= r

\* An index that never falls from parent to child is lowest at the root.
LEMMA SubtreeLow ==
  ASSUME NEW c \in Programs, NEW s \in Seq(StackItems), TreeInv(c, s), NEW r, Subtree(s, r),
         NEW anc \in [Modules -> Nat],
         \A i \in (r + 1)..Len(s) : anc[s[s[i].parent].m] <= anc[s[i].m]
  PROVE  \A i \in r..Len(s) : anc[s[r].m] <= anc[s[i].m]
<1> DEFINE T == {i \in r..Len(s) : ~ (anc[s[r].m] <= anc[s[i].m])}
<1>. SUFFICES ASSUME T # {} PROVE FALSE
  OBVIOUS
<1>0. Len(s) \in Nat /\ r \in 1..Len(s) /\ \A i \in 1..Len(s) : s[i].m \in Modules
  BY ItemFields DEF Subtree
<1>1. T \in SUBSET Nat
  BY <1>0
<1>2. PICK i \in T : \A k \in T : i <= k
  BY <1>1, LeastNumber
<1>3. i \in 1..Len(s) /\ i \in r..Len(s)
  BY <1>0, <1>2
<1>4. i # r
  BY <1>0, <1>2
<1>5. i \in (r + 1)..Len(s) /\ i # 1
  BY <1>0, <1>3, <1>4
<1>6. s[i].parent \in 1..(i - 1) /\ s[i].parent >= r
  BY <1>3, <1>5 DEF TreeInv, Subtree
<1>7. s[i].parent \in r..Len(s) /\ s[i].parent \in 1..Len(s) /\ s[i].parent < i
  BY <1>0, <1>3, <1>6
<1>8. s[i].parent \notin T
  BY <1>2, <1>3, <1>7
<1>9. anc[s[r].m] <= anc[s[s[i].parent].m] /\ anc[s[s[i].parent].m] <= anc[s[i].m]
  BY <1>5, <1>7, <1>8
<1>10. anc[s[r].m] \in Nat /\ anc[s[s[i].parent].m] \in Nat /\ anc[s[i].m] \in Nat
  BY <1>0, <1>3, <1>7
<1>. QED
  BY <1>2, <1>9, <1>10

\* The root leads to all items,
LEMMA SubtreeDown ==
  ASSUME NEW c \in Programs, NEW s \in Seq(StackItems), TreeInv(c, s), NEW r, Subtree(s, r),
         NEW L, \A i \in 1..Len(s) : s[i].m \in L
  PROVE  \A i \in r..Len(s) : Leads(c, s[r].m, s[i].m, L)
<1> DEFINE T == {i \in r..Len(s) : ~ Leads(c, s[r].m, s[i].m, L)}
<1>. SUFFICES ASSUME T # {} PROVE FALSE
  OBVIOUS
<1>0. Len(s) \in Nat /\ r \in 1..Len(s)
  BY ItemFields DEF Subtree
<1>1. T \in SUBSET Nat
  BY <1>0
<1>2. PICK i \in T : \A k \in T : i <= k
  BY <1>1, LeastNumber
<1>3. i \in 1..Len(s) /\ i \in r..Len(s)
  BY <1>0, <1>2
<1>4. i # r
  BY <1>2, LeadsSelf
<1>5. i \in (r + 1)..Len(s) /\ i # 1
  BY <1>0, <1>3, <1>4
<1>6. s[i].parent \in 1..(i - 1) /\ s[i].parent >= r /\ s[i].m \in Succ(c, s[s[i].parent].m)
  BY <1>3, <1>5 DEF TreeInv, Subtree
<1>7. s[i].parent \in r..Len(s) /\ s[i].parent < i
  BY <1>0, <1>3, <1>6
<1>8. s[i].parent \notin T
  BY <1>2, <1>3, <1>7
<1>9. Leads(c, s[r].m, s[s[i].parent].m, L)
  BY <1>7, <1>8
<1>10. Leads(c, s[s[i].parent].m, s[i].m, L)
  BY <1>3, <1>6, LeadsStep
<1>11. Leads(c, s[r].m, s[i].m, L)
  BY <1>9, <1>10, LeadsOn
<1>. QED
  BY <1>2, <1>11

\* and all items lead to the root, if each leads to one before it.
LEMMA SubtreeUp ==
  ASSUME NEW c \in Programs, NEW s \in Seq(StackItems), NEW r \in 1..Len(s), NEW L,
         \A i \in (r + 1)..Len(s) : \E k \in r..(i - 1) : Leads(c, s[i].m, s[k].m, L)
  PROVE  \A i \in r..Len(s) : Leads(c, s[i].m, s[r].m, L)
<1> DEFINE T == {i \in r..Len(s) : ~ Leads(c, s[i].m, s[r].m, L)}
<1>. SUFFICES ASSUME T # {} PROVE FALSE
  OBVIOUS
<1>0. Len(s) \in Nat /\ r \in 1..Len(s)
  BY ItemFields
<1>1. T \in SUBSET Nat
  BY <1>0
<1>2. PICK i \in T : \A k \in T : i <= k
  BY <1>1, LeastNumber
<1>3. i \in 1..Len(s) /\ i \in r..Len(s)
  BY <1>0, <1>2
<1>4. i # r
  BY <1>2, LeadsSelf
<1>5. i \in (r + 1)..Len(s)
  BY <1>0, <1>3, <1>4
<1>6. PICK k \in r..(i - 1) : Leads(c, s[i].m, s[k].m, L)
  BY <1>5
<1>7. k \in r..Len(s) /\ k < i
  BY <1>0, <1>3, <1>6
<1>8. k \notin T
  BY <1>2, <1>3, <1>7
<1>9. Leads(c, s[k].m, s[r].m, L)
  BY <1>7, <1>8
<1>10. Leads(c, s[i].m, s[r].m, L)
  BY <1>6, <1>9, LeadsOn
<1>. QED
  BY <1>2, <1>10

-----------------------------------------------------------------------------
(* The steps of a link                                                     *)

\* The modules of LINKING are modules, and so on: facts that all steps use.
LEMMA StartedFinite ==
  ASSUME NEW st
  PROVE  /\ IsFiniteSet(StartedIn(st)) /\ Cardinality(StartedIn(st)) \in Nat
         /\ Cardinality(StartedIn(st)) <= Cardinality(Modules)
         /\ Cardinality(Modules) \in Nat
<1>1. StartedIn(st) \subseteq Modules /\ IsFiniteSet(Modules)
  BY NamesAssumption DEF StartedIn
<1>. QED
  BY <1>1, FS_Subset, FS_CardinalityType

\* ecma_module_link starts with the module alone on the stack.
LEMMA NewLinkOK ==
  ASSUME NEW c \in Programs, NEW st \in [Modules -> States], NEW anc \in [Modules -> Nat], NEW res,
         NEW m \in Modules, \A k \in Modules : st[k] # "linking",
         NEW st1, st1 = [st EXCEPT ![m] = "linking"],
         NEW anc1, anc1 = [anc EXCEPT ![m] = 0]
  PROVE  NewLink(m) \in LinkFrames /\ LinkOK(c, NewLink(m), st1, anc1, res)
<1> DEFINE item == [m |-> m, node |-> 1, dfs |-> 0, parent |-> 0]
           f == NewLink(m)
<1>1. item \in StackItems /\ item.m = m /\ item.node = 1 /\ item.dfs = 0 /\ item.parent = 0
  BY DEF StackItems
<1>. HIDE DEF item
<1>2. /\ f.op = "link" /\ f.pc = "resolve" /\ f.module = m /\ f.dfs = 0 /\ f.stack = <<item>>
      /\ f.cur = 1 /\ f.base = 1 /\ f.it = 1
      /\ f \in LinkFrames
  BY <1>1 DEF NewLink, LinkFrames, Searching, item
<1>3. Len(f.stack) = 1 /\ f.stack[1] = item /\ f.stack # <<>> /\ 1..Len(f.stack) = {1}
  BY <1>2
<1>. HIDE DEF f
<1>4. Arity(c, m) \in Nat
  BY GoalFacts
<1>5. StackInv(f, st1)
  BY <1>1, <1>3 DEF StackInv
<1>6. TreeInv(c, f.stack)
  BY <1>1, <1>3, <1>4 DEF TreeInv
<1>7. PlaceInv(c, f)
  BY <1>1, <1>2, <1>3, <1>4 DEF PlaceInv, Searching, Closing, Live
<1>8. SearchInv(c, f, st1, anc1)
  <2>1. Live(f) = 1
    BY <1>2, <1>3 DEF Live, Searching
  <2>2. Active(f.stack, f.cur, 1)
    BY <1>2 DEF Active
  <2>3. Examined(c, f.stack, f.cur, 1) = {}
    BY <1>1, <1>3, <2>2 DEF Examined
  <2>4. anc1[m] = 0
    OBVIOUS
  <2>5. ItemInv(c, f.stack, f.cur, st1, anc1, 1)
    BY <1>1, <1>3, <2>2, <2>3, <2>4, LeadsSelf DEF ItemInv
  <2>. QED
    BY <2>1, <2>5 DEF SearchInv
<1>9. ResolvedInv(c, f, st1, res)
  <2>1. DoneNodes(c, f, 1) = {}
    BY <1>2 DEF DoneNodes
  <2>. QED
    BY <1>3, <2>1 DEF ResolvedInv
<1>10. ComponentInv(c, f, st1)
  BY <1>2 DEF ComponentInv, Closing
<1>11. CountInv(f, st1)
  <2>1. m \in StartedIn(st1)
    BY DEF StartedIn
  <2>2. Cardinality(StartedIn(st1)) # 0
    BY <2>1, StartedFinite, FS_EmptySet
  <2>. QED
    BY <1>2, <2>2, StartedFinite DEF CountInv
<1>. QED
  BY <1>2, <1>5, <1>6, <1>7, <1>8, <1>9, <1>10, <1>11 DEF LinkOK, f

\* A module that is linked when it is read, not being on the stack, is no
\* matter to the link.
LEMMA ReadKeepsLink ==
  ASSUME NEW c, NEW f, NEW st, NEW anc, NEW res, LinkTypes(c, f, st, anc),
         LinkOK(c, f, st, anc, res),
         NEW st1 \in [Modules -> States],
         \A m \in Modules : st1[m] = st[m] \/ (st[m] = "unlinked" /\ st1[m] = "linked")
  PROVE  LinkOK(c, f, st1, anc, res)
<1>0. /\ c \in Programs /\ f \in LinkFrames /\ st \in [Modules -> States] /\ anc \in [Modules -> Nat]
      /\ f.stack \in Seq(StackItems)
      /\ Len(f.stack) \in Nat /\ \A i \in 1..Len(f.stack) : f.stack[i].m \in Modules
      /\ f.base \in Nat /\ f.dfs \in Nat
  BY LinkFields, ItemFields DEF LinkTypes
<1>1. LinkingIn(st1) = LinkingIn(st)
  BY DEF LinkingIn
<1>2. \A m \in Modules : st[m] \in Complete => st1[m] \in Complete
  BY DEF Complete
<1>3. StackInv(f, st1)
  BY DEF LinkOK, StackInv
<1>4. SearchInv(c, f, st1, anc)
  <2>1. ASSUME NEW i \in 1..Live(f), ItemInv(c, f.stack, f.cur, st, anc, i)
        PROVE  ItemInv(c, f.stack, f.cur, st1, anc, i)
    <3>1. i \in 1..Len(f.stack)
      BY <1>0 DEF Live, LinkOK, PlaceInv, LinkFrames
    <3>2. \A x \in Examined(c, f.stack, f.cur, i) : x \in 1..Arity(c, f.stack[i].m)
      BY <1>0, <3>1, ItemFields, GoalFacts DEF Examined, LinkOK, TreeInv
    <3>3. \A x \in Examined(c, f.stack, f.cur, i) : Goals(c, f.stack[i].m)[x] \in Modules
      BY <1>0, <3>1, <3>2, GoalFacts
    <3>4. \A x \in Examined(c, f.stack, f.cur, i) :
            st1[Goals(c, f.stack[i].m)[x]] \in Complete \cup {"linking"}
      BY <1>2, <2>1, <3>3 DEF ItemInv
    <3>. QED
      BY <1>1, <2>1, <3>4 DEF ItemInv
  <2>. QED
    BY <2>1 DEF LinkOK, SearchInv
<1>5. ResolvedInv(c, f, st1, res)
  <2>1. ASSUME NEW i \in 1..Len(f.stack), NEW x \in DoneNodes(c, f, i)
        PROVE  Goals(c, f.stack[i].m)[x] \in Modules
    <3>1. x \in 1..Arity(c, f.stack[i].m)
      BY <1>0, GoalFacts DEF DoneNodes, LinkOK, PlaceInv
    <3>. QED
      BY <1>0, <3>1, GoalFacts
  <2>. QED
    BY <2>1 DEF LinkOK, ResolvedInv
<1>6. ComponentInv(c, f, st1)
  <2>1. ASSUME NEW i \in f.base..Len(f.stack), f.pc \in Closing
        PROVE  Succ(c, f.stack[i].m) \subseteq Modules
    <3>1. i \in 1..Len(f.stack)
      BY <1>0, <2>1 DEF LinkOK, PlaceInv
    <3>. QED
      BY <1>0, <3>1, GoalFacts
  <2>. QED
    BY <1>1, <1>2, <2>1 DEF LinkOK, ComponentInv
<1>7. CountInv(f, st1)
  <2>1. StartedIn(st) \subseteq StartedIn(st1)
    BY DEF StartedIn
  <2>2. Cardinality(StartedIn(st)) <= Cardinality(StartedIn(st1))
    BY <2>1, StartedFinite, FS_Subset
  <2>3. f.dfs + 1 <= Cardinality(StartedIn(st))
    BY DEF LinkOK, CountInv
  <2>4. Cardinality(StartedIn(st)) \in Nat /\ Cardinality(StartedIn(st1)) \in Nat
    BY StartedFinite
  <2>. QED
    BY <1>0, <2>2, <2>3, <2>4 DEF CountInv
<1>. QED
  BY <1>3, <1>4, <1>5, <1>6, <1>7 DEF LinkOK

\* A step that leaves the stack and the place of the search alone keeps what is
\* said about them.
SameSearch(f, g) ==
  /\ g.stack = f.stack /\ g.cur = f.cur /\ g.dfs = f.dfs
  /\ \/ f.pc \in Searching /\ g.pc \in Searching
     \/ f.pc \in Closing /\ g.pc \in Closing /\ g.base = f.base

\* A frame that goes on with the same search keeps its invariant.
LEMMA SameSearchOK ==
  ASSUME NEW c, NEW f, NEW st, NEW anc, NEW res, LinkTypes(c, f, st, anc),
         LinkOK(c, f, st, anc, res),
         NEW g \in LinkFrames, SameSearch(f, g), PlaceInv(c, g),
         NEW res1, ResolvedInv(c, g, st, res1),
         g.pc \in Closing => g.pc = "linked" \/ f.pc # "linked"
  PROVE  LinkOK(c, g, st, anc, res1)
<1>1. Live(g) = Live(f)
  BY DEF SameSearch, Live, Searching, Closing
<1>2. StackInv(g, st) /\ TreeInv(c, g.stack) /\ CountInv(g, st)
  BY DEF SameSearch, LinkOK, StackInv, CountInv
<1>3. SearchInv(c, g, st, anc)
  BY <1>1 DEF SameSearch, LinkOK, SearchInv
<1>4. ComponentInv(c, g, st)
  BY DEF SameSearch, LinkOK, ComponentInv, Searching, Closing
<1>. QED
  BY <1>2, <1>3, <1>4 DEF LinkOK

\* The resolve loop: one node more holds a module.
LEMMA ResolveOK ==
  ASSUME NEW c, NEW f, NEW st, NEW anc, NEW res, LinkTypes(c, f, st, anc),
         LinkOK(c, f, st, anc, res), f.pc = "resolve",
         NEW m, m = f.stack[f.cur].m, f.it <= Arity(c, m), st[Goals(c, m)[f.it]] # "error",
         NEW res1, res1 = [res EXCEPT ![m] = @ \cup {f.it}], Modules \subseteq DOMAIN res,
         NEW g \in LinkFrames, g.pc = "resolve", g.stack = f.stack, g.cur = f.cur,
         g.dfs = f.dfs, g.it = f.it + 1
  PROVE  LinkOK(c, g, st, anc, res1)
<1>0. /\ c \in Programs /\ f \in LinkFrames /\ f.stack \in Seq(StackItems)
      /\ Len(f.stack) \in Nat /\ \A i \in 1..Len(f.stack) : f.stack[i].m \in Modules
      /\ f.it \in Nat /\ f.cur \in Nat
  BY LinkFields, ItemFields DEF LinkTypes
<1>1. f.cur \in 1..Len(f.stack) /\ m \in Modules /\ Arity(c, m) \in Nat /\ f.it \in 1..(Arity(c, m) + 1)
  BY <1>0, GoalFacts DEF LinkOK, PlaceInv, Searching
<1>2. PlaceInv(c, g)
  BY <1>0, <1>1 DEF LinkOK, PlaceInv, Searching, Closing, Live
<1>3. ResolvedInv(c, g, st, res1)
  <2>1. \A k \in Modules : res[k] \subseteq res1[k]
    OBVIOUS
  <2>2. ASSUME NEW i \in 1..Len(f.stack), i # f.cur
        PROVE  DoneNodes(c, g, i) = DoneNodes(c, f, i)
    BY <2>2 DEF DoneNodes
  <2>3. DoneNodes(c, g, f.cur) = DoneNodes(c, f, f.cur) \cup {f.it}
    BY <1>0, <1>1 DEF DoneNodes
  <2>4. f.it \in res1[m]
    BY <1>1
  <2>5. ASSUME NEW i \in 1..Len(f.stack)
        PROVE  /\ DoneNodes(c, f, i) \subseteq res[f.stack[i].m]
               /\ \A x \in DoneNodes(c, f, i) : st[Goals(c, f.stack[i].m)[x]] # "error"
    BY DEF LinkOK, ResolvedInv
  <2>6. ASSUME NEW i \in 1..Len(f.stack)
        PROVE  /\ DoneNodes(c, g, i) \subseteq res1[f.stack[i].m]
               /\ \A x \in DoneNodes(c, g, i) : st[Goals(c, f.stack[i].m)[x]] # "error"
    <3>1. CASE i = f.cur
      BY <1>0, <2>1, <2>3, <2>4, <2>5, <3>1
    <3>2. CASE i # f.cur
      BY <1>0, <2>1, <2>2, <2>5, <3>2
    <3>. QED
      BY <3>1, <3>2
  <2>. QED
    BY <2>6 DEF ResolvedInv
<1>. QED
  BY <1>2, <1>3, SameSearchOK DEF SameSearch, Searching, Closing

\* The end of the resolve loop.
LEMMA ResolveEndOK ==
  ASSUME NEW c, NEW f, NEW st, NEW anc, NEW res, LinkTypes(c, f, st, anc),
         LinkOK(c, f, st, anc, res), f.pc = "resolve",
         f.it > Arity(c, f.stack[f.cur].m),
         NEW g \in LinkFrames, g.pc = "find", g.stack = f.stack, g.cur = f.cur, g.dfs = f.dfs
  PROVE  LinkOK(c, g, st, anc, res)
<1>0. /\ c \in Programs /\ f \in LinkFrames /\ f.stack \in Seq(StackItems)
      /\ Len(f.stack) \in Nat /\ \A i \in 1..Len(f.stack) : f.stack[i].m \in Modules
      /\ f.it \in Nat /\ f.cur \in Nat
  BY LinkFields, ItemFields DEF LinkTypes
<1>1. /\ f.cur \in 1..Len(f.stack) /\ Arity(c, f.stack[f.cur].m) \in Nat
      /\ f.it \in 1..(Arity(c, f.stack[f.cur].m) + 1)
  BY <1>0, GoalFacts DEF LinkOK, PlaceInv, Searching
<1>2. PlaceInv(c, g)
  BY <1>0, <1>1 DEF LinkOK, PlaceInv, Searching, Closing, Live
<1>3. ResolvedInv(c, g, st, res)
  <2>1. f.it - 1 = Arity(c, f.stack[f.cur].m)
    BY <1>0, <1>1
  <2>2. \A i \in 1..Len(f.stack) : DoneNodes(c, g, i) = DoneNodes(c, f, i)
    BY <2>1 DEF DoneNodes
  <2>. QED
    BY <2>2 DEF LinkOK, ResolvedInv
<1>. QED
  BY <1>2, <1>3, SameSearchOK DEF SameSearch, Searching, Closing

\* The loops over a component.
LEMMA CloseOK ==
  ASSUME NEW c, NEW f, NEW st, NEW anc, NEW res, LinkTypes(c, f, st, anc),
         LinkOK(c, f, st, anc, res), f.pc \in {"namespace", "connect"},
         NEW g \in LinkFrames, g.pc \in Closing, g.stack = f.stack, g.cur = f.cur,
         g.dfs = f.dfs, g.base = f.base, g.it \in f.base..Len(f.stack)
  PROVE  LinkOK(c, g, st, anc, res)
<1>1. PlaceInv(c, g)
  BY DEF LinkOK, PlaceInv, Searching, Closing, Live
<1>2. ResolvedInv(c, g, st, res)
  <2>1. \A i \in 1..Len(f.stack) : DoneNodes(c, g, i) = DoneNodes(c, f, i)
    BY DEF DoneNodes, Closing
  <2>. QED
    BY <2>1 DEF LinkOK, ResolvedInv
<1>. QED
  BY <1>1, <1>2, SameSearchOK DEF SameSearch, Searching, Closing

\* low is the lowest of the ancestor indexes of m and of the modules in LINKING
\* that its nodes from a to b - 1 name.
IsLowest(c, st, anc, m, a, b, low) ==
  /\ \/ low = anc[m]
     \/ \E x \in a..(b - 1) : st[Goals(c, m)[x]] = "linking" /\ low = anc[Goals(c, m)[x]]
  /\ low <= anc[m]
  /\ \A x \in a..(b - 1) : st[Goals(c, m)[x]] = "linking" => low <= anc[Goals(c, m)[x]]

\* What was passed up to node b of the item at cur is linked or on the stack, not
\* below low.
Passed(c, s, cur, st, b, low) ==
  \A x \in 1..(b - 1) :
    /\ st[Goals(c, s[cur].m)[x]] \in Complete \cup {"linking"}
    /\ \A k \in 1..Len(s) : s[k].m = Goals(c, s[cur].m)[x] => low <= s[k].dfs

\* The value of m becomes v.
Put(st, m, v, st1) == st1 = [st EXCEPT ![m] = v]

\* The find loop of the current module m has come to node b without meeting a
\* module that is UNLINKED, with the index low.
Lowers(c, f, st, anc, m, b, low) ==
  /\ m = f.stack[f.cur].m /\ b \in f.stack[f.cur].node..(Arity(c, m) + 1)
  /\ \A x \in f.stack[f.cur].node..(b - 1) : st[Goals(c, m)[x]] # "unlinked"
  /\ IsLowest(c, st, anc, m, f.stack[f.cur].node, b, low)

\* What the find loop starts from.
LEMMA FindFacts ==
  ASSUME NEW c, NEW f, NEW st, NEW anc, NEW res, LinkTypes(c, f, st, anc),
         LinkOK(c, f, st, anc, res), f.pc = "find"
  PROVE  LET s == f.stack
             n == Len(f.stack)
         IN /\ c \in Programs /\ f \in LinkFrames /\ s \in Seq(StackItems) /\ n \in Nat
            /\ st \in [Modules -> States] /\ anc \in [Modules -> Nat] /\ f.dfs \in Nat
            /\ \A i \in 1..n : /\ s[i].m \in Modules /\ s[i].dfs \in Nat
                               /\ s[i].node \in Nat \ {0} /\ s[i].parent \in Nat
            /\ f.cur \in 1..n /\ TreeInv(c, s) /\ Live(f) = n /\ StackInv(f, st)
            /\ s # <<>> /\ \A i \in 1..n : s[i].dfs <= f.dfs
            /\ \A i \in (f.cur + 1)..n : s[i].parent >= f.cur
            /\ s[f.cur].node <= Arity(c, s[f.cur].m) + 1
            /\ \A i \in 1..n : ItemInv(c, s, f.cur, st, anc, i)
            /\ \A x \in 1..Arity(c, s[f.cur].m) : st[Goals(c, s[f.cur].m)[x]] # "error"
<1> DEFINE s == f.stack
           n == Len(s)
           cur == f.cur
<1>1. c \in Programs /\ f \in LinkFrames /\ st \in [Modules -> States] /\ anc \in [Modules -> Nat]
  BY DEF LinkTypes
<1>2. s \in Seq(StackItems) /\ n \in Nat /\ f.dfs \in Nat
  BY <1>1, LinkFields
<1>3. \A i \in 1..n : s[i].m \in Modules /\ s[i].dfs \in Nat /\ s[i].node \in Nat \ {0} /\ s[i].parent \in Nat
  BY <1>2, ItemFields
<1>4. Live(f) = n
  BY DEF Live, Searching
<1>5. /\ TreeInv(c, s) /\ StackInv(f, st) /\ PlaceInv(c, f) /\ SearchInv(c, f, st, anc)
      /\ ResolvedInv(c, f, st, res)
  BY DEF LinkOK
<1>6. /\ cur \in 1..n /\ s # <<>> /\ \A i \in 1..n : s[i].dfs <= f.dfs
      /\ \A i \in (cur + 1)..n : s[i].parent >= cur
  BY <1>4, <1>5 DEF PlaceInv, Searching
<1>7. s[cur].node <= Arity(c, s[cur].m) + 1
  BY <1>5, <1>6 DEF TreeInv
<1>8. \A i \in 1..n : ItemInv(c, s, cur, st, anc, i)
  BY <1>4, <1>5 DEF SearchInv
<1>9. \A x \in 1..Arity(c, s[cur].m) : st[Goals(c, s[cur].m)[x]] # "error"
  <2>1. DoneNodes(c, f, cur) = 1..Arity(c, s[cur].m)
    BY DEF DoneNodes
  <2>. QED
    BY <1>5, <1>6, <2>1 DEF ResolvedInv
<1>. QED
  BY <1>1, <1>2, <1>3, <1>4, <1>5, <1>6, <1>7, <1>8, <1>9

\* The find loop lowers the ancestor index of the current module.
LEMMA LowerOK ==
  ASSUME NEW c, NEW f, NEW st, NEW anc, NEW res, LinkTypes(c, f, st, anc),
         LinkOK(c, f, st, anc, res), f.pc = "find",
         NEW m, NEW b, NEW low, Lowers(c, f, st, anc, m, b, low),
         NEW anc1, Put(anc, m, low, anc1)
  PROVE  /\ low \in Nat /\ low <= anc[m] /\ anc1 \in [Modules -> Nat]
         /\ \A i \in 1..Len(f.stack) : ItemInv(c, f.stack, f.cur, st, anc1, i)
         /\ Passed(c, f.stack, f.cur, st, b, low)
<1> DEFINE s == f.stack
           cur == f.cur
           n == Len(s)
<1>0. /\ c \in Programs /\ f \in LinkFrames /\ s \in Seq(StackItems) /\ n \in Nat
      /\ st \in [Modules -> States] /\ anc \in [Modules -> Nat]
      /\ \A i \in 1..n : s[i].m \in Modules /\ s[i].dfs \in Nat /\ s[i].node \in Nat \ {0} /\ s[i].parent \in Nat
      /\ cur \in 1..n /\ TreeInv(c, s) /\ Live(f) = n /\ StackInv(f, st)
  BY FindFacts
<1>l. /\ m = s[cur].m /\ b \in s[cur].node..(Arity(c, m) + 1)
      /\ \A x \in s[cur].node..(b - 1) : st[Goals(c, m)[x]] # "unlinked"
      /\ IsLowest(c, st, anc, m, s[cur].node, b, low)
  BY DEF Lowers
<1>2. /\ \A i \in 1..n : ItemInv(c, s, cur, st, anc, i)
      /\ \A x \in 1..Arity(c, s[cur].m) : st[Goals(c, s[cur].m)[x]] # "error"
  BY FindFacts
<1>t. \A k \in Modules : st[k] = "linking" <=> \E i \in 1..n : s[i].m = k
  BY <1>0 DEF StackInv
<1>u. /\ \A i, k \in 1..n : s[i].m = s[k].m => i = k
      /\ \A i, k \in 1..n : i < k => s[i].dfs < s[k].dfs
      /\ \A i \in 1..n : i # 1 => s[i].parent \in 1..(i - 1)
  BY <1>0 DEF TreeInv
<1>v. n = Len(s)
  OBVIOUS
<1>. HIDE DEF s, cur, n
<1>1. m \in Modules /\ Arity(c, m) \in Nat /\ Goals(c, m) \in [1..Arity(c, m) -> Modules] /\ m = s[cur].m
  <2>1. m \in Modules /\ m = s[cur].m
    BY <1>0, <1>l
  <2>. QED
    BY <1>0, <2>1, GoalFacts
<1>3. \A x \in s[cur].node..(b - 1) : x \in 1..Arity(c, m) /\ Goals(c, m)[x] \in Modules
  BY <1>0, <1>1, <1>l
<1>4. low \in Nat /\ low <= anc[m]
  <2>1. \A x \in s[cur].node..(b - 1) : anc[Goals(c, m)[x]] \in Nat
    BY <1>0, <1>3
  <2>. QED
    BY <1>0, <1>1, <1>l, <2>1 DEF IsLowest
<1>a. /\ anc1 \in [Modules -> Nat] /\ anc1[m] = low
      /\ \A k \in Modules : k # m => anc1[k] = anc[k]
  BY <1>0, <1>1, <1>4 DEF Put
<1>5. \A i, k \in 1..n : s[i].m = s[k].m => i = k
  BY <1>u
<1>6. \A i \in 1..n : s[i].dfs <= s[cur].dfs => i <= cur
  <2>. SUFFICES ASSUME NEW i \in 1..n, s[i].dfs <= s[cur].dfs, i > cur PROVE FALSE
    BY <1>0
  <2>1. s[cur].dfs < s[i].dfs
    BY <1>0, <1>u
  <2>2. s[cur].dfs \in Nat /\ s[i].dfs \in Nat
    BY <1>0
  <2>. QED
    BY <2>1, <2>2
<1>7. \A x \in s[cur].node..(b - 1) : st[Goals(c, m)[x]] \in Complete \cup {"linking"}
  <2>. SUFFICES ASSUME NEW x \in s[cur].node..(b - 1)
                PROVE  st[Goals(c, m)[x]] \in Complete \cup {"linking"}
    OBVIOUS
  <2>1. st[Goals(c, m)[x]] # "error" /\ st[Goals(c, m)[x]] # "unlinked" /\ st[Goals(c, m)[x]] \in States
    BY <1>0, <1>1, <1>2, <1>3, <1>l
  <2>. QED
    BY <2>1 DEF States, Complete
<1>8. Active(s, cur, cur)
  BY <1>0 DEF Active
<1>9. Passed(c, s, cur, st, b, low)
  <2>1. ASSUME NEW x \in 1..(s[cur].node - 1)
        PROVE  /\ st[Goals(c, m)[x]] \in Complete \cup {"linking"}
               /\ \A k \in 1..n : s[k].m = Goals(c, m)[x] => anc[m] <= s[k].dfs
    <3>1. ItemInv(c, s, cur, st, anc, cur) /\ x \in Examined(c, s, cur, cur)
      BY <1>0, <1>2, <1>8 DEF Examined
    <3>. QED
      BY <1>1, <1>v, <3>1 DEF ItemInv
  <2>2. ASSUME NEW x \in s[cur].node..(b - 1), NEW k \in 1..n, s[k].m = Goals(c, m)[x]
        PROVE  low <= s[k].dfs
    <3>1. st[Goals(c, m)[x]] = "linking" /\ Goals(c, m)[x] \in Modules
      BY <1>3, <1>t, <2>2
    <3>2. low <= anc[s[k].m]
      BY <1>l, <2>2, <3>1 DEF IsLowest
    <3>3. anc[s[k].m] <= s[k].dfs
      BY <1>2 DEF ItemInv
    <3>4. anc[s[k].m] \in Nat /\ s[k].dfs \in Nat
      BY <1>0
    <3>. QED
      BY <1>4, <3>2, <3>3, <3>4
  <2>3. \A x \in 1..(b - 1) : x \in 1..(s[cur].node - 1) \/ x \in s[cur].node..(b - 1)
    <3>1. s[cur].node \in Nat /\ b \in Int
      BY <1>0, <1>1, <1>l
    <3>. QED
      BY <3>1
  <2>4. ASSUME NEW x \in 1..(s[cur].node - 1), NEW k \in 1..n, s[k].m = Goals(c, m)[x]
        PROVE  low <= s[k].dfs
    <3>1. anc[m] <= s[k].dfs /\ anc[m] \in Nat /\ s[k].dfs \in Nat
      BY <1>0, <1>1, <2>1, <2>4
    <3>. QED
      BY <1>4, <3>1
  <2>. QED
    BY <1>1, <1>7, <1>v, <2>1, <2>2, <2>3, <2>4 DEF Passed
<1>10. ASSUME NEW i \in 1..n PROVE ItemInv(c, s, cur, st, anc1, i)
  <2>0. ItemInv(c, s, cur, st, anc, i) /\ s[i].m \in Modules /\ s[i].dfs \in Nat
    BY <1>0, <1>2
  <2>1. CASE i = cur
    <3>1. anc1[s[i].m] = low /\ low <= s[i].dfs
      <4>1. anc[m] <= s[cur].dfs /\ anc[m] \in Nat
        BY <1>0, <1>1, <1>2 DEF ItemInv
      <4>. QED
        BY <1>0, <1>1, <1>4, <1>a, <2>1, <4>1
    <3>2. Examined(c, s, cur, i) \subseteq 1..(b - 1)
      <4>1. Examined(c, s, cur, i) = 1..(s[cur].node - 1)
        BY <1>8, <2>1 DEF Examined
      <4>2. s[cur].node \in Nat /\ b \in Int /\ s[cur].node <= b
        BY <1>0, <1>1, <1>l
      <4>. QED
        BY <4>1, <4>2
    <3>3. \A x \in Examined(c, s, cur, i) :
             /\ st[Goals(c, s[i].m)[x]] \in Complete \cup {"linking"}
             /\ \A k \in 1..Len(s) : s[k].m = Goals(c, s[i].m)[x] => anc1[s[i].m] <= s[k].dfs
      BY <1>9, <2>1, <3>1, <3>2 DEF Passed
    <3>4. \E k \in 1..i : s[k].dfs = low /\ Leads(c, s[i].m, s[k].m, LinkingIn(st))
      <4>1. CASE low = anc[m]
        BY <1>1, <2>0, <2>1, <4>1 DEF ItemInv
      <4>2. CASE low # anc[m]
        <5>1. PICK x \in s[cur].node..(b - 1) :
                st[Goals(c, m)[x]] = "linking" /\ low = anc[Goals(c, m)[x]]
          BY <1>l, <4>2 DEF IsLowest
        <5> DEFINE t == Goals(c, m)[x]
        <5>2. t \in Modules /\ t \in Succ(c, m) /\ t \in LinkingIn(st)
          BY <1>3, <5>1 DEF Succ, LinkingIn
        <5>3. PICK k \in 1..n : s[k].m = t
          BY <1>t, <5>1, <5>2
        <5>4. PICK h \in 1..k : s[h].dfs = anc[t] /\ Leads(c, t, s[h].m, LinkingIn(st))
          BY <1>2, <5>3 DEF ItemInv
        <5>5. h \in 1..n
          BY <1>0
        <5>6. s[h].dfs = low /\ s[h].dfs <= s[cur].dfs
          BY <2>1, <3>1, <5>1, <5>4
        <5>7. h \in 1..i
          BY <1>0, <1>6, <2>1, <5>5, <5>6
        <5>8. Leads(c, m, t, LinkingIn(st))
          BY <5>2, LeadsStep
        <5>9. Leads(c, m, s[h].m, LinkingIn(st))
          BY <5>4, <5>8, LeadsOn
        <5>. QED
          BY <1>1, <2>1, <5>6, <5>7, <5>9
      <4>. QED
        BY <4>1, <4>2
    <3>5. Active(s, cur, i)
      BY <1>8, <2>1
    <3>. QED
      BY <3>1, <3>3, <3>4, <3>5 DEF ItemInv
  <2>2. CASE i # cur
    <3>1. s[i].m # m /\ anc1[s[i].m] = anc[s[i].m]
      BY <1>0, <1>1, <1>5, <1>a, <2>0, <2>2
    <3>2. ~ Active(s, cur, i) => anc1[s[s[i].parent].m] <= anc1[s[i].m]
      <4>. SUFFICES ASSUME ~ Active(s, cur, i) PROVE anc1[s[s[i].parent].m] <= anc1[s[i].m]
        OBVIOUS
      <4>1. anc[s[s[i].parent].m] <= anc[s[i].m]
        BY <2>0 DEF ItemInv
      <4>2. i # 1
        <5>1. \A k \in (1 + 1)..cur : s[k].parent >= 1
          <6>1. \A k \in (1 + 1)..cur : k \in 1..n /\ k # 1
            BY <1>0
          <6>. QED
            BY <1>u, <6>1
        <5>. QED
          BY <1>0, <5>1 DEF Active
      <4>3. s[i].parent \in 1..(i - 1)
        BY <1>u, <4>2
      <4>4. s[i].parent \in 1..n
        BY <1>0, <4>3
      <4>5. \A k \in Modules : anc1[k] \in Nat /\ anc[k] \in Nat /\ anc1[k] <= anc[k]
        <5>. SUFFICES ASSUME NEW k \in Modules
                      PROVE  anc1[k] \in Nat /\ anc[k] \in Nat /\ anc1[k] <= anc[k]
          OBVIOUS
        <5>1. anc1[k] \in Nat /\ anc[k] \in Nat
          BY <1>0, <1>a
        <5>2. k = m \/ anc1[k] = anc[k]
          BY <1>a
        <5>. QED
          BY <1>4, <1>a, <5>1, <5>2
      <4>6. s[s[i].parent].m \in Modules
        BY <1>0, <4>4
      <4>7. anc1[s[s[i].parent].m] \in Nat /\ anc[s[s[i].parent].m] \in Nat /\ anc[s[i].m] \in Nat
            /\ anc1[s[s[i].parent].m] <= anc[s[s[i].parent].m]
        BY <2>0, <4>5, <4>6
      <4>. QED
        BY <3>1, <4>1, <4>7
    <3>. QED
      BY <2>0, <3>1, <3>2 DEF ItemInv
  <2>. QED
    BY <2>1, <2>2
<1>. QED
  BY <1>4, <1>a, <1>9, <1>10 DEF s, cur, n

\* The module m is put on the stack, the node b of the current item being the one
\* that names it.
Pushed(f, g, b, m) ==
  /\ g.pc = "resolve" /\ g.dfs = f.dfs + 1 /\ g.cur = Len(f.stack) + 1 /\ g.it = 1
  /\ g.stack = Append([f.stack EXCEPT ![f.cur].node = b + 1],
                      [m |-> m, node |-> 1, dfs |-> f.dfs + 1, parent |-> f.cur])

\* The stack with the item that is pushed.
LEMMA PushedStack ==
  ASSUME NEW f \in LinkFrames, f.cur \in 1..Len(f.stack), NEW b \in Nat, NEW m \in Modules,
         NEW g, Pushed(f, g, b, m)
  PROVE  LET s == f.stack
             t == g.stack
             n == Len(f.stack)
         IN /\ t \in Seq(StackItems) /\ Len(t) = n + 1
            /\ \A i \in 1..n :
                 /\ t[i].m = s[i].m /\ t[i].dfs = s[i].dfs /\ t[i].parent = s[i].parent
                 /\ t[i].node = IF i = f.cur THEN b + 1 ELSE s[i].node
            /\ t[n + 1].m = m /\ t[n + 1].dfs = f.dfs + 1 /\ t[n + 1].parent = f.cur
            /\ t[n + 1].node = 1 /\ f.dfs + 1 \in Nat
<1> DEFINE s == f.stack
           cur == f.cur
           n == Len(s)
           d == f.dfs + 1
           e == [m |-> m, node |-> 1, dfs |-> d, parent |-> cur]
           r == [s[cur] EXCEPT !.node = b + 1]
           q == [s EXCEPT ![cur] = r]
           t == g.stack
<1>0. s \in Seq(StackItems) /\ n \in Nat /\ cur \in 1..n /\ cur \in Nat /\ s[cur] \in StackItems /\ f.dfs \in Nat
  BY LinkFields
<1>1. d \in Nat /\ b + 1 \in Nat \ {0}
  BY <1>0
<1>2. t = Append(q, e)
  BY DEF Pushed
<1>. HIDE DEF s, cur, n, d, t
<1>3. e \in StackItems
  BY <1>0, <1>1 DEF StackItems
<1>4. r \in StackItems
  BY <1>0, <1>1 DEF StackItems
<1>5. r.m = s[cur].m /\ r.dfs = s[cur].dfs /\ r.parent = s[cur].parent /\ r.node = b + 1
  BY <1>0 DEF StackItems
<1>6. e.m = m /\ e.dfs = d /\ e.parent = cur /\ e.node = 1
  OBVIOUS
<1>. HIDE DEF e, r
<1>7. q \in Seq(StackItems) /\ Len(q) = n /\ \A i \in 1..n : q[i] = IF i = cur THEN r ELSE s[i]
  BY <1>0, <1>4 DEF n
<1>. HIDE DEF q
<1>8. t \in Seq(StackItems) /\ Len(t) = n + 1 /\ t[n + 1] = e /\ \A i \in 1..n : t[i] = q[i]
  <2>1. /\ Append(q, e) \in Seq(StackItems) /\ Len(Append(q, e)) = Len(q) + 1
        /\ \A i \in 1..Len(q) : Append(q, e)[i] = q[i]
        /\ Append(q, e)[Len(q) + 1] = e
    BY <1>3, <1>7, AppendProperties
  <2>. QED
    BY <1>2, <1>7, <2>1
<1>9. \A i \in 1..n : /\ t[i].m = s[i].m /\ t[i].dfs = s[i].dfs /\ t[i].parent = s[i].parent
                     /\ t[i].node = IF i = cur THEN b + 1 ELSE s[i].node
  BY <1>5, <1>7, <1>8
<1>. QED
  BY <1>1, <1>6, <1>8, <1>9 DEF s, cur, n, d, t

\* The indexes when the search goes from m0 on to m.
Visited(anc, m0, low, m, f, anc1) == anc1 = [anc EXCEPT ![m0] = low, ![m] = f.dfs + 1]

\* The find loop of m0 has come to node b, which names m.
ComesTo(c, f, st, anc, m0, b, low, m) ==
  /\ Lowers(c, f, st, anc, m0, b, low) /\ b <= Arity(c, m0)
  /\ m = Goals(c, m0)[b] /\ st[m] = "unlinked"

\* The find loop comes to an unlinked module: it becomes the last item of the
\* stack, and the current one.
LEMMA VisitOK ==
  ASSUME NEW c, NEW f, NEW st, NEW anc, NEW res, LinkTypes(c, f, st, anc),
         LinkOK(c, f, st, anc, res), f.pc = "find",
         NEW m0, NEW b, NEW low, NEW m, ComesTo(c, f, st, anc, m0, b, low, m),
         NEW st1, Put(st, m, "linking", st1),
         NEW anc2, Visited(anc, m0, low, m, f, anc2),
         NEW g \in LinkFrames, Pushed(f, g, b, m)
  PROVE  low \in Nat /\ low <= anc[m0] /\ LinkOK(c, g, st1, anc2, res)
<1> DEFINE s == f.stack
           cur == f.cur
           n == Len(s)
           s1 == g.stack
           d == f.dfs + 1
           anc1 == [anc EXCEPT ![m0] = low]
<1>0. /\ c \in Programs /\ f \in LinkFrames /\ s \in Seq(StackItems) /\ n \in Nat
      /\ st \in [Modules -> States] /\ anc \in [Modules -> Nat] /\ f.dfs \in Nat
      /\ \A i \in 1..n : s[i].m \in Modules /\ s[i].dfs \in Nat /\ s[i].node \in Nat \ {0} /\ s[i].parent \in Nat
      /\ cur \in 1..n /\ TreeInv(c, s) /\ Live(f) = n /\ StackInv(f, st)
      /\ \A i \in 1..n : s[i].dfs <= f.dfs
      /\ \A i \in (cur + 1)..n : s[i].parent >= cur
  BY FindFacts, ZenonT(60)
<1>1. /\ m0 \in Modules /\ Arity(c, m0) \in Nat /\ Goals(c, m0) \in [1..Arity(c, m0) -> Modules] /\ m0 = s[cur].m
      /\ b \in 1..Arity(c, m0) /\ b \in s[cur].node..(Arity(c, m0) + 1)
      /\ m = Goals(c, m0)[b] /\ st[m] = "unlinked" /\ Lowers(c, f, st, anc, m0, b, low)
  <2>1. /\ m0 = s[cur].m /\ b \in s[cur].node..(Arity(c, m0) + 1) /\ b <= Arity(c, m0)
        /\ m = Goals(c, m0)[b] /\ st[m] = "unlinked" /\ Lowers(c, f, st, anc, m0, b, low)
    BY DEF ComesTo, Lowers
  <2>. HIDE DEF s, cur, n
  <2>2. m0 \in Modules /\ s[cur].node \in Nat \ {0}
    BY <1>0, <2>1
  <2>3. Arity(c, m0) \in Nat /\ Goals(c, m0) \in [1..Arity(c, m0) -> Modules]
    BY <1>0, <2>2, GoalFacts
  <2>4. b \in 1..Arity(c, m0)
    <3>1. b \in Int /\ b >= 1 /\ b <= Arity(c, m0)
      BY <2>1, <2>2, <2>3
    <3>. QED
      BY <2>3, <3>1
  <2>. QED
    BY <2>1, <2>2, <2>3, <2>4, Zenon
<1>t. \A k \in Modules : st[k] = "linking" <=> \E i \in 1..n : s[i].m = k
  BY <1>0 DEF StackInv
<1>2. m \in Modules /\ m \in Succ(c, m0) /\ \A i \in 1..n : s[i].m # m
  <2>. HIDE DEF s, cur, n
  <2>1. m \in Modules /\ m \in Succ(c, m0)
    BY <1>1 DEF Succ
  <2>2. st[m] # "linking"
    BY <1>1, SMTT(60)
  <2>. QED
    BY <1>t, <2>1, <2>2
<1>3. /\ low \in Nat /\ low <= anc[m0] /\ anc1 \in [Modules -> Nat]
      /\ \A i \in 1..n : ItemInv(c, s, cur, st, anc1, i)
      /\ Passed(c, s, cur, st, b, low)
  <2>1. Put(anc, m0, low, anc1)
    BY DEF Put
  <2>. HIDE DEF anc1
  <2>. QED
    BY <1>1, <2>1, LowerOK
<1>p. /\ s1 \in Seq(StackItems) /\ Len(s1) = n + 1
      /\ \A i \in 1..n :
           /\ s1[i].m = s[i].m /\ s1[i].dfs = s[i].dfs /\ s1[i].parent = s[i].parent
           /\ s1[i].node = IF i = cur THEN b + 1 ELSE s[i].node
      /\ s1[n + 1].m = m /\ s1[n + 1].dfs = d /\ s1[n + 1].parent = cur
      /\ s1[n + 1].node = 1 /\ d \in Nat
  <2>1. b \in Nat
    <3>. HIDE DEF s, cur, n
    <3>. QED
      BY <1>1
  <2>. QED
    BY <1>0, <1>2, <2>1, PushedStack
<1>4. s1 \in Seq(StackItems) /\ Len(s1) = n + 1
  BY <1>p
<1>5. ASSUME NEW i \in 1..n
      PROVE  /\ s1[i].m = s[i].m /\ s1[i].dfs = s[i].dfs /\ s1[i].parent = s[i].parent
             /\ s1[i].node = IF i = cur THEN b + 1 ELSE s[i].node
  BY <1>p
<1>6. /\ s1[n + 1].m = m /\ s1[n + 1].dfs = d /\ s1[n + 1].parent = cur /\ s1[n + 1].node = 1
      /\ d \in Nat
  BY <1>p
<1>7. \A i \in 1..Len(s1) : i \in 1..n \/ i = n + 1
  BY <1>0, <1>4
<1>. HIDE DEF s, cur, n, s1, d, anc1
<1>8. StackInv(g, st1)
  <2>1. \A k \in Modules : st[k] = "linking" <=> \E i \in 1..n : s[i].m = k
    BY <1>0 DEF StackInv, s, n
  <2>2. ASSUME NEW k \in Modules
        PROVE  st1[k] = "linking" <=> \E i \in 1..Len(s1) : s1[i].m = k
    <3>1. \A i \in 1..n : i \in 1..Len(s1)
      BY <1>0, <1>4
    <3>2. n + 1 \in 1..Len(s1)
      BY <1>0, <1>4
    <3>3. st1[k] = "linking" <=> k = m \/ st[k] = "linking"
      BY <1>0 DEF Put
    <3>4. (\E i \in 1..n : s[i].m = k) <=> \E i \in 1..n : s1[i].m = k
      BY <1>5
    <3>. QED
      BY <1>6, <1>7, <2>1, <3>1, <3>2, <3>3, <3>4
  <2>. QED
    BY <2>2 DEF StackInv, s1
<1>9. TreeInv(c, s1)
  <2>1. \A i, k \in 1..n : s[i].m = s[k].m => i = k
    BY <1>0 DEF TreeInv, n
  <2>2. \A i, k \in 1..n : i < k => s[i].dfs < s[k].dfs
    BY <1>0 DEF TreeInv, n
  <2>3. \A i \in 1..n : /\ s[i].node <= Arity(c, s[i].m) + 1
                        /\ i = 1 => s[i].parent = 0
                        /\ i # 1 => s[i].parent \in 1..(i - 1) /\ s[i].m \in Succ(c, s[s[i].parent].m)
    BY <1>0 DEF TreeInv, n
  <2>4. \A i, k \in 1..n : s[k].parent < i /\ i < k => s[i].parent >= s[k].parent
    BY <1>0 DEF TreeInv, n
  <2>5. \A i, k \in 1..Len(s1) : s1[i].m = s1[k].m => i = k
    BY <1>2, <1>5, <1>6, <1>7, <2>1
  <2>6. ASSUME NEW i \in 1..Len(s1), NEW k \in 1..Len(s1), i < k PROVE s1[i].dfs < s1[k].dfs
    <3>1. i \in 1..n
      BY <1>0, <1>4, <2>6
    <3>2. CASE k \in 1..n
      BY <1>5, <2>2, <2>6, <3>1, <3>2
    <3>3. CASE k = n + 1
      <4>1. s1[i].dfs = s[i].dfs /\ s[i].dfs \in Nat /\ s[i].dfs <= f.dfs /\ s1[k].dfs = f.dfs + 1
        BY <1>0, <1>5, <1>6, <3>1, <3>3 DEF d
      <4>. QED
        BY <1>0, <4>1
    <3>. QED
      BY <1>7, <3>2, <3>3
  <2>7. ASSUME NEW i \in 1..Len(s1)
        PROVE  /\ s1[i].node <= Arity(c, s1[i].m) + 1
               /\ i = 1 => s1[i].parent = 0
               /\ i # 1 => s1[i].parent \in 1..(i - 1) /\ s1[i].m \in Succ(c, s1[s1[i].parent].m)
    <3>1. CASE i = n + 1
      <4>1. s1[cur].m = m0 /\ Arity(c, m) \in Nat
        BY <1>0, <1>1, <1>2, <1>5, GoalFacts
      <4>2. s1[i].node = 1 /\ s1[i].m = m /\ s1[i].parent = cur
        BY <1>6, <3>1
      <4>3. i # 1 /\ cur \in 1..(i - 1)
        BY <1>0, <3>1
      <4>4. 1 <= Arity(c, m) + 1
        BY <4>1
      <4>. QED
        BY <1>2, <4>1, <4>2, <4>3, <4>4
    <3>2. CASE i \in 1..n
      <4>1. s1[i].node <= Arity(c, s1[i].m) + 1
        <5>1. CASE i = cur
          <6>1. s1[i].node = b + 1 /\ s1[i].m = m0
            BY <1>1, <1>5, <3>2, <5>1
          <6>. QED
            BY <1>1, <6>1
        <5>2. CASE i # cur
          BY <1>5, <2>3, <3>2, <5>2
        <5>. QED
          BY <5>1, <5>2
      <4>2. i = 1 => s1[i].parent = 0
        BY <1>5, <2>3, <3>2
      <4>3. ASSUME i # 1
            PROVE s1[i].parent \in 1..(i - 1) /\ s1[i].m \in Succ(c, s1[s1[i].parent].m)
        <5>1. s[i].parent \in 1..(i - 1) /\ s[i].m \in Succ(c, s[s[i].parent].m)
          BY <2>3, <3>2, <4>3
        <5>2. s[i].parent \in 1..n
          BY <1>0, <3>2, <5>1
        <5>. QED
          BY <1>5, <3>2, <5>1, <5>2
      <4>. QED
        BY <4>1, <4>2, <4>3
    <3>. QED
      BY <1>7, <3>1, <3>2
  <2>8. ASSUME NEW i \in 1..Len(s1), NEW k \in 1..Len(s1), s1[k].parent < i, i < k
        PROVE  s1[i].parent >= s1[k].parent
    <3>1. i \in 1..n
      BY <1>0, <1>4, <2>8
    <3>2. CASE k \in 1..n
      BY <1>5, <2>4, <2>8, <3>1, <3>2
    <3>3. CASE k = n + 1
      <4>1. s1[k].parent = cur /\ s1[i].parent = s[i].parent
        BY <1>5, <1>6, <3>1, <3>3
      <4>2. i \in (cur + 1)..n
        BY <1>0, <2>8, <3>1, <4>1
      <4>. QED
        BY <1>0, <4>1, <4>2
    <3>. QED
      BY <1>7, <3>2, <3>3
  <2>. QED
    BY <2>5, <2>6, <2>7, <2>8 DEF TreeInv
<1>10. g.stack = s1 /\ g.cur = n + 1 /\ g.dfs = d /\ g.it = 1 /\ Live(g) = n + 1
  BY <1>4 DEF s1, n, d, s, Live, Searching, Pushed
<1>11. PlaceInv(c, g)
  <2>1. s1 # <<>> /\ n + 1 \in 1..Len(s1) /\ Arity(c, m) \in Nat
    BY <1>0, <1>2, <1>4, GoalFacts
  <2>2. \A i \in 1..Len(s1) : s1[i].dfs <= d
    <3>1. \A i \in 1..n : s1[i].dfs <= d
      <4>1. \A i \in 1..n : s1[i].dfs \in Nat /\ s1[i].dfs <= f.dfs
        BY <1>0, <1>5
      <4>. QED
        BY <1>0, <4>1 DEF d
    <3>2. s1[n + 1].dfs <= d
      BY <1>6
    <3>. QED
      BY <1>7, <3>1, <3>2
  <2>3. 1 \in 1..(Arity(c, m) + 1)
    BY <2>1
  <2>4. (n + 1 + 1)..(n + 1) = {}
    BY <1>0
  <2>5. g.pc = "resolve"
    BY DEF Pushed
  <2>. QED
    BY <1>4, <1>6, <1>10, <2>1, <2>2, <2>3, <2>4, <2>5 DEF PlaceInv, Searching, Closing
<1>12. \A i \in 1..n : Active(s1, n + 1, i) <=> Active(s, cur, i)
  <2>. SUFFICES ASSUME NEW i \in 1..n PROVE Active(s1, n + 1, i) <=> Active(s, cur, i)
    OBVIOUS
  <2>1. ASSUME Active(s1, n + 1, i) PROVE Active(s, cur, i)
    <3>1. n + 1 \in (i + 1)..(n + 1)
      BY <1>0
    <3>2. cur >= i
      BY <1>6, <2>1, <3>1 DEF Active
    <3>3. ASSUME NEW k \in (i + 1)..cur PROVE s[k].parent >= i
      <4>1. k \in 1..n /\ k \in (i + 1)..(n + 1)
        BY <1>0
      <4>. QED
        BY <1>5, <2>1, <4>1 DEF Active
    <3>. QED
      BY <1>0, <3>2, <3>3 DEF Active
  <2>2. ASSUME Active(s, cur, i) PROVE Active(s1, n + 1, i)
    <3>1. i <= cur /\ \A k \in (i + 1)..cur : s[k].parent >= i
      BY <2>2 DEF Active
    <3>2. ASSUME NEW k \in (i + 1)..(n + 1) PROVE s1[k].parent >= i
      <4>1. CASE k = n + 1
        BY <1>0, <1>6, <3>1, <4>1
      <4>2. CASE k # n + 1
        <5>1. k \in 1..n /\ s1[k].parent = s[k].parent /\ s[k].parent \in Nat
          <6>1. k \in 1..n
            <7>1. n \in Nat
              BY <1>0
            <7>. QED
              BY <4>2, <7>1
          <6>. QED
            BY <1>0, <1>5, <6>1
        <5>2. k \in (i + 1)..cur \/ k \in (cur + 1)..n
          BY <1>0, <5>1
        <5>. QED
          BY <1>0, <3>1, <5>1, <5>2
      <4>. QED
        BY <4>1, <4>2
    <3>. QED
      BY <1>0, <3>2 DEF Active
  <2>. QED
    BY <2>1, <2>2
<1>13. LinkingIn(st) \subseteq LinkingIn(st1)
  BY <1>0 DEF LinkingIn, Put
<1>14. \A k \in Modules : /\ st[k] \in Complete \cup {"linking"} => st1[k] \in Complete \cup {"linking"} /\ k # m
                          /\ st[k] # "error" => st1[k] # "error"
                          /\ k # m => anc2[k] = anc1[k]
  BY <1>0, <1>1, <1>2, <1>3 DEF Complete, anc1, Put, Visited
<1>15. anc2[m] = d /\ anc1[m0] = low /\ st1[m] = "linking" /\ m # m0
  BY <1>0, <1>1, <1>2 DEF anc1, d, Put, Visited
<1>16. ASSUME NEW i \in 1..n, NEW x \in Examined(c, s, cur, i)
       PROVE x \in 1..Arity(c, s[i].m) /\ Goals(c, s[i].m)[x] \in Modules
  <2>1. s[i].node <= Arity(c, s[i].m) + 1 /\ s[i].node \in Nat /\ s[i].m \in Modules
    BY <1>0 DEF TreeInv, n
  <2>2. Arity(c, s[i].m) \in Nat /\ Goals(c, s[i].m) \in [1..Arity(c, s[i].m) -> Modules]
    BY <1>0, <2>1, GoalFacts
  <2>3. x \in 1..Arity(c, s[i].m)
    BY <2>1, <2>2 DEF Examined
  <2>. QED
    BY <2>2, <2>3
<1>17. ASSUME NEW i \in 1..n PROVE ItemInv(c, s1, n + 1, st1, anc2, i)
  <2>0. ItemInv(c, s, cur, st, anc1, i) /\ s[i].m \in Modules /\ s1[i].m = s[i].m /\ s1[i].dfs = s[i].dfs
        /\ anc2[s[i].m] = anc1[s[i].m] /\ s1[i].parent = s[i].parent
    BY <1>0, <1>2, <1>3, <1>5, <1>14
  <2>1. anc2[s1[i].m] <= s1[i].dfs
    BY <2>0 DEF ItemInv
  <2>2. ASSUME ~ Active(s1, n + 1, i)
        PROVE anc2[s1[i].m] < s1[i].dfs /\ anc2[s1[s1[i].parent].m] <= anc2[s1[i].m]
    <3>1. ~ Active(s, cur, i)
      BY <1>12, <2>2
    <3>2. i # 1
      <4>1. \A k \in (1 + 1)..cur : s[k].parent >= 1
        BY <1>0 DEF TreeInv, n
      <4>. QED
        BY <1>0, <3>1, <4>1 DEF Active
    <3>3. s[i].parent \in 1..(i - 1)
      BY <1>0, <3>2 DEF TreeInv, n
    <3>4. s[i].parent \in 1..n
      BY <1>0, <3>3
    <3>5. s1[s[i].parent].m = s[s[i].parent].m /\ anc2[s[s[i].parent].m] = anc1[s[s[i].parent].m]
      BY <1>0, <1>2, <1>5, <1>14, <3>4
    <3>6. anc1[s[i].m] < s[i].dfs /\ anc1[s[s[i].parent].m] <= anc1[s[i].m]
      BY <2>0, <3>1 DEF ItemInv
    <3>. QED
      BY <2>0, <3>5, <3>6
  <2>3. \E k \in 1..i : s1[k].dfs = anc2[s1[i].m] /\ Leads(c, s1[i].m, s1[k].m, LinkingIn(st1))
    <3>1. PICK k \in 1..i : s[k].dfs = anc1[s[i].m] /\ Leads(c, s[i].m, s[k].m, LinkingIn(st))
      BY <2>0 DEF ItemInv
    <3>2. k \in 1..n
      BY <1>0
    <3>3. Leads(c, s[i].m, s[k].m, LinkingIn(st1))
      BY <1>13, <3>1, LeadsMore
    <3>4. s1[k].dfs = s[k].dfs /\ s1[k].m = s[k].m
      BY <1>5, <3>2
    <3>. QED
      BY <2>0, <3>1, <3>3, <3>4
  <2>4. ASSUME NEW x \in Examined(c, s1, n + 1, i)
        PROVE  /\ st1[Goals(c, s1[i].m)[x]] \in Complete \cup {"linking"}
               /\ \A k \in 1..Len(s1) : s1[k].m = Goals(c, s1[i].m)[x] => anc2[s1[i].m] <= s1[k].dfs
    <3>1. CASE x \in Examined(c, s, cur, i)
      <4>1. /\ st[Goals(c, s[i].m)[x]] \in Complete \cup {"linking"}
            /\ \A k \in 1..n : s[k].m = Goals(c, s[i].m)[x] => anc1[s[i].m] <= s[k].dfs
        BY <2>0, <3>1 DEF ItemInv, n
      <4>2. Goals(c, s[i].m)[x] \in Modules
        BY <1>16, <3>1
      <4>3. st1[Goals(c, s[i].m)[x]] \in Complete \cup {"linking"} /\ Goals(c, s[i].m)[x] # m
        BY <1>14, <4>1, <4>2
      <4>. QED
        BY <1>5, <1>6, <1>7, <2>0, <4>1, <4>3
    <3>2. CASE i = cur
      <4>1. s[i].m = m0 /\ Active(s1, n + 1, i)
        <5>1. Active(s, cur, cur)
          BY <1>0 DEF Active
        <5>. QED
          BY <1>1, <1>12, <3>2, <5>1
      <4>2. s1[i].node = b + 1
        BY <1>5, <3>2
      <4>3. x \in 1..b
        BY <1>1, <4>1, <4>2 DEF Examined
      <4>4. CASE x = b
        <5>1. low <= s[cur].dfs /\ s[cur].dfs <= f.dfs /\ s[cur].dfs \in Nat
          BY <1>0, <1>15, <2>0, <3>2, <4>1 DEF ItemInv
        <5>2. low <= d
          BY <1>0, <1>3, <5>1 DEF d
        <5>3. Goals(c, s1[i].m)[x] = m /\ anc2[s1[i].m] = low
          BY <1>1, <1>15, <2>0, <4>1, <4>4
        <5>4. \A k \in 1..Len(s1) : s1[k].m = m => low <= s1[k].dfs
          BY <1>2, <1>5, <1>6, <1>7, <5>2
        <5>. QED
          BY <1>15, <5>3, <5>4
      <4>5. CASE x # b
        <5>1. x \in 1..(b - 1)
          BY <1>1, <4>3, <4>5
        <5>2. /\ st[Goals(c, m0)[x]] \in Complete \cup {"linking"}
              /\ \A k \in 1..n : s[k].m = Goals(c, m0)[x] => low <= s[k].dfs
          BY <1>1, <1>3, <5>1 DEF Passed, n
        <5>3. Goals(c, m0)[x] \in Modules
          BY <1>1, <5>1
        <5>4. st1[Goals(c, m0)[x]] \in Complete \cup {"linking"} /\ Goals(c, m0)[x] # m
          BY <1>14, <5>2, <5>3
        <5>5. s1[i].m = m0 /\ anc2[s1[i].m] = low
          BY <1>15, <2>0, <4>1
        <5>6. \A k \in 1..Len(s1) : s1[k].m = Goals(c, m0)[x] => low <= s1[k].dfs
          BY <1>5, <1>6, <1>7, <5>2, <5>4
        <5>. QED
          BY <5>4, <5>5, <5>6
      <4>. QED
        BY <4>4, <4>5
    <3>3. i # cur => x \in Examined(c, s, cur, i)
      BY <1>5, <1>12, <2>0 DEF Examined
    <3>. QED
      BY <3>1, <3>2, <3>3
  <2>. QED
    BY <2>1, <2>2, <2>3, <2>4 DEF ItemInv
<1>18. ItemInv(c, s1, n + 1, st1, anc2, n + 1)
  <2>1. Active(s1, n + 1, n + 1)
    BY <1>0 DEF Active
  <2>2. Examined(c, s1, n + 1, n + 1) = {}
    BY <1>6, <2>1 DEF Examined
  <2>3. n + 1 \in 1..(n + 1)
    BY <1>0
  <2>4. anc2[s1[n + 1].m] <= s1[n + 1].dfs
    <3>1. d <= d
      BY <1>6
    <3>. QED
      BY <1>6, <1>15, <3>1
  <2>5. s1[n + 1].dfs = anc2[s1[n + 1].m] /\ Leads(c, s1[n + 1].m, s1[n + 1].m, LinkingIn(st1))
    BY <1>6, <1>15, LeadsSelf
  <2>. QED
    BY <2>1, <2>2, <2>3, <2>4, <2>5 DEF ItemInv
<1>19. SearchInv(c, g, st1, anc2)
  <2>1. \A i \in 1..(n + 1) : i \in 1..n \/ i = n + 1
    BY <1>0
  <2>2. \A i \in 1..(n + 1) : ItemInv(c, s1, n + 1, st1, anc2, i)
    BY <1>17, <1>18, <2>1
  <2>. QED
    BY <1>10, <2>2 DEF SearchInv
<1>20. ResolvedInv(c, g, st1, res)
  <2>1. ASSUME NEW i \in 1..n
        PROVE  /\ DoneNodes(c, g, i) \subseteq res[s1[i].m]
               /\ \A x \in DoneNodes(c, g, i) : st1[Goals(c, s1[i].m)[x]] # "error"
    <3>1. DoneNodes(c, f, i) = 1..Arity(c, s[i].m) /\ DoneNodes(c, g, i) = 1..Arity(c, s[i].m)
      BY <1>0, <1>5, <1>10 DEF DoneNodes, s
    <3>2. /\ DoneNodes(c, f, i) \subseteq res[s[i].m]
          /\ \A x \in DoneNodes(c, f, i) : st[Goals(c, s[i].m)[x]] # "error"
      BY DEF LinkOK, ResolvedInv, s, n
    <3>3. \A x \in 1..Arity(c, s[i].m) : Goals(c, s[i].m)[x] \in Modules
      <4>1. c \in Programs /\ s[i].m \in Modules
        BY <1>0
      <4>2. Goals(c, s[i].m) \in [1..Arity(c, s[i].m) -> Modules]
        BY <4>1, GoalFacts
      <4>. QED
        BY <4>2
    <3>. QED
      BY <1>5, <1>14, <3>1, <3>2, <3>3
  <2>2. DoneNodes(c, g, n + 1) = {}
    BY <1>10 DEF DoneNodes, Pushed
  <2>3. /\ DoneNodes(c, g, n + 1) \subseteq res[s1[n + 1].m]
        /\ \A x \in DoneNodes(c, g, n + 1) : st1[Goals(c, s1[n + 1].m)[x]] # "error"
    BY <2>2
  <2>4. \A i \in 1..Len(s1) :
          /\ DoneNodes(c, g, i) \subseteq res[s1[i].m]
          /\ \A x \in DoneNodes(c, g, i) : st1[Goals(c, s1[i].m)[x]] # "error"
    BY <1>7, <2>1, <2>3
  <2>. QED
    BY <1>10, <2>4 DEF ResolvedInv
<1>21. ComponentInv(c, g, st1)
  BY DEF ComponentInv, Closing, Pushed
<1>22. CountInv(g, st1)
  <2>1. StartedIn(st1) = StartedIn(st) \cup {m} /\ m \notin StartedIn(st)
    BY <1>0, <1>1, <1>2 DEF StartedIn, Put
  <2>2. Cardinality(StartedIn(st1)) = Cardinality(StartedIn(st)) + 1
    <3>1. IsFiniteSet(StartedIn(st))
      BY StartedFinite
    <3>. QED
      BY <2>1, <3>1, FS_AddElement
  <2>3. f.dfs + 1 <= Cardinality(StartedIn(st))
    BY DEF LinkOK, CountInv
  <2>4. g.dfs = f.dfs + 1 /\ f.dfs \in Nat
    BY <1>0, <1>10 DEF d
  <2>5. Cardinality(StartedIn(st)) \in Nat
    BY StartedFinite
  <2>6. g.dfs + 1 <= Cardinality(StartedIn(st1))
    BY <2>2, <2>3, <2>4, <2>5
  <2>. QED
    BY <2>6 DEF CountInv
<1>. QED
  BY <1>3, <1>8, <1>9, <1>10, <1>11, <1>19, <1>20, <1>21, <1>22 DEF LinkOK

\* When the search goes back from the item cur to its parent, the other items
\* stay on the way to the current one or off it.
LEMMA BackActive ==
  ASSUME NEW c \in Programs, NEW s \in Seq(StackItems), TreeInv(c, s), NEW cur \in 2..Len(s),
         \A i \in (cur + 1)..Len(s) : s[i].parent >= cur
  PROVE  LET p == s[cur].parent
         IN /\ p \in 1..(cur - 1) /\ p \in 1..Len(s) /\ s[cur].m \in Succ(c, s[p].m)
            /\ \A i \in 1..Len(s) : i # cur => (Active(s, p, i) <=> Active(s, cur, i))
            /\ ~ Active(s, p, cur) /\ Active(s, p, p) /\ Active(s, cur, cur)
            /\ \A i \in (p + 1)..Len(s) : s[i].parent >= p
<1> DEFINE p == s[cur].parent
           n == Len(s)
<1>0. n \in Nat /\ cur \in 2..n /\ \A i \in 1..n : s[i].parent \in Nat
  BY ItemFields
<1>1. p \in 1..(cur - 1) /\ s[cur].m \in Succ(c, s[p].m)
  <2>1. cur \in 1..n /\ cur # 1
    BY <1>0
  <2>. QED
    BY <2>1 DEF TreeInv
<1>2. \A i \in 1..n : p < i /\ i < cur => s[i].parent >= p
  <2>1. cur \in 1..n
    BY <1>0
  <2>. QED
    BY <2>1 DEF TreeInv
<1>3. \A i \in (cur + 1)..n : s[i].parent >= cur
  OBVIOUS
<1>. HIDE DEF n
<1>4. ASSUME NEW i \in (p + 1)..n PROVE s[i].parent >= p
  <2>1. i \in 1..n
    BY <1>0, <1>1
  <2>2. CASE i < cur
    BY <1>0, <1>1, <1>2, <2>1, <2>2
  <2>3. CASE i = cur
    BY <1>1, <2>3
  <2>4. CASE i > cur
    <3>1. s[i].parent >= cur /\ s[i].parent \in Nat
      BY <1>0, <1>3, <2>1, <2>4
    <3>. QED
      BY <1>0, <1>1, <3>1
  <2>. QED
    BY <1>0, <2>1, <2>2, <2>3, <2>4
<1>5. p \in 1..n /\ p \in Nat /\ cur \in Nat /\ p < cur
  BY <1>0, <1>1
<1>6. ASSUME NEW i \in 1..n, i # cur PROVE Active(s, p, i) <=> Active(s, cur, i)
  <2>1. CASE i <= p
    <3>1. \A k \in (i + 1)..p : k \in (i + 1)..cur
      BY <1>5
    <3>2. i <= cur
      BY <1>5, <2>1
    <3>3. \A k \in (i + 1)..cur : k \in (i + 1)..p \/ k \in (p + 1)..n
      BY <1>0, <1>5
    <3>4. \A k \in (p + 1)..n : s[k].parent >= i
      <4>1. \A k \in (p + 1)..n : s[k].parent \in Nat
        BY <1>0, <1>5
      <4>. QED
        BY <1>4, <1>5, <2>1, <4>1
    <3>. QED
      BY <2>1, <3>1, <3>2, <3>3, <3>4 DEF Active
  <2>2. CASE ~ (i <= p)
    <3>1. ~ Active(s, p, i)
      BY <2>2 DEF Active
    <3>2. ASSUME Active(s, cur, i) PROVE FALSE
      <4>1. i <= cur /\ cur \in (i + 1)..cur
        BY <1>5, <1>6, <3>2 DEF Active
      <4>2. p >= i
        BY <3>2, <4>1 DEF Active
      <4>. QED
        BY <1>5, <2>2, <4>2
    <3>. QED
      BY <3>1, <3>2
  <2>. QED
    BY <2>1, <2>2
<1>7. ~ Active(s, p, cur)
  BY <1>5 DEF Active
<1>8. Active(s, p, p) /\ Active(s, cur, cur)
  BY <1>5 DEF Active
<1>. QED
  BY <1>1, <1>4, <1>5, <1>6, <1>7, <1>8 DEF n

\* The lower of two numbers.
LEMMA LowerOfTwo ==
  \A a, b \in Nat : (IF a < b THEN a ELSE b) <= a /\ (IF a < b THEN a ELSE b) <= b
OBVIOUS

\* The index low of m is told to the parent mp.
Told(anc, m, mp, low, anc2) ==
  anc2 = [anc EXCEPT ![m] = low, ![mp] = IF low < @ THEN low ELSE @]

\* The index low is the one of the current item; mp is the module of its parent.
LowAt(f, low) == low = f.stack[f.cur].dfs
ParentIs(f, mp) == mp = f.stack[f.stack[f.cur].parent].m

\* The search goes back to the parent, or closes the component of the current item.
GoesBack(f, g) ==
  /\ g.pc = "find" /\ g.stack = f.stack /\ g.dfs = f.dfs /\ g.cur = f.stack[f.cur].parent
StartsClosing(f, g) ==
  /\ g.pc = "namespace" /\ g.stack = f.stack /\ g.dfs = f.dfs
  /\ g.cur = f.stack[f.cur].parent /\ g.base = f.cur /\ g.it = Len(f.stack)

\* The find loop ends for a module that leads further down: the search goes back
\* to the parent, which learns the ancestor index.
LEMMA LeaveStay ==
  ASSUME NEW c, NEW f, NEW st, NEW anc, NEW res, LinkTypes(c, f, st, anc),
         LinkOK(c, f, st, anc, res), f.pc = "find",
         NEW m, NEW low, Lowers(c, f, st, anc, m, Arity(c, m) + 1, low),
         ~ LowAt(f, low), NEW mp, ParentIs(f, mp), NEW anc2, Told(anc, m, mp, low, anc2),
         NEW g \in LinkFrames, GoesBack(f, g)
  PROVE  /\ LinkOK(c, g, st, anc2, res)
         /\ low \in Nat /\ low <= anc[m] /\ m \in Modules /\ mp \in Modules
<1> DEFINE s == f.stack
           cur == f.cur
           n == Len(s)
           p == s[cur].parent
           L == LinkingIn(st)
<1> DEFINE anc1 == [anc EXCEPT ![m] = low]
<1>0. /\ c \in Programs /\ f \in LinkFrames /\ s \in Seq(StackItems) /\ n \in Nat
      /\ st \in [Modules -> States] /\ anc \in [Modules -> Nat]
      /\ \A i \in 1..n : s[i].m \in Modules /\ s[i].dfs \in Nat /\ s[i].node \in Nat \ {0} /\ s[i].parent \in Nat
      /\ cur \in 1..n /\ TreeInv(c, s) /\ Live(f) = n /\ StackInv(f, st)
      /\ \A i \in (cur + 1)..n : s[i].parent >= cur
  BY FindFacts
<1>1. m \in Modules /\ Arity(c, m) \in Nat /\ m = s[cur].m /\ s[cur].node <= Arity(c, m) + 1
  <2>1. m = s[cur].m
    BY DEF Lowers
  <2>2. m \in Modules
    BY <1>0, <2>1
  <2>3. s[cur].node <= Arity(c, s[cur].m) + 1
    BY FindFacts
  <2>. QED
    BY <1>0, <2>1, <2>2, <2>3, GoalFacts
<1>2. /\ low \in Nat /\ low <= anc[m] /\ anc1 \in [Modules -> Nat]
      /\ \A i \in 1..n : ItemInv(c, s, cur, st, anc1, i)
      /\ Passed(c, s, cur, st, Arity(c, m) + 1, low)
  <2>1. Put(anc, m, low, anc1)
    BY DEF Put
  <2>. HIDE DEF anc1
  <2>. QED
    BY <2>1, LowerOK
<1>3. anc1[m] = low /\ \A k \in Modules : k # m => anc1[k] = anc[k]
  BY <1>0, <1>1
<1>10. g.stack = s /\ g.cur = p /\ Live(g) = n
  BY DEF Live, Searching, GoesBack
<1>. HIDE DEF s, cur, n, p, L, anc1
<1>4. low < s[cur].dfs /\ low # s[cur].dfs
  <2>1. low <= s[cur].dfs
    BY <1>0, <1>1, <1>2, <1>3 DEF ItemInv
  <2>2. s[cur].dfs \in Nat /\ low # s[cur].dfs
    BY <1>0 DEF LowAt, s, cur
  <2>. QED
    BY <1>2, <2>1, <2>2
<1>5. cur \in 2..n
  <2>1. ASSUME cur = 1 PROVE FALSE
    <3>1. PICK k \in 1..cur : s[k].dfs = anc1[s[cur].m]
      BY <1>0, <1>2 DEF ItemInv
    <3>2. k = cur
      BY <2>1
    <3>. QED
      BY <1>1, <1>3, <1>4, <3>1, <3>2
  <2>. QED
    BY <1>0, <2>1
<1>6. /\ p \in 1..(cur - 1) /\ p \in 1..n /\ m \in Succ(c, s[p].m)
      /\ \A i \in 1..n : i # cur => (Active(s, p, i) <=> Active(s, cur, i))
      /\ ~ Active(s, p, cur) /\ Active(s, p, p) /\ Active(s, cur, cur)
      /\ \A i \in (p + 1)..n : s[i].parent >= p
  <2>1. cur \in 2..Len(s) /\ \A i \in (cur + 1)..Len(s) : s[i].parent >= cur
    BY <1>0, <1>5 DEF n
  <2>2. LET q == s[cur].parent
        IN /\ q \in 1..(cur - 1) /\ q \in 1..Len(s) /\ s[cur].m \in Succ(c, s[q].m)
           /\ \A i \in 1..Len(s) : i # cur => (Active(s, q, i) <=> Active(s, cur, i))
           /\ ~ Active(s, q, cur) /\ Active(s, q, q) /\ Active(s, cur, cur)
           /\ \A i \in (q + 1)..Len(s) : s[i].parent >= q
    BY <1>0, <2>1, BackActive
  <2>. QED
    BY <1>1, <2>2 DEF p, n
<1>7. mp = s[p].m /\ mp \in Modules /\ mp # m /\ p # cur
  <2>1. \A i, k \in 1..n : s[i].m = s[k].m => i = k
    BY <1>0 DEF TreeInv, n
  <2>2. p # cur
    BY <1>0, <1>6
  <2>3. mp = s[p].m
    BY DEF ParentIs, p, s, cur
  <2>. QED
    BY <1>0, <1>1, <1>6, <2>1, <2>2, <2>3
<1>8. /\ anc2 \in [Modules -> Nat]
      /\ \A k \in Modules : k # mp => anc2[k] = anc1[k]
      /\ anc2[mp] = IF low < anc1[mp] THEN low ELSE anc1[mp]
  BY <1>0, <1>1, <1>2, <1>3, <1>7 DEF Told
<1>9. /\ \A k \in Modules : anc1[k] \in Nat /\ anc2[k] \in Nat /\ anc2[k] <= anc1[k]
      /\ anc2[mp] <= low
  <2>1. anc1[mp] \in Nat
    BY <1>2, <1>7
  <2>2. low \in Nat
    BY <1>2
  <2>3. anc2[mp] <= anc1[mp] /\ anc2[mp] <= low
    BY <1>8, <2>1, <2>2, LowerOfTwo, Zenon
  <2>4. \A k \in Modules : anc1[k] \in Nat /\ anc2[k] \in Nat
    BY <1>2, <1>8
  <2>5. ASSUME NEW k \in Modules PROVE anc2[k] <= anc1[k]
    <3>1. CASE k = mp
      BY <2>3, <3>1
    <3>2. CASE k # mp
      <4>1. anc2[k] = anc1[k] /\ anc1[k] \in Nat
        BY <1>8, <2>4, <3>2
      <4>. QED
        BY <4>1
    <3>. QED
      BY <3>1, <3>2
  <2>. QED
    BY <2>3, <2>4, <2>5
<1>11. PlaceInv(c, g)
  <2>1. s # <<>> /\ \A i \in 1..n : s[i].dfs <= f.dfs
    BY DEF LinkOK, PlaceInv, s, n
  <2>. QED
    BY <1>6, <1>10, <2>1 DEF PlaceInv, Searching, Closing, GoesBack, n
<1>12. ASSUME NEW i \in 1..n PROVE ItemInv(c, s, p, st, anc2, i)
  <2>0. ItemInv(c, s, cur, st, anc1, i) /\ s[i].m \in Modules /\ s[i].dfs \in Nat
    BY <1>0, <1>2
  <2>1. anc2[s[i].m] \in Nat /\ anc1[s[i].m] \in Nat /\ anc2[s[i].m] <= anc1[s[i].m]
    BY <1>9, <2>0
  <2>2. anc2[s[i].m] <= s[i].dfs
    <3>1. anc1[s[i].m] <= s[i].dfs
      BY <2>0 DEF ItemInv
    <3>. QED
      BY <2>0, <2>1, <3>1
  <2>3. ASSUME ~ Active(s, p, i), i # cur
        PROVE  anc2[s[i].m] < s[i].dfs /\ anc2[s[s[i].parent].m] <= anc2[s[i].m]
    <3>1. ~ Active(s, cur, i) /\ i # p
      BY <1>6, <2>3
    <3>2. anc1[s[i].m] < s[i].dfs /\ anc1[s[s[i].parent].m] <= anc1[s[i].m]
      BY <2>0, <3>1 DEF ItemInv
    <3>3. s[i].m # mp
      BY <1>0, <1>6, <1>7, <3>1 DEF TreeInv, n
    <3>4. i # 1
      <4>1. \A k \in (1 + 1)..cur : s[k].parent >= 1
        BY <1>0 DEF TreeInv, n
      <4>. QED
        BY <1>0, <3>1, <4>1 DEF Active
    <3>5. s[i].parent \in 1..(i - 1)
      BY <1>0, <3>4 DEF TreeInv, n
    <3>6. s[i].parent \in 1..n
      BY <1>0, <3>5
    <3>7. s[s[i].parent].m \in Modules
      BY <1>0, <3>6
    <3>8. /\ anc2[s[s[i].parent].m] <= anc1[s[s[i].parent].m]
          /\ anc2[s[s[i].parent].m] \in Nat /\ anc1[s[s[i].parent].m] \in Nat
      BY <1>9, <3>7
    <3>9. anc2[s[i].m] = anc1[s[i].m]
      BY <1>8, <2>0, <3>3
    <3>. QED
      BY <2>1, <3>2, <3>8, <3>9
  <2>4. CASE i = cur
    <3>1. s[i].m = m /\ anc2[m] = low
      BY <1>1, <1>3, <1>7, <1>8, <2>4
    <3>2. low < s[i].dfs /\ anc2[s[s[i].parent].m] <= low
      BY <1>4, <1>7, <1>9, <2>4 DEF p
    <3>3. Examined(c, s, p, i) = 1..Arity(c, m)
      BY <1>6, <2>4, <3>1 DEF Examined
    <3>4. (Arity(c, m) + 1) - 1 = Arity(c, m)
      BY <1>1
    <3>5. \A x \in 1..Arity(c, m) :
             /\ st[Goals(c, m)[x]] \in Complete \cup {"linking"}
             /\ \A k \in 1..Len(s) : s[k].m = Goals(c, m)[x] => low <= s[k].dfs
      BY <1>1, <1>2, <3>4 DEF Passed
    <3>6. \E k \in 1..i : s[k].dfs = low /\ Leads(c, m, s[k].m, LinkingIn(st))
      BY <1>3, <2>0, <3>1 DEF ItemInv
    <3>. QED
      BY <2>2, <3>1, <3>2, <3>3, <3>5, <3>6 DEF ItemInv
  <2>5. CASE i # cur
    <3>1. Examined(c, s, p, i) = Examined(c, s, cur, i)
      BY <1>6, <2>5 DEF Examined
    <3>2. ASSUME NEW x \in Examined(c, s, p, i)
          PROVE  /\ st[Goals(c, s[i].m)[x]] \in Complete \cup {"linking"}
                 /\ \A k \in 1..Len(s) : s[k].m = Goals(c, s[i].m)[x] => anc2[s[i].m] <= s[k].dfs
      <4>1. /\ st[Goals(c, s[i].m)[x]] \in Complete \cup {"linking"}
            /\ \A k \in 1..Len(s) : s[k].m = Goals(c, s[i].m)[x] => anc1[s[i].m] <= s[k].dfs
        BY <2>0, <3>1 DEF ItemInv
      <4>2. \A k \in 1..Len(s) : s[k].dfs \in Nat
        BY <1>0 DEF n
      <4>. QED
        BY <2>1, <4>1, <4>2
    <3>3. \E k \in 1..i : s[k].dfs = anc2[s[i].m] /\ Leads(c, s[i].m, s[k].m, LinkingIn(st))
      <4>1. CASE anc2[s[i].m] = anc1[s[i].m]
        BY <2>0, <4>1 DEF ItemInv
      <4>2. CASE anc2[s[i].m] # anc1[s[i].m]
        <5>1. s[i].m = mp /\ anc2[mp] = low /\ low < anc1[mp]
          BY <1>8, <2>0, <4>2
        <5>2. i = p
          BY <1>0, <1>6, <1>7, <5>1 DEF TreeInv, n
        <5>3. PICK k \in 1..cur : s[k].dfs = anc1[s[cur].m] /\ Leads(c, s[cur].m, s[k].m, LinkingIn(st))
          BY <1>0, <1>2 DEF ItemInv
        <5>4. s[k].dfs = low /\ Leads(c, m, s[k].m, LinkingIn(st)) /\ k \in 1..n
          BY <1>0, <1>1, <1>3, <5>3
        <5>5. s[k].dfs < s[i].dfs
          <6>1. anc1[s[i].m] <= s[i].dfs
            BY <2>0 DEF ItemInv
          <6>2. s[k].dfs < anc1[s[i].m] /\ s[k].dfs \in Nat
            BY <1>2, <5>1, <5>4
          <6>3. s[i].dfs \in Nat /\ anc1[s[i].m] \in Nat
            BY <2>0, <2>1
          <6>. QED
            BY <6>1, <6>2, <6>3
        <5>6. \A a, b \in 1..n : a < b => s[a].dfs < s[b].dfs
          BY <1>0 DEF TreeInv, n
        <5>7. k \in 1..i
          <6>1. s[k].dfs \in Nat
            BY <1>0, <5>4
          <6>. QED
            BY <1>0, <2>0, <5>4, <5>5, <5>6, <6>1
        <5>8. m \in LinkingIn(st)
          BY <1>0, <1>1 DEF LinkingIn, StackInv, s, n, cur
        <5>9. Leads(c, mp, m, LinkingIn(st))
          BY <1>6, <1>7, <5>8, LeadsStep
        <5>10. Leads(c, mp, s[k].m, LinkingIn(st))
          BY <5>4, <5>9, LeadsOn
        <5>. QED
          BY <5>1, <5>4, <5>7, <5>10
      <4>. QED
        BY <4>1, <4>2
    <3>. QED
      BY <2>2, <2>3, <2>5, <3>2, <3>3 DEF ItemInv
  <2>. QED
    BY <2>4, <2>5
<1>13. SearchInv(c, g, st, anc2)
  BY <1>10, <1>12 DEF SearchInv
<1>14. ResolvedInv(c, g, st, res)
  <2>1. \A i \in 1..Len(f.stack) : DoneNodes(c, g, i) = DoneNodes(c, f, i)
    BY DEF DoneNodes, GoesBack
  <2>. QED
    BY <2>1 DEF LinkOK, ResolvedInv, GoesBack
<1>15. StackInv(g, st) /\ TreeInv(c, g.stack) /\ CountInv(g, st)
  BY DEF LinkOK, StackInv, CountInv, GoesBack
<1>16. ComponentInv(c, g, st)
  BY DEF ComponentInv, Closing, GoesBack
<1>. QED
  BY <1>1, <1>2, <1>7, <1>11, <1>13, <1>14, <1>15, <1>16 DEF LinkOK

\* The find loop ends for a module that leads no further down than to itself: it
\* is the root of a component, which the stack holds from there on.
LEMMA LeaveClose ==
  ASSUME NEW c, NEW f, NEW st, NEW anc, NEW res, LinkTypes(c, f, st, anc),
         LinkOK(c, f, st, anc, res), f.pc = "find",
         NEW m, NEW low, Lowers(c, f, st, anc, m, Arity(c, m) + 1, low), LowAt(f, low),
         NEW anc1, Put(anc, m, low, anc1), NEW g \in LinkFrames, StartsClosing(f, g)
  PROVE  /\ LinkOK(c, g, st, anc1, res)
         /\ low \in Nat /\ low <= anc[m] /\ m \in Modules
<1> DEFINE s == f.stack
           cur == f.cur
           n == Len(s)
           p == s[cur].parent
           L == LinkingIn(st)
           d == s[cur].dfs
<1>0. /\ c \in Programs /\ f \in LinkFrames /\ s \in Seq(StackItems) /\ n \in Nat
      /\ st \in [Modules -> States] /\ anc \in [Modules -> Nat]
      /\ \A i \in 1..n : s[i].m \in Modules /\ s[i].dfs \in Nat /\ s[i].node \in Nat \ {0} /\ s[i].parent \in Nat
      /\ cur \in 1..n /\ TreeInv(c, s) /\ Live(f) = n /\ StackInv(f, st)
      /\ \A i \in (cur + 1)..n : s[i].parent >= cur
      /\ s # <<>> /\ \A i \in 1..n : s[i].dfs <= f.dfs
  BY FindFacts
<1>1. m \in Modules /\ Arity(c, m) \in Nat /\ m = s[cur].m /\ s[cur].node <= Arity(c, m) + 1
  <2>1. m = s[cur].m
    BY DEF Lowers
  <2>2. m \in Modules
    BY <1>0, <2>1
  <2>3. s[cur].node <= Arity(c, s[cur].m) + 1
    BY FindFacts
  <2>. QED
    BY <1>0, <2>1, <2>2, <2>3, GoalFacts
<1>2. /\ low \in Nat /\ low <= anc[m] /\ anc1 \in [Modules -> Nat]
      /\ \A i \in 1..n : ItemInv(c, s, cur, st, anc1, i)
      /\ Passed(c, s, cur, st, Arity(c, m) + 1, low)
  BY LowerOK
<1>3. anc1[s[cur].m] = d /\ low = d
  BY <1>0, <1>1 DEF LowAt, Put
<1>4. g.stack = s /\ g.cur = p /\ Live(g) = cur - 1 /\ g.base = cur /\ g.it = n
  BY DEF Live, Searching, StartsClosing
<1>5. \A k \in Modules : st[k] = "linking" <=> \E i \in 1..n : s[i].m = k
  BY <1>0 DEF StackInv
<1>. HIDE DEF s, cur, n, p, d
<1>6. \A i, k \in 1..n : i < k => s[i].dfs < s[k].dfs
  BY <1>0 DEF TreeInv, n
<1>7. \A i \in 1..n : d <= s[i].dfs => i >= cur
  <2>1. d \in Nat
    BY <1>0 DEF d
  <2>. QED
    BY <1>0, <1>6, <2>1 DEF d
<1>8. \A i \in 1..n : s[i].m \in L /\ s[i].m \in Modules
  BY <1>0, <1>5 DEF LinkingIn
<1>9. Subtree(s, cur)
  BY <1>0 DEF Subtree, n
<1>10. \A i \in (cur + 1)..n : i \in 1..n /\ ~ Active(s, cur, i)
  BY <1>0 DEF Active
<1>11. \A i \in cur..n : i \in 1..n /\ (i = cur \/ i \in (cur + 1)..n)
  BY <1>0
<1>12. \A i \in cur..n : d <= anc1[s[i].m]
  <2>1. \A i \in (cur + 1)..Len(s) : anc1[s[s[i].parent].m] <= anc1[s[i].m]
    BY <1>2, <1>10 DEF ItemInv, n
  <2>2. \A i \in cur..Len(s) : anc1[s[cur].m] <= anc1[s[i].m]
    BY <1>0, <1>2, <1>9, <2>1, SubtreeLow
  <2>. QED
    BY <1>3, <2>2 DEF n
<1>13. \A i \in cur..n : Leads(c, s[cur].m, s[i].m, L)
  BY <1>0, <1>8, <1>9, SubtreeDown DEF n
<1>14. \A i \in cur..n : Leads(c, s[i].m, s[cur].m, L)
  <2>1. ASSUME NEW i \in (cur + 1)..n PROVE \E k \in cur..(i - 1) : Leads(c, s[i].m, s[k].m, L)
    <3>1. ItemInv(c, s, cur, st, anc1, i) /\ ~ Active(s, cur, i) /\ i \in 1..n
      BY <1>2, <1>10
    <3>2. PICK k \in 1..i : s[k].dfs = anc1[s[i].m] /\ Leads(c, s[i].m, s[k].m, L)
      BY <3>1 DEF ItemInv
    <3>3. anc1[s[i].m] < s[i].dfs
      BY <3>1 DEF ItemInv
    <3>4. k \in 1..n /\ i \in cur..n
      BY <1>0, <3>1
    <3>5. d <= s[k].dfs
      BY <1>12, <3>2, <3>4
    <3>6. k >= cur
      BY <1>7, <3>4, <3>5
    <3>7. k # i
      <4>1. s[i].dfs \in Nat /\ ~ (s[i].dfs < s[i].dfs)
        BY <1>0, <3>1
      <4>. QED
        BY <3>2, <3>3, <4>1
    <3>8. k \in cur..(i - 1)
      BY <1>0, <3>1, <3>6, <3>7
    <3>. QED
      BY <3>2, <3>8
  <2>2. cur \in 1..Len(s)
    BY <1>0 DEF n
  <2>. QED
    BY <1>0, <2>1, <2>2, SubtreeUp DEF n
<1>15. ASSUME NEW i \in cur..n, NEW t \in Succ(c, s[i].m)
       PROVE  st[t] \in Complete \/ \E k \in cur..n : s[k].m = t
  <2>0. i \in 1..n /\ (i = cur \/ i \in (cur + 1)..n)
    BY <1>11
  <2>1. PICK x \in 1..Arity(c, s[i].m) : t = Goals(c, s[i].m)[x]
    BY DEF Succ
  <2>2. /\ st[t] \in Complete \cup {"linking"}
        /\ \A k \in 1..n : s[k].m = t => anc1[s[i].m] <= s[k].dfs
    <3>1. CASE i = cur
      <4>1. x \in 1..((Arity(c, m) + 1) - 1)
        BY <1>1, <2>1, <3>1
      <4>. QED
        BY <1>1, <1>2, <1>3, <2>1, <3>1, <4>1 DEF Passed, n
    <3>2. CASE i \in (cur + 1)..n
      <4>1. ItemInv(c, s, cur, st, anc1, i) /\ x \in Examined(c, s, cur, i)
        BY <1>2, <1>10, <2>0, <3>2 DEF Examined
      <4>. QED
        BY <2>1, <4>1 DEF ItemInv, n
    <3>. QED
      BY <2>0, <3>1, <3>2
  <2>3. CASE st[t] = "linking"
    <3>1. t \in Modules
      BY <1>0, <1>8, <2>0, GoalFacts
    <3>2. PICK k \in 1..n : s[k].m = t
      BY <1>5, <2>3, <3>1
    <3>3. d <= anc1[s[i].m] /\ anc1[s[i].m] <= s[k].dfs
      BY <1>12, <2>2, <3>2
    <3>4. d \in Nat /\ anc1[s[i].m] \in Nat /\ s[k].dfs \in Nat
      BY <1>0, <1>2, <1>3, <1>8, <2>0
    <3>5. d <= s[k].dfs
      BY <3>3, <3>4
    <3>6. k \in cur..n
      BY <1>0, <1>7, <3>5
    <3>. QED
      BY <3>2, <3>6
  <2>. QED
    BY <2>2, <2>3
<1>16. ComponentInv(c, g, st)
  BY <1>4, <1>13, <1>14, <1>15 DEF ComponentInv, StartsClosing, n, L
<1>17. cur # 1 =>
         /\ \A i \in 1..n : i # cur => (Active(s, p, i) <=> Active(s, cur, i))
         /\ \A i \in (p + 1)..n : s[i].parent >= p
  <2>. SUFFICES ASSUME cur # 1
                PROVE  /\ \A i \in 1..n : i # cur => (Active(s, p, i) <=> Active(s, cur, i))
                       /\ \A i \in (p + 1)..n : s[i].parent >= p
    OBVIOUS
  <2>1. cur \in 2..Len(s) /\ \A i \in (cur + 1)..Len(s) : s[i].parent >= cur
    BY <1>0 DEF n
  <2>2. LET q == s[cur].parent
        IN /\ q \in 1..(cur - 1) /\ q \in 1..Len(s) /\ s[cur].m \in Succ(c, s[q].m)
           /\ \A i \in 1..Len(s) : i # cur => (Active(s, q, i) <=> Active(s, cur, i))
           /\ ~ Active(s, q, cur) /\ Active(s, q, q) /\ Active(s, cur, cur)
           /\ \A i \in (q + 1)..Len(s) : s[i].parent >= q
    BY <1>0, <2>1, BackActive
  <2>. QED
    BY <2>2 DEF p, n
<1>18. SearchInv(c, g, st, anc1)
  <2>1. ASSUME NEW i \in 1..(cur - 1) PROVE ItemInv(c, s, p, st, anc1, i)
    <3>1. i \in 1..n /\ i # cur /\ cur # 1
      BY <1>0
    <3>2. Active(s, p, i) <=> Active(s, cur, i)
      BY <1>17, <3>1
    <3>3. Examined(c, s, p, i) = Examined(c, s, cur, i)
      BY <3>2 DEF Examined
    <3>4. ItemInv(c, s, cur, st, anc1, i)
      BY <1>2, <3>1
    <3>. QED
      BY <3>2, <3>3, <3>4, Zenon DEF ItemInv
  <2>. QED
    BY <1>4, <2>1 DEF SearchInv
<1>19. PlaceInv(c, g)
  <2>1. n \in cur..n
    BY <1>0
  <2>2. ASSUME NEW i \in (p + 1)..(cur - 1) PROVE s[i].parent >= p
    <3>1. CASE cur = 1
      <4>1. p \in Nat
        BY <1>0 DEF p
      <4>. QED
        BY <3>1, <4>1
    <3>2. CASE cur # 1
      <4>1. p \in Nat
        BY <1>0 DEF p
      <4>2. i \in (p + 1)..n
        BY <1>0, <4>1
      <4>. QED
        BY <1>17, <3>2, <4>2
    <3>. QED
      BY <3>1, <3>2
  <2>. QED
    BY <1>0, <1>4, <2>1, <2>2 DEF PlaceInv, Searching, Closing, StartsClosing, n, p
<1>20. ResolvedInv(c, g, st, res)
  <2>1. \A i \in 1..Len(f.stack) : DoneNodes(c, g, i) = DoneNodes(c, f, i)
    BY DEF DoneNodes, StartsClosing
  <2>. QED
    BY <2>1 DEF LinkOK, ResolvedInv, StartsClosing
<1>21. StackInv(g, st) /\ TreeInv(c, g.stack) /\ CountInv(g, st)
  BY DEF LinkOK, StackInv, CountInv, StartsClosing
<1>. QED
  BY <1>1, <1>2, <1>16, <1>18, <1>19, <1>20, <1>21 DEF LinkOK

\* A sequence without its last element.
LEMMA FrontFacts ==
  ASSUME NEW S, NEW s \in Seq(S), s # <<>>
  PROVE  /\ Front(s) \in Seq(S) /\ Len(s) \in Nat \ {0} /\ Len(Front(s)) = Len(s) - 1
         /\ \A i \in 1..(Len(s) - 1) : Front(s)[i] = s[i]
         /\ Last(s) = s[Len(s)] /\ Last(s) \in S
<1>1. Len(s) \in Nat \ {0}
  BY EmptySeq
<1>2. 1 \in Nat /\ Len(s) - 1 \in Nat /\ Len(s) - 1 <= Len(s)
  BY <1>1
<1>3. Front(s) = [i \in 1..(Len(s) - 1) |-> s[i]]
  <2>1. Front(s) = [i \in 1..((Len(s) - 1) - 1 + 1) |-> s[1 + i - 1]]
    BY DEF Front
  <2>2. (Len(s) - 1) - 1 + 1 = Len(s) - 1 /\ \A i \in 1..(Len(s) - 1) : 1 + i - 1 = i
    BY <1>1
  <2>. QED
    BY <2>1, <2>2
<1>4. \A i \in 1..(Len(s) - 1) : s[i] \in S
  BY <1>1
<1>5. Front(s) \in Seq(S) /\ Len(Front(s)) = Len(s) - 1
  BY <1>2, <1>3, <1>4
<1>. QED
  BY <1>1, <1>3, <1>5 DEF Last

\* The last item of the stack of f is taken away.
Popped(f, g) ==
  /\ g.stack = Front(f.stack) /\ g.dfs = f.dfs /\ g.cur = f.cur
  /\ \/ Len(f.stack) > f.base /\ g.pc = "linked" /\ g.base = f.base
     \/ Len(f.stack) = f.base /\ f.cur # 0 /\ g.pc = "find"

\* A module of a complete component is linked.
LEMMA LinkedPop ==
  ASSUME NEW c, NEW f, NEW st, NEW anc, NEW res, LinkTypes(c, f, st, anc),
         LinkOK(c, f, st, anc, res), f.pc = "linked",
         NEW y, y = f.stack[Len(f.stack)].m,
         NEW st1, st1 = [st EXCEPT ![y] = "linked"],
         NEW g \in LinkFrames, Popped(f, g)
  PROVE  LinkOK(c, g, st1, anc, res)
<1> DEFINE s == f.stack
           cur == f.cur
           n == Len(s)
           base == f.base
           s1 == g.stack
           L == LinkingIn(st)
           K == {s[j].m : j \in base..n}
<1>0. /\ c \in Programs /\ f \in LinkFrames /\ s \in Seq(StackItems) /\ n \in Nat
      /\ st \in [Modules -> States] /\ anc \in [Modules -> Nat]
      /\ \A i \in 1..n : s[i].m \in Modules /\ s[i].dfs \in Nat /\ s[i].node \in Nat \ {0} /\ s[i].parent \in Nat
      /\ TreeInv(c, s) /\ Live(f) = base - 1 /\ StackInv(f, st) /\ cur \in Nat
      /\ s # <<>> /\ \A i \in 1..n : s[i].dfs <= f.dfs
      /\ base \in 1..n /\ s[base].parent = cur
      /\ \A i \in (cur + 1)..(base - 1) : s[i].parent >= cur
  BY LinkFields, ItemFields DEF LinkTypes, LinkOK, PlaceInv, Searching, Closing, Live
<1>1. s1 \in Seq(StackItems) /\ Len(s1) = n - 1 /\ \A i \in 1..(n - 1) : s1[i] = s[i]
  <2>1. g.stack = Front(f.stack)
    BY DEF Popped
  <2>2. f.stack \in Seq(StackItems) /\ f.stack # <<>>
    BY <1>0
  <2>. QED
    BY <2>1, <2>2, FrontFacts, ZenonT(60)
<1>2. /\ g.stack = s1 /\ g.dfs = f.dfs /\ g.cur = cur
      /\ \/ n > base /\ g.pc = "linked" /\ g.base = base
         \/ n = base /\ cur # 0 /\ g.pc = "find"
  BY DEF Popped
<1>3. n \in 1..n /\ y = s[n].m /\ y \in Modules
  BY <1>0
<1>. HIDE DEF s, cur, n, base, s1, L
<1>4. \A i, k \in 1..n : s[i].m = s[k].m => i = k
  BY <1>0 DEF TreeInv, n
<1>5. n - 1 \in Nat /\ \A i \in 1..(n - 1) : i \in 1..n /\ i # n /\ s1[i] = s[i] /\ s[i].m # y
  <2>1. n - 1 \in Nat /\ \A i \in 1..(n - 1) : i \in 1..n /\ i # n
    BY <1>0
  <2>. QED
    BY <1>1, <1>3, <1>4, <2>1
<1>6. (base = 1 /\ cur = 0) \/ (base # 1 /\ cur \in 1..(base - 1))
  BY <1>0 DEF TreeInv, n
<1>7. cur <= base - 1 /\ base - 1 <= n - 1 /\ base \in Nat
  BY <1>0, <1>6
<1>8. Live(g) = base - 1
  <2>1. CASE n > base
    BY <1>0, <1>2, <2>1 DEF Live, Searching
  <2>2. CASE n = base
    BY <1>0, <1>1, <1>2, <2>2 DEF Live, Searching
  <2>. QED
    BY <1>2, <2>1, <2>2
<1>9. StackInv(g, st1)
  <2>1. \A k \in Modules : st[k] = "linking" <=> \E i \in 1..n : s[i].m = k
    BY <1>0 DEF StackInv, s, n
  <2>2. \A k \in Modules : st1[k] = "linking" <=> k # y /\ st[k] = "linking"
    BY <1>0, <1>3
  <2>3. \A i \in 1..n : i = n \/ i \in 1..(n - 1)
    BY <1>0
  <2>4. \A k \in Modules : st1[k] = "linking" <=> \E i \in 1..(n - 1) : s1[i].m = k
    BY <1>3, <1>5, <2>1, <2>2, <2>3
  <2>. QED
    BY <1>1, <1>2, <2>4 DEF StackInv
<1>10. TreeInv(c, s1)
  <2>1. \A i, k \in 1..Len(s1) : s1[i].m = s1[k].m => i = k
    BY <1>1, <1>4, <1>5
  <2>2. \A i, k \in 1..Len(s1) : i < k => s1[i].dfs < s1[k].dfs
    BY <1>0, <1>1, <1>5 DEF TreeInv, n
  <2>3. \A i, k \in 1..Len(s1) : s1[k].parent < i /\ i < k => s1[i].parent >= s1[k].parent
    BY <1>0, <1>1, <1>5 DEF TreeInv, n
  <2>4. ASSUME NEW i \in 1..Len(s1)
        PROVE /\ s1[i].node <= Arity(c, s1[i].m) + 1
              /\ i = 1 => s1[i].parent = 0
              /\ i # 1 => s1[i].parent \in 1..(i - 1) /\ s1[i].m \in Succ(c, s1[s1[i].parent].m)
    <3>1. i \in 1..n /\ s1[i] = s[i] /\ i \in 1..(n - 1)
      BY <1>1, <1>5
    <3>2. /\ s[i].node <= Arity(c, s[i].m) + 1
          /\ i = 1 => s[i].parent = 0
          /\ i # 1 => s[i].parent \in 1..(i - 1) /\ s[i].m \in Succ(c, s[s[i].parent].m)
      BY <1>0, <3>1 DEF TreeInv, n
    <3>3. i # 1 => s1[s[i].parent] = s[s[i].parent]
      <4>1. i # 1 => s[i].parent \in 1..(n - 1)
        BY <1>0, <3>1, <3>2
      <4>. QED
        BY <1>5, <4>1
    <3>. QED
      BY <3>1, <3>2, <3>3
  <2>. QED
    BY <2>1, <2>2, <2>3, <2>4 DEF TreeInv
<1>11. PlaceInv(c, g)
  <2>1. n - 1 # 0
    BY <1>0, <1>2, <1>6
  <2>2. s1 # <<>>
    BY <1>1, <2>1
  <2>3. \A i \in 1..Len(s1) : s1[i].dfs <= f.dfs
    BY <1>0, <1>1, <1>5
  <2>4. \A i \in (cur + 1)..(base - 1) : s1[i].parent >= cur
    <3>1. \A i \in (cur + 1)..(base - 1) : i \in 1..(n - 1)
      BY <1>0, <1>7
    <3>. QED
      BY <1>0, <1>5, <3>1
  <2>5. CASE n > base
    <3>1. base \in 1..(n - 1)
      BY <1>0, <2>5
    <3>2. s1[base].parent = cur
      BY <1>0, <1>5, <3>1
    <3>3. g.pc = "linked" /\ g.base = base
      BY <1>0, <1>2, <2>5
    <3>. QED
      BY <1>1, <1>2, <1>8, <2>2, <2>3, <2>4, <3>1, <3>2, <3>3 DEF PlaceInv, Searching, Closing
  <2>6. CASE n = base
    <3>1. g.pc = "find" /\ cur # 0
      BY <1>0, <1>2, <2>6
    <3>2. cur \in 1..(n - 1)
      BY <1>0, <1>6, <2>6, <3>1
    <3>. QED
      BY <1>1, <1>2, <1>8, <2>2, <2>3, <2>4, <3>1, <3>2 DEF PlaceInv, Searching, Closing
  <2>. QED
    BY <1>2, <2>5, <2>6
<1>12. L \ {y} = LinkingIn(st1)
  BY <1>0, <1>3 DEF LinkingIn, L
<1>13. Closed(c, K, L) /\ y \in K /\ K \in SUBSET Modules /\ \A i \in 1..(base - 1) : s[i].m \notin K
  <2>0. \A j \in base..n : j \in 1..n
    BY <1>0
  <2>1. \A i \in 1..(base - 1) : i \in 1..n /\ i \notin base..n
    BY <1>0
  <2>2. n \in base..n
    BY <1>0
  <2>3. \A i \in base..n : \A t \in Succ(c, s[i].m) :
           st[t] \in Complete \/ \E k \in base..n : s[k].m = t
    BY DEF LinkOK, ComponentInv, Closing, base, s, n
  <2>4. Closed(c, K, L)
    BY <2>3 DEF Closed, LinkingIn, L, Complete
  <2>. QED
    BY <1>0, <1>3, <1>4, <2>0, <2>1, <2>2, <2>4, SMTT(60)
<1>14. \A k \in Modules : /\ st[k] \in Complete => st1[k] \in Complete
                          /\ st[k] \in Complete \cup {"linking"} => st1[k] \in Complete \cup {"linking"}
                          /\ st[k] # "error" => st1[k] # "error"
  BY <1>0, <1>3 DEF Complete
<1>15. ASSUME NEW i \in 1..(base - 1) PROVE ItemInv(c, s1, cur, st1, anc, i)
  <2>0. i \in 1..n /\ i \in 1..(n - 1) /\ s1[i] = s[i] /\ s[i].m \in Modules
    <3>1. i \in 1..(n - 1)
      BY <1>0, <1>7
    <3>. QED
      BY <1>0, <1>5, <3>1
  <2>1. ItemInv(c, s, cur, st, anc, i)
    BY <1>0 DEF LinkOK, SearchInv, s, cur
  <2>2. Active(s1, cur, i) <=> Active(s, cur, i)
    <3>1. \A k \in (i + 1)..cur : k \in 1..(n - 1)
      BY <1>0, <1>7
    <3>2. \A k \in (i + 1)..cur : s1[k] = s[k]
      BY <1>5, <3>1
    <3>. QED
      BY <3>2 DEF Active
  <2>3. Examined(c, s1, cur, i) = Examined(c, s, cur, i)
    BY <2>0, <2>2 DEF Examined
  <2>4. ASSUME ~ Active(s1, cur, i)
        PROVE  anc[s1[i].m] < s1[i].dfs /\ anc[s1[s1[i].parent].m] <= anc[s1[i].m]
    <3>1. anc[s[i].m] < s[i].dfs /\ anc[s[s[i].parent].m] <= anc[s[i].m]
      BY <2>1, <2>2, <2>4 DEF ItemInv
    <3>2. i # 1
      <4>1. ASSUME i = 1 PROVE Active(s, cur, i)
        <5>1. base # 1
          BY <1>0, <4>1
        <5>2. 1 <= cur
          BY <1>6, <5>1
        <5>3. \A k \in (1 + 1)..cur : k \in 1..n /\ k # 1
          BY <1>0, <1>7
        <5>4. \A k \in (1 + 1)..cur : s[k].parent \in 1..(k - 1)
          BY <1>0, <5>3 DEF TreeInv, n
        <5>5. \A k \in (1 + 1)..cur : s[k].parent >= 1
          BY <5>4
        <5>. QED
          BY <4>1, <5>2, <5>5 DEF Active
      <4>. QED
        BY <2>2, <2>4, <4>1
    <3>3. s[i].parent \in 1..(i - 1)
      BY <1>0, <2>0, <3>2 DEF TreeInv, n
    <3>4. s[i].parent \in 1..(n - 1)
      BY <1>0, <2>0, <3>3
    <3>5. s1[s[i].parent] = s[s[i].parent]
      BY <1>5, <3>4
    <3>. QED
      BY <2>0, <3>1, <3>5
  <2>5. anc[s1[i].m] <= s1[i].dfs
    BY <2>0, <2>1 DEF ItemInv
  <2>6. ASSUME NEW x \in Examined(c, s1, cur, i)
        PROVE  /\ st1[Goals(c, s1[i].m)[x]] \in Complete \cup {"linking"}
               /\ \A k \in 1..Len(s1) : s1[k].m = Goals(c, s1[i].m)[x] => anc[s1[i].m] <= s1[k].dfs
    <3>1. /\ st[Goals(c, s[i].m)[x]] \in Complete \cup {"linking"}
          /\ \A k \in 1..n : s[k].m = Goals(c, s[i].m)[x] => anc[s[i].m] <= s[k].dfs
      BY <2>1, <2>3 DEF ItemInv, n
    <3>2. Arity(c, s[i].m) \in Nat /\ Goals(c, s[i].m) \in [1..Arity(c, s[i].m) -> Modules]
      BY <1>0, <2>0, GoalFacts
    <3>3. s[i].node <= Arity(c, s[i].m) + 1 /\ s[i].node \in Nat
      BY <1>0, <2>0 DEF TreeInv, n
    <3>4. x \in 1..Arity(c, s[i].m)
      <4>1. x \in 1..(s[i].node - 1) \/ x \in 1..Arity(c, s[i].m)
        BY <2>3 DEF Examined
      <4>. QED
        BY <3>2, <3>3, <4>1
    <3>5. Goals(c, s[i].m)[x] \in Modules
      BY <3>2, <3>4
    <3>. QED
      BY <1>1, <1>5, <1>14, <2>0, <3>1, <3>5
  <2>7. \E k \in 1..i : s1[k].dfs = anc[s1[i].m] /\ Leads(c, s1[i].m, s1[k].m, LinkingIn(st1))
    <3>1. PICK k \in 1..i : s[k].dfs = anc[s[i].m] /\ Leads(c, s[i].m, s[k].m, L)
      BY <2>1 DEF ItemInv, L
    <3>2. k \in 1..(base - 1) /\ k \in 1..(n - 1)
      BY <1>0, <1>7
    <3>3. s1[k] = s[k] /\ s[k].m \notin K
      BY <1>5, <1>13, <3>2
    <3>. HIDE DEF K
    <3>4. Leads(c, s[i].m, s[k].m, L \ {y})
      BY <1>13, <3>1, <3>3, LeadsAround
    <3>. QED
      BY <1>12, <2>0, <3>1, <3>3, <3>4
  <2>. QED
    BY <2>4, <2>5, <2>6, <2>7 DEF ItemInv
<1>16. SearchInv(c, g, st1, anc)
  BY <1>2, <1>8, <1>15 DEF SearchInv
<1>17. ResolvedInv(c, g, st1, res)
  <2>1. ASSUME NEW i \in 1..Len(s1)
        PROVE  /\ DoneNodes(c, g, i) \subseteq res[s1[i].m]
               /\ \A x \in DoneNodes(c, g, i) : st1[Goals(c, s1[i].m)[x]] # "error"
    <3>1. i \in 1..n /\ s1[i] = s[i] /\ s[i].m \in Modules
      BY <1>0, <1>1, <1>5
    <3>2. DoneNodes(c, f, i) = 1..Arity(c, s[i].m) /\ DoneNodes(c, g, i) = 1..Arity(c, s[i].m)
      BY <1>2, <3>1 DEF DoneNodes, s
    <3>3. /\ DoneNodes(c, f, i) \subseteq res[s[i].m]
          /\ \A x \in DoneNodes(c, f, i) : st[Goals(c, s[i].m)[x]] # "error"
      BY <3>1 DEF LinkOK, ResolvedInv, s, n
    <3>4. \A x \in 1..Arity(c, s[i].m) : Goals(c, s[i].m)[x] \in Modules
      <4>1. c \in Programs /\ s[i].m \in Modules
        BY <1>0, <3>1
      <4>2. Goals(c, s[i].m) \in [1..Arity(c, s[i].m) -> Modules]
        BY <4>1, GoalFacts
      <4>. QED
        BY <4>2
    <3>. QED
      BY <1>14, <3>1, <3>2, <3>3, <3>4
  <2>. QED
    BY <1>2, <2>1 DEF ResolvedInv
<1>18. ComponentInv(c, g, st1)
  <2>1. CASE n > base
    <3>1. g.pc = "linked" /\ g.base = base
      BY <1>0, <1>2, <2>1
    <3>2. ASSUME NEW i \in base..(n - 1), NEW t \in Succ(c, s1[i].m)
          PROVE  st1[t] \in Complete \/ \E k \in base..(n - 1) : s1[k].m = t
      <4>1. i \in base..n /\ i \in 1..(n - 1)
        BY <1>0
      <4>2. s1[i] = s[i] /\ s[i].m \in Modules
        BY <1>0, <1>5, <4>1
      <4>3. st[t] \in Complete \/ \E k \in base..n : s[k].m = t
        BY <4>1, <4>2 DEF LinkOK, ComponentInv, Closing, base, s, n
      <4>4. t \in Modules
        BY <1>0, <4>2, GoalFacts
      <4>5. ASSUME NEW k \in base..n, k # n PROVE k \in base..(n - 1) /\ k \in 1..(n - 1)
        <5>1. base \in Nat /\ base >= 1 /\ n \in Nat
          BY <1>0
        <5>2. k \in Nat /\ base <= k /\ k <= n
          BY <5>1
        <5>. QED
          BY <4>5, <5>1, <5>2
      <4>6. st1[y] \in Complete
        BY <1>0, <1>3 DEF Complete
      <4>. QED
        BY <1>3, <1>5, <1>14, <4>3, <4>4, <4>5, <4>6
    <3>. QED
      BY <1>1, <1>2, <3>1, <3>2 DEF ComponentInv
  <2>2. CASE n = base
    BY <1>0, <1>2, <2>2 DEF ComponentInv, Closing
  <2>. QED
    BY <1>2, <2>1, <2>2
<1>19. CountInv(g, st1)
  <2>1. StartedIn(st1) = StartedIn(st)
    <3>1. st[y] = "linking"
      BY <1>0, <1>3 DEF StackInv, s, n
    <3>. QED
      BY <1>0, <1>3, <3>1 DEF StartedIn
  <2>. QED
    BY <1>2, <2>1 DEF LinkOK, CountInv
<1>. QED
  BY <1>2, <1>9, <1>10, <1>11, <1>16, <1>17, <1>18, <1>19 DEF LinkOK

\* The last module of the last component is the only one on the stack.
LEMMA LinkedLast ==
  ASSUME NEW c, NEW f, NEW st, NEW anc, NEW res, LinkTypes(c, f, st, anc),
         LinkOK(c, f, st, anc, res), f.pc = "linked", Len(f.stack) = f.base, f.cur = 0
  PROVE  Len(f.stack) = 1
<1>1. f.base \in 1..Len(f.stack) /\ f.stack[f.base].parent = f.cur
  BY DEF LinkOK, PlaceInv, Closing
<1>2. f.base # 1 => f.stack[f.base].parent \in 1..(f.base - 1)
  BY <1>1 DEF LinkOK, TreeInv
<1>. QED
  BY <1>1, <1>2

-----------------------------------------------------------------------------
(* The calls in progress                                                   *)

\* The three kinds of frames.
LEMMA FrameKinds ==
  ASSUME NEW f \in Frames
  PROVE  /\ f.op = "link" => f \in LinkFrames
         /\ f.op = "import" => f \in ImportFrames /\ f.m \in Modules
         /\ f.op = "evaluate" => /\ f \in EvalFrames /\ f.m \in Modules /\ f.node \in Nat \ {0}
                                 /\ f.pc \in {"imports", "code", "failed"}
         /\ f.op \in {"link", "import", "evaluate"}
<1>1. CASE f \in LinkFrames
  BY <1>1 DEF LinkFrames
<1>2. CASE f \in ImportFrames
  BY <1>2 DEF ImportFrames
<1>3. CASE f \in EvalFrames
  BY <1>3 DEF EvalFrames
<1>. QED
  BY <1>1, <1>2, <1>3 DEF Frames

\* The innermost call.
LEMMA LastFrame ==
  ASSUME NEW fs \in Seq(Frames), fs # <<>>
  PROVE  /\ Len(fs) \in Nat \ {0} /\ Len(fs) \in 1..Len(fs)
         /\ Last(fs) = fs[Len(fs)] /\ Last(fs) \in Frames
         /\ \A i \in 1..Len(fs) : fs[i] \in Frames
<1>1. Len(fs) \in Nat \ {0} /\ Last(fs) = fs[Len(fs)]
  BY EmptySeq DEF Last
<1>2. \A i \in 1..Len(fs) : fs[i] \in Frames
  OBVIOUS
<1>3. Len(fs) \in 1..Len(fs)
  BY <1>1
<1>. QED
  BY <1>1, <1>2, <1>3

\* The innermost frame changes to g,
Changed(fs, g, fs1) == fs1 = [fs EXCEPT ![Len(fs)] = g]

\* The frames when the innermost one changes,
LEMMA ChangedFrames ==
  ASSUME NEW fs \in Seq(Frames), fs # <<>>, NEW g \in Frames, NEW fs1, Changed(fs, g, fs1)
  PROVE  /\ fs1 \in Seq(Frames) /\ fs1 # <<>> /\ Len(fs1) = Len(fs) /\ Last(fs1) = g
         /\ fs1[Len(fs)] = g
         /\ \A i \in 1..Len(fs) : i # Len(fs) => fs1[i] = fs[i]
<1> DEFINE n == Len(fs)
<1>1. n \in Nat \ {0} /\ n \in 1..n
  BY LastFrame
<1>2. fs1 \in Seq(Frames) /\ Len(fs1) = n
  BY DEF Changed
<1>3. fs1[n] = g /\ \A i \in 1..n : i # n => fs1[i] = fs[i]
  BY <1>1 DEF Changed
<1>. HIDE DEF n
<1>4. fs1 # <<>>
  BY <1>1, <1>2
<1>5. Last(fs1) = g
  BY <1>2, <1>3 DEF Last
<1>. QED
  BY <1>2, <1>3, <1>4, <1>5 DEF n

\* or calls g,
Called(fs, g, fs1) == fs1 = Append(fs, g)

\* The frames when one is called,
LEMMA CalledFrames ==
  ASSUME NEW fs \in Seq(Frames), NEW g \in Frames, NEW fs1, Called(fs, g, fs1)
  PROVE  /\ Len(fs) \in Nat
         /\ fs1 \in Seq(Frames) /\ fs1 # <<>> /\ Len(fs1) = Len(fs) + 1 /\ Last(fs1) = g
         /\ fs1[Len(fs) + 1] = g
         /\ \A i \in 1..Len(fs) : fs1[i] = fs[i]
<1>1. /\ Append(fs, g) \in Seq(Frames) /\ Append(fs, g) # <<>>
      /\ Len(Append(fs, g)) = Len(fs) + 1
      /\ \A i \in 1..Len(fs) : Append(fs, g)[i] = fs[i]
      /\ Append(fs, g)[Len(fs) + 1] = g
  BY AppendProperties
<1>2. Last(Append(fs, g)) = g
  BY <1>1 DEF Last
<1>. QED
  BY <1>1, <1>2 DEF Called

\* or goes away.
Gone(fs, fs1) == fs1 = Front(fs)

\* The frames when the innermost one goes away.
LEMMA GoneFrames ==
  ASSUME NEW fs \in Seq(Frames), fs # <<>>, NEW fs1, Gone(fs, fs1)
  PROVE  /\ Len(fs) \in Nat \ {0}
         /\ fs1 \in Seq(Frames) /\ Len(fs1) = Len(fs) - 1
         /\ \A i \in 1..(Len(fs) - 1) : fs1[i] = fs[i]
         /\ fs1 # <<>> => Last(fs1) = fs[Len(fs) - 1] /\ Len(fs) - 1 \in 1..(Len(fs) - 1)
<1>1. /\ Front(fs) \in Seq(Frames) /\ Len(fs) \in Nat \ {0} /\ Len(Front(fs)) = Len(fs) - 1
      /\ \A i \in 1..(Len(fs) - 1) : Front(fs)[i] = fs[i]
  BY FrontFacts
<1>2. fs1 \in Seq(Frames) /\ Len(fs1) = Len(fs) - 1 /\ \A i \in 1..(Len(fs) - 1) : fs1[i] = fs[i]
  BY <1>1 DEF Gone
<1>3. ASSUME fs1 # <<>> PROVE Last(fs1) = fs[Len(fs) - 1] /\ Len(fs) - 1 \in 1..(Len(fs) - 1)
  <2>1. Len(fs1) \in 1..Len(fs1) /\ Last(fs1) = fs1[Len(fs1)]
    BY <1>2, <1>3, LastFrame
  <2>. QED
    BY <1>2, <2>1
<1>. QED
  BY <1>1, <1>2, <1>3

\* The calls after such a step.
LEMMA ChangedCalls ==
  ASSUME NEW c, NEW fs, NEW ca, CallsOK(c, fs, ca), fs # <<>>,
         NEW g \in Frames, NEW ca1, ca \subseteq ca1, FrameInv(c, g, ca1),
         g.op = Last(fs).op, g.op = "evaluate" => g.m = Last(fs).m,
         NEW fs1, Changed(fs, g, fs1)
  PROVE  CallsOK(c, fs1, ca1)
<1> DEFINE n == Len(fs)
<1>0. fs \in Seq(Frames)
  BY DEF CallsOK
<1>1. /\ n \in Nat \ {0} /\ n \in 1..n /\ Last(fs) = fs[n]
      /\ fs1 \in Seq(Frames) /\ Len(fs1) = n /\ fs1[n] = g
      /\ \A i \in 1..n : i # n => fs1[i] = fs[i]
  BY <1>0, LastFrame, ChangedFrames
<1>2. /\ \A i \in 1..n : FrameInv(c, fs[i], ca)
      /\ \A i \in 1..(n - 1) : Calls(c, fs[i], fs[i + 1])
  BY DEF CallsOK
<1>. HIDE DEF n
<1>3. \A i \in 1..n : FrameInv(c, fs1[i], ca1)
  BY <1>1, <1>2 DEF FrameInv
<1>4. ASSUME NEW i \in 1..(n - 1) PROVE Calls(c, fs1[i], fs1[i + 1])
  <2>1. i \in 1..n /\ i # n /\ i + 1 \in 1..n
    BY <1>1
  <2>2. Calls(c, fs[i], fs[i + 1]) /\ fs1[i] = fs[i]
    BY <1>1, <1>2, <2>1
  <2>3. CASE i + 1 = n
    BY <1>1, <2>2, <2>3 DEF Calls
  <2>4. CASE i + 1 # n
    BY <1>1, <2>1, <2>2, <2>4
  <2>. QED
    BY <2>3, <2>4
<1>. QED
  BY <1>1, <1>3, <1>4 DEF CallsOK

\* A call keeps the order of the calls.
LEMMA CalledCalls ==
  ASSUME NEW c, NEW fs, NEW ca, CallsOK(c, fs, ca),
         NEW g \in Frames, NEW ca1, ca \subseteq ca1, FrameInv(c, g, ca1),
         fs # <<>> => Calls(c, Last(fs), g),
         NEW fs1, Called(fs, g, fs1)
  PROVE  CallsOK(c, fs1, ca1)
<1> DEFINE n == Len(fs)
<1>0. fs \in Seq(Frames)
  BY DEF CallsOK
<1>1. /\ n \in Nat /\ fs1 \in Seq(Frames) /\ Len(fs1) = n + 1 /\ fs1[n + 1] = g
      /\ \A i \in 1..n : fs1[i] = fs[i]
  BY <1>0, CalledFrames
<1>2. /\ \A i \in 1..n : FrameInv(c, fs[i], ca)
      /\ \A i \in 1..(n - 1) : Calls(c, fs[i], fs[i + 1])
  BY DEF CallsOK
<1>3. n # 0 => Calls(c, fs[n], g)
  <2>1. n # 0 => fs # <<>>
    OBVIOUS
  <2>. QED
    BY <1>0, <2>1, LastFrame
<1>. HIDE DEF n
<1>4. \A i \in 1..(n + 1) : FrameInv(c, fs1[i], ca1)
  <2>1. \A i \in 1..(n + 1) : i = n + 1 \/ i \in 1..n
    BY <1>1
  <2>. QED
    BY <1>1, <1>2, <2>1 DEF FrameInv
<1>5. ASSUME NEW i \in 1..n PROVE Calls(c, fs1[i], fs1[i + 1])
  <2>1. CASE i = n
    <3>1. n # 0
      BY <1>1, <2>1
    <3>. QED
      BY <1>1, <1>3, <2>1, <3>1
  <2>2. CASE i # n
    <3>1. i \in 1..(n - 1) /\ i + 1 \in 1..n
      BY <1>1, <2>2
    <3>. QED
      BY <1>1, <1>2, <3>1
  <2>. QED
    BY <2>1, <2>2
<1>6. (n + 1) - 1 = n
  BY <1>1
<1>. QED
  BY <1>1, <1>4, <1>5, <1>6 DEF CallsOK

\* A return keeps the order of the calls.
LEMMA GoneCalls ==
  ASSUME NEW c, NEW fs, NEW ca, CallsOK(c, fs, ca), fs # <<>>, NEW fs1, Gone(fs, fs1)
  PROVE  CallsOK(c, fs1, ca) /\ (fs1 # <<>> => Calls(c, Last(fs1), Last(fs)))
<1> DEFINE n == Len(fs)
<1>0. fs \in Seq(Frames)
  BY DEF CallsOK
<1>1. /\ n \in Nat \ {0} /\ fs1 \in Seq(Frames) /\ Len(fs1) = n - 1
      /\ \A i \in 1..(n - 1) : fs1[i] = fs[i]
      /\ fs1 # <<>> => Last(fs1) = fs[n - 1] /\ n - 1 \in 1..(n - 1)
      /\ Last(fs) = fs[n]
  BY <1>0, GoneFrames, LastFrame
<1>2. /\ \A i \in 1..n : FrameInv(c, fs[i], ca)
      /\ \A i \in 1..(n - 1) : Calls(c, fs[i], fs[i + 1])
  BY DEF CallsOK
<1>. HIDE DEF n
<1>3. \A i \in 1..(n - 1) : i \in 1..n
  BY <1>1
<1>4. \A i \in 1..((n - 1) - 1) : i \in 1..(n - 1) /\ i + 1 \in 1..(n - 1)
  BY <1>1
<1>5. fs1 # <<>> => Calls(c, fs[n - 1], fs[n])
  <2>1. (n - 1) + 1 = n
    BY <1>1
  <2>. QED
    BY <1>1, <1>2, <2>1
<1>. QED
  BY <1>1, <1>2, <1>3, <1>4, <1>5 DEF CallsOK

\* States in which what was evaluated still is.
KeepsEvaluated(st, st1) == \A m \in Modules : st[m] = "evaluated" => st1[m] = "evaluated"

\* What a frame has passed stays passed.
LEMMA PassedStays ==
  ASSUME NEW c \in Programs, NEW fs \in Seq(Frames), NEW i \in 1..Len(fs), NEW st, NEW st1,
         FramePassed(c, fs, st, i), KeepsEvaluated(st, st1),
         NEW fs1, \A k \in 1..i : fs1[k] = fs[k]
  PROVE  FramePassed(c, fs1, st1, i)
<1>1. i \in 1..i /\ fs1[i] = fs[i] /\ fs[i] \in Frames
  OBVIOUS
<1>2. ASSUME fs[i].op = "evaluate", NEW x \in 1..Arity(c, fs[i].m),
             x < fs[i].node \/ fs[i].pc = "code"
      PROVE  \/ st1[Goals(c, fs[i].m)[x]] = "evaluated"
             \/ \E k \in 1..i : EvalAt(fs1, k, Goals(c, fs[i].m)[x])
  <2>1. \/ st[Goals(c, fs[i].m)[x]] = "evaluated"
        \/ \E k \in 1..i : EvalAt(fs, k, Goals(c, fs[i].m)[x])
    BY <1>2 DEF FramePassed
  <2>2. fs[i].m \in Modules
    BY <1>1, <1>2, FrameKinds
  <2>3. Goals(c, fs[i].m)[x] \in Modules
    BY <1>2, <2>2, GoalFacts
  <2>4. \A k \in 1..i : EvalAt(fs, k, Goals(c, fs[i].m)[x]) => EvalAt(fs1, k, Goals(c, fs[i].m)[x])
    BY DEF EvalAt
  <2>. QED
    BY <2>1, <2>3, <2>4 DEF KeepsEvaluated
<1>. QED
  BY <1>1, <1>2 DEF FramePassed

\* The evaluations when the innermost frame changes.
LEMMA ChangedEvals ==
  ASSUME NEW c \in Programs, NEW fs \in Seq(Frames), fs # <<>>, NEW st, EvalsOK(c, fs, st),
         NEW g \in Frames, g.op = Last(fs).op, g.op = "evaluate" => g.m = Last(fs).m,
         NEW fs1, Changed(fs, g, fs1), FramePassed(c, fs1, st, Len(fs)),
         NEW st1, KeepsEvaluated(st, st1),
         \A m \in Modules : st1[m] = "evaluating" <=> st[m] = "evaluating"
  PROVE  EvalsOK(c, fs1, st1)
<1> DEFINE n == Len(fs)
<1>1. /\ n \in Nat \ {0} /\ n \in 1..n /\ Last(fs) = fs[n]
      /\ fs1 \in Seq(Frames) /\ Len(fs1) = n /\ fs1[n] = g
      /\ \A i \in 1..n : i # n => fs1[i] = fs[i]
  BY LastFrame, ChangedFrames
<1>2. FramePassed(c, fs1, st, n)
  OBVIOUS
<1>. HIDE DEF n
<1>3. \A i \in 1..n : \A m : EvalAt(fs1, i, m) <=> EvalAt(fs, i, m)
  BY <1>1 DEF EvalAt
<1>4. ASSUME NEW i \in 1..n PROVE FramePassed(c, fs1, st1, i)
  <2>1. CASE i = n
    <3>1. i \in 1..Len(fs1) /\ FramePassed(c, fs1, st, i)
      BY <1>1, <1>2, <2>1
    <3>. QED
      BY <1>1, <3>1, PassedStays
  <2>2. CASE i # n
    <3>1. FramePassed(c, fs, st, i) /\ i \in 1..Len(fs)
      BY DEF EvalsOK, n
    <3>2. \A k \in 1..i : k \in 1..n /\ k # n
      BY <1>1, <2>2
    <3>3. \A k \in 1..i : fs1[k] = fs[k]
      BY <1>1, <3>2
    <3>. QED
      BY <3>1, <3>3, PassedStays
  <2>. QED
    BY <2>1, <2>2
<1>5. \A m \in Modules : st[m] = "evaluating" <=> \E i \in 1..n : EvalAt(fs, i, m)
  BY DEF EvalsOK, n
<1>6. \A i, k \in 1..n : \A m : EvalAt(fs, i, m) /\ EvalAt(fs, k, m) => i = k
  BY DEF EvalsOK, n
<1>7. \A m \in Modules : st1[m] = "evaluating" <=> \E i \in 1..n : EvalAt(fs1, i, m)
  BY <1>3, <1>5
<1>8. \A i, k \in 1..n : \A m : EvalAt(fs1, i, m) /\ EvalAt(fs1, k, m) => i = k
  BY <1>3, <1>6
<1>. QED
  BY <1>1, <1>4, <1>7, <1>8 DEF EvalsOK

\* The evaluations when a frame is called.
LEMMA CalledEvals ==
  ASSUME NEW c \in Programs, NEW fs \in Seq(Frames), NEW st, EvalsOK(c, fs, st),
         NEW g \in Frames,
         g.op = "evaluate" => st[g.m] # "evaluating" /\ g.node = 1 /\ g.pc = "imports",
         NEW fs1, Called(fs, g, fs1),
         NEW st1, KeepsEvaluated(st, st1),
         \A m \in Modules : st1[m] = "evaluating" <=>
                              st[m] = "evaluating" \/ (g.op = "evaluate" /\ g.m = m)
  PROVE  EvalsOK(c, fs1, st1)
<1> DEFINE n == Len(fs)
<1>1. /\ n \in Nat /\ fs1 \in Seq(Frames) /\ Len(fs1) = n + 1 /\ fs1[n + 1] = g
      /\ \A i \in 1..n : fs1[i] = fs[i]
  BY CalledFrames
<1>. HIDE DEF n
<1>2. \A i \in 1..n : \A m : EvalAt(fs1, i, m) <=> EvalAt(fs, i, m)
  BY <1>1 DEF EvalAt
<1>3. \A m : EvalAt(fs1, n + 1, m) <=> g.op = "evaluate" /\ g.m = m
  BY <1>1 DEF EvalAt
<1>4. \A i \in 1..(n + 1) : i = n + 1 \/ i \in 1..n
  BY <1>1
<1>5. \A i \in 1..n : i \in 1..(n + 1)
  BY <1>1
<1>6. \A m \in Modules : st[m] = "evaluating" <=> \E i \in 1..n : EvalAt(fs, i, m)
  BY DEF EvalsOK, n
<1>7. \A i, k \in 1..n : \A m : EvalAt(fs, i, m) /\ EvalAt(fs, k, m) => i = k
  BY DEF EvalsOK, n
<1>8. \A m \in Modules : st1[m] = "evaluating" <=> \E i \in 1..(n + 1) : EvalAt(fs1, i, m)
  <2>1. n + 1 \in 1..(n + 1)
    BY <1>1
  <2>. QED
    BY <1>2, <1>3, <1>4, <1>5, <1>6, <2>1
<1>9. \A i \in 1..n : \A m : ~ (EvalAt(fs1, i, m) /\ EvalAt(fs1, n + 1, m))
  <2>1. g.op = "evaluate" => g.m \in Modules
    BY FrameKinds
  <2>. QED
    BY <1>2, <1>3, <1>6, <2>1
<1>10. \A i, k \in 1..(n + 1) : \A m : EvalAt(fs1, i, m) /\ EvalAt(fs1, k, m) => i = k
  BY <1>2, <1>4, <1>7, <1>9
<1>11. ASSUME NEW i \in 1..n PROVE FramePassed(c, fs1, st1, i)
  <2>1. FramePassed(c, fs, st, i) /\ i \in 1..Len(fs)
    BY DEF EvalsOK, n
  <2>2. \A k \in 1..i : k \in 1..n
    BY <1>1
  <2>3. \A k \in 1..i : fs1[k] = fs[k]
    BY <1>1, <2>2
  <2>. QED
    BY <2>1, <2>3, PassedStays
<1>12. FramePassed(c, fs1, st1, n + 1)
  BY <1>1 DEF FramePassed
<1>. QED
  BY <1>1, <1>4, <1>8, <1>10, <1>11, <1>12 DEF EvalsOK

\* The evaluations when the innermost frame goes away.
LEMMA GoneEvals ==
  ASSUME NEW c \in Programs, NEW fs \in Seq(Frames), fs # <<>>, NEW st, EvalsOK(c, fs, st),
         NEW fs1, Gone(fs, fs1),
         NEW st1, KeepsEvaluated(st, st1),
         \A m \in Modules : st1[m] = "evaluating" <=>
                              st[m] = "evaluating" /\ ~ (Last(fs).op = "evaluate" /\ Last(fs).m = m)
  PROVE  EvalsOK(c, fs1, st1)
<1> DEFINE n == Len(fs)
<1>1. /\ n \in Nat \ {0} /\ fs1 \in Seq(Frames) /\ Len(fs1) = n - 1
      /\ \A i \in 1..(n - 1) : fs1[i] = fs[i]
      /\ Last(fs) = fs[n] /\ n \in 1..n
  BY GoneFrames, LastFrame, SMTT(60)
<1>. HIDE DEF n
<1>2. \A i \in 1..(n - 1) : \A m : EvalAt(fs1, i, m) <=> EvalAt(fs, i, m)
  BY <1>1 DEF EvalAt
<1>3. \A i \in 1..n : i = n \/ i \in 1..(n - 1)
  BY <1>1
<1>4. \A i \in 1..(n - 1) : i \in 1..n /\ i # n
  BY <1>1
<1>5. \A m \in Modules : st[m] = "evaluating" <=> \E i \in 1..n : EvalAt(fs, i, m)
  BY DEF EvalsOK, n
<1>6. \A i, k \in 1..n : \A m : EvalAt(fs, i, m) /\ EvalAt(fs, k, m) => i = k
  BY DEF EvalsOK, n
<1>7. \A m : EvalAt(fs, n, m) <=> Last(fs).op = "evaluate" /\ Last(fs).m = m
  BY <1>1 DEF EvalAt
<1>8. \A m \in Modules : st1[m] = "evaluating" <=> \E i \in 1..(n - 1) : EvalAt(fs1, i, m)
  BY <1>1, <1>2, <1>3, <1>4, <1>5, <1>6, <1>7
<1>9. \A i, k \in 1..(n - 1) : \A m : EvalAt(fs1, i, m) /\ EvalAt(fs1, k, m) => i = k
  BY <1>2, <1>4, <1>6
<1>10. ASSUME NEW i \in 1..(n - 1) PROVE FramePassed(c, fs1, st1, i)
  <2>1. FramePassed(c, fs, st, i) /\ i \in 1..Len(fs)
    BY <1>4 DEF EvalsOK, n
  <2>2. \A k \in 1..i : k \in 1..(n - 1)
    BY <1>1
  <2>3. \A k \in 1..i : fs1[k] = fs[k]
    BY <1>1, <2>2
  <2>. QED
    BY <2>1, <2>3, PassedStays
<1>. QED
  BY <1>1, <1>8, <1>9, <1>10 DEF EvalsOK

\* The calls after the innermost one has returned.
Returned(fs, ok) ==
  LET rest == Front(fs)
      caller == Last(rest)
  IN IF rest = <<>> THEN <<>>
     ELSE IF caller.op = "import"
       THEN IF ok /\ caller.pc = "link"
              THEN [rest EXCEPT ![Len(rest)].pc = "evaluate"]
              ELSE Front(rest)
     ELSE IF caller.pc = "imports"
       THEN IF ok THEN [rest EXCEPT ![Len(rest)].node = @ + 1]
                  ELSE [rest EXCEPT ![Len(rest)].pc = "failed"]
     ELSE rest

\* A call returns to its caller with success or failure.
LEMMA ReturnOK ==
  ASSUME NEW c \in Programs, NEW fs, NEW ca, CallsOK(c, fs, ca), fs # <<>>,
         NEW st, EvalsOK(c, fs, st),
         NEW st1, KeepsEvaluated(st, st1),
         \A m \in Modules : st1[m] = "evaluating" <=>
                              st[m] = "evaluating" /\ ~ (Last(fs).op = "evaluate" /\ Last(fs).m = m),
         NEW ok, ok /\ Last(fs).op = "evaluate" => st1[Last(fs).m] = "evaluated",
         NEW fs1, fs1 = Returned(fs, ok)
  PROVE  CallsOK(c, fs1, ca) /\ EvalsOK(c, fs1, st1) /\ ~ LinkTop(fs1)
<1> DEFINE rest == Front(fs)
           caller == Last(rest)
           n == Len(rest)
           call == Last(fs)
<1>0. fs \in Seq(Frames) /\ Gone(fs, rest)
  BY DEF CallsOK, Gone
<1>1. CallsOK(c, rest, ca) /\ (rest # <<>> => Calls(c, caller, call)) /\ rest \in Seq(Frames)
  <2>1. CallsOK(c, rest, ca) /\ (rest # <<>> => Calls(c, caller, call))
    BY <1>0, GoneCalls
  <2>. QED
    BY <2>1 DEF CallsOK
<1>2. EvalsOK(c, rest, st1)
  BY <1>0, GoneEvals
<1>3. KeepsEvaluated(st1, st1)
  BY DEF KeepsEvaluated
<1>a. rest = <<>> => fs1 = rest
  BY DEF Returned
<1>b. rest # <<>> /\ caller.op = "import" /\ ok /\ caller.pc = "link" =>
        fs1 = [rest EXCEPT ![n].pc = "evaluate"]
  BY DEF Returned
<1>c. rest # <<>> /\ caller.op = "import" /\ ~ (ok /\ caller.pc = "link") => fs1 = Front(rest)
  BY DEF Returned
<1>d. rest # <<>> /\ caller.op # "import" /\ caller.pc = "imports" /\ ok =>
        fs1 = [rest EXCEPT ![n].node = @ + 1]
  BY DEF Returned
<1>e. rest # <<>> /\ caller.op # "import" /\ caller.pc = "imports" /\ ~ ok =>
        fs1 = [rest EXCEPT ![n].pc = "failed"]
  BY DEF Returned
<1>f. rest # <<>> /\ caller.op # "import" /\ caller.pc # "imports" => fs1 = rest
  BY DEF Returned
<1>. HIDE DEF rest, call
<1>4. CASE rest = <<>>
  BY <1>1, <1>2, <1>4, <1>a DEF LinkTop
<1>5. CASE rest # <<>>
  <2>1. /\ Calls(c, caller, call) /\ n \in Nat \ {0} /\ n \in 1..n /\ caller = rest[n] /\ caller \in Frames
        /\ caller.op # "link"
    BY <1>1, <1>5, LastFrame DEF Calls
  <2>2. FrameInv(c, caller, ca)
    BY <1>1, <2>1 DEF CallsOK
  <2>3. FramePassed(c, rest, st1, n)
    BY <1>2, <2>1 DEF EvalsOK
  <2>. HIDE DEF caller, n
  <2>4. ASSUME NEW g \in Frames, Changed(rest, g, fs1), g.op = caller.op,
               g.op = "evaluate" => g.m = caller.m, FrameInv(c, g, ca), FramePassed(c, fs1, st1, n)
        PROVE  CallsOK(c, fs1, ca) /\ EvalsOK(c, fs1, st1) /\ ~ LinkTop(fs1)
    <3>1. CallsOK(c, fs1, ca)
      BY <1>1, <1>5, <2>4, ChangedCalls DEF caller
    <3>2. EvalsOK(c, fs1, st1)
      BY <1>1, <1>2, <1>3, <1>5, <2>4, ChangedEvals DEF caller, n
    <3>3. Last(fs1) = g
      BY <1>1, <1>5, <2>4, ChangedFrames
    <3>. QED
      BY <2>1, <2>4, <3>1, <3>2, <3>3 DEF LinkTop
  <2>5. ASSUME NEW g \in Frames, Changed(rest, g, fs1)
        PROVE  fs1[n] = g /\ \A i \in 1..n : i # n => fs1[i] = rest[i]
    BY <1>1, <1>5, <2>5, ChangedFrames DEF n
  <2>6. CASE caller.op = "import" /\ ok /\ caller.pc = "link"
    <3> DEFINE g == [caller EXCEPT !.pc = "evaluate"]
    <3>1. caller \in ImportFrames
      BY <2>1, <2>6, FrameKinds
    <3>2. g \in ImportFrames /\ g.op = "import" /\ g.m = caller.m
      BY <3>1 DEF ImportFrames
    <3>3. g \in Frames
      BY <3>2 DEF Frames
    <3>4. Changed(rest, g, fs1)
      BY <1>5, <1>b, <2>1, <2>6 DEF Changed, n
    <3>. HIDE DEF g
    <3>5. FramePassed(c, fs1, st1, n)
      BY <2>5, <3>2, <3>3, <3>4 DEF FramePassed
    <3>6. FrameInv(c, g, ca)
      BY <2>2, <2>6, <3>2 DEF FrameInv
    <3>. QED
      BY <2>4, <2>6, <3>2, <3>3, <3>4, <3>5, <3>6
  <2>7. CASE caller.op = "import" /\ ~ (ok /\ caller.pc = "link")
    <3>1. Gone(rest, fs1)
      BY <1>5, <1>c, <2>7 DEF Gone
    <3>2. CallsOK(c, fs1, ca) /\ (fs1 # <<>> => Calls(c, Last(fs1), caller))
      BY <1>1, <1>5, <3>1, GoneCalls DEF caller
    <3>3. EvalsOK(c, fs1, st1)
      BY <1>1, <1>2, <1>3, <1>5, <2>7, <3>1, GoneEvals DEF caller
    <3>. QED
      BY <3>2, <3>3 DEF LinkTop, Calls
  <2>8. CASE caller.op # "import" /\ caller.pc = "imports"
    <3>0. caller.op = "evaluate"
      BY <2>1, <2>8, FrameKinds
    <3>1. /\ caller \in EvalFrames /\ caller.node \in Nat \ {0} /\ caller.node <= Arity(c, caller.m)
          /\ call.op = "evaluate" /\ call.m = Goals(c, caller.m)[caller.node]
          /\ Arity(c, caller.m) \in Nat
      <4>1. caller \in EvalFrames /\ caller.node \in Nat \ {0} /\ caller.m \in Modules
        BY <2>1, <3>0, FrameKinds
      <4>. QED
        BY <2>1, <2>8, <3>0, <4>1, GoalFacts DEF Calls
    <3>2. CASE ok
      <4> DEFINE g == [caller EXCEPT !.node = @ + 1]
      <4>1. caller.node + 1 \in Nat \ {0}
        BY <3>1
      <4>2. /\ g \in EvalFrames /\ g.op = "evaluate" /\ g.m = caller.m /\ g.pc = "imports"
            /\ g.node = caller.node + 1
        BY <2>8, <3>1, <4>1 DEF EvalFrames
      <4>3. g \in Frames
        BY <4>2 DEF Frames
      <4>4. Changed(rest, g, fs1)
        BY <1>5, <1>d, <2>1, <2>8, <3>2 DEF Changed, n
      <4>. HIDE DEF g
      <4>5. fs1[n] = g /\ \A i \in 1..n : i # n => fs1[i] = rest[i]
        BY <2>5, <4>3, <4>4
      <4>6. FrameInv(c, g, ca)
        BY <3>1, <4>2 DEF FrameInv
      <4>7. ASSUME NEW x \in 1..Arity(c, caller.m), x < caller.node + 1
            PROVE  \/ st1[Goals(c, caller.m)[x]] = "evaluated"
                   \/ \E k \in 1..n : EvalAt(fs1, k, Goals(c, caller.m)[x])
        <5>1. CASE x = caller.node
          BY <3>1, <3>2, <5>1 DEF call
        <5>2. CASE x # caller.node
          <6>1. x < caller.node
            BY <3>1, <4>7, <5>2
          <6>2. \/ st1[Goals(c, caller.m)[x]] = "evaluated"
                \/ \E k \in 1..n : EvalAt(rest, k, Goals(c, caller.m)[x])
            BY <2>1, <2>3, <3>0, <6>1 DEF FramePassed
          <6>3. \A k \in 1..n : \A m : EvalAt(rest, k, m) => EvalAt(fs1, k, m)
            BY <2>1, <3>0, <4>2, <4>5 DEF EvalAt
          <6>. QED
            BY <6>2, <6>3
        <5>. QED
          BY <5>1, <5>2
      <4>8. FramePassed(c, fs1, st1, n)
        BY <4>2, <4>5, <4>7 DEF FramePassed
      <4>. QED
        BY <2>4, <3>0, <4>2, <4>3, <4>4, <4>6, <4>8
    <3>3. CASE ~ ok
      <4> DEFINE g == [caller EXCEPT !.pc = "failed"]
      <4>2. /\ g \in EvalFrames /\ g.op = "evaluate" /\ g.m = caller.m /\ g.pc = "failed"
            /\ g.node = caller.node
        BY <2>8, <3>1 DEF EvalFrames
      <4>3. g \in Frames
        BY <4>2 DEF Frames
      <4>4. Changed(rest, g, fs1)
        BY <1>5, <1>e, <2>1, <2>8, <3>3 DEF Changed, n
      <4>. HIDE DEF g
      <4>5. fs1[n] = g /\ \A i \in 1..n : i # n => fs1[i] = rest[i]
        BY <2>5, <4>3, <4>4
      <4>6. FrameInv(c, g, ca)
        BY <2>2, <3>0, <4>2 DEF FrameInv
      <4>7. ASSUME NEW x \in 1..Arity(c, caller.m), x < caller.node
            PROVE  \/ st1[Goals(c, caller.m)[x]] = "evaluated"
                   \/ \E k \in 1..n : EvalAt(fs1, k, Goals(c, caller.m)[x])
        <5>1. \/ st1[Goals(c, caller.m)[x]] = "evaluated"
              \/ \E k \in 1..n : EvalAt(rest, k, Goals(c, caller.m)[x])
          BY <2>1, <2>3, <3>0, <4>7 DEF FramePassed
        <5>2. \A k \in 1..n : \A m : EvalAt(rest, k, m) => EvalAt(fs1, k, m)
          BY <2>1, <3>0, <4>2, <4>5 DEF EvalAt
        <5>. QED
          BY <5>1, <5>2
      <4>8. FramePassed(c, fs1, st1, n)
        BY <4>2, <4>5, <4>7 DEF FramePassed
      <4>. QED
        BY <2>4, <3>0, <4>2, <4>3, <4>4, <4>6, <4>8
    <3>. QED
      BY <3>2, <3>3
  <2>9. CASE caller.op # "import" /\ caller.pc # "imports"
    <3>1. fs1 = rest
      BY <1>5, <1>f, <2>9
    <3>. QED
      BY <1>1, <1>2, <2>1, <3>1 DEF LinkTop, caller
  <2>. QED
    BY <2>6, <2>7, <2>8, <2>9
<1>. QED
  BY <1>4, <1>5

-----------------------------------------------------------------------------
(* The whole invariant                                                     *)

\* What a step does to the states.
Forward(st, st1) ==
  \A m \in Modules :
    /\ st[m] \in Complete => st1[m] \notin {"unlinked", "linking"}
    /\ st[m] \in {"evaluated", "error"} => st1[m] = st[m]

\* A module that cannot be linked stays so, whatever gets linked.
LEMMA DoomedKeeps ==
  ASSUME NEW c, NEW st, NEW st1, NEW m, Doomed(c, st, m),
         NEW K \in SUBSET Modules, Closed(c, K, IncompleteIn(st)), \A k \in K : st[k] # "error",
         IncompleteIn(st) \ K \subseteq IncompleteIn(st1),
         \A k \in Modules : st[k] = "error" => st1[k] = "error"
  PROVE  Doomed(c, st1, m)
<1>. SUFFICES ASSUME NEW C \in SUBSET Modules, m \in C, Closed(c, C, IncompleteIn(st1))
              PROVE  \E k \in C : st1[k] = "error"
  BY DEF Doomed
<1>1. Closed(c, C \cup K, IncompleteIn(st))
  BY DEF Closed
<1>2. C \cup K \in SUBSET Modules /\ m \in C \cup K
  OBVIOUS
<1>3. PICK k \in C \cup K : st[k] = "error"
  BY <1>1, <1>2 DEF Doomed
<1>. QED
  BY <1>3

\* The namespaces that were made early are kept when the closed set K completes.
LEMMA NamespaceKeeps ==
  ASSUME NEW c, NEW st, NEW st1, NEW hn, NEW hn1, NEW G, NEW G1, NamespaceKept(c, st, hn, G),
         NEW K \in SUBSET Modules, Closed(c, K, IncompleteIn(st)), \A k \in K : st[k] # "error",
         IncompleteIn(st) \ K \subseteq IncompleteIn(st1),
         \A k \in Modules : st[k] = "error" => st1[k] = "error",
         \A m \in hn1 : st1[m] \in {"unlinked", "linking"} =>
           \/ m \in G1
           \/ /\ m \in hn /\ st[m] \in {"unlinked", "linking"}
              /\ m \in G => m \in G1 \/ Doomed(c, st1, m)
  PROVE  NamespaceKept(c, st1, hn1, G1)
<1>1. \A m : Doomed(c, st, m) => Doomed(c, st1, m)
  BY DoomedKeeps
<1>. QED
  BY <1>1, Zenon DEF NamespaceKept

\* The imports of complete modules are complete, when more modules complete.
LEMMA ClosedKeeps ==
  ASSUME NEW c \in Programs, NEW st, NEW st1, NEW res, NEW res1, NEW P, NEW P1, ClosedUp(c, st, res, P),
         \A m \in Modules : st1[m] \in Complete =>
           \/ st[m] \in Complete /\ res1[m] = res[m]
           \/ /\ res1[m] = 1..Arity(c, m)
              /\ \A t \in Succ(c, m) : st1[t] \in Complete \cup {"error"} \/ t \in P1,
         \A m \in Modules : st[m] \in Complete \cup {"error"} => st1[m] \in Complete \cup {"error"},
         \A m \in Modules : m \in P => m \in P1 \/ st1[m] \in Complete \cup {"error"}
  PROVE  ClosedUp(c, st1, res1, P1)
<1>. SUFFICES ASSUME NEW m \in Modules, st1[m] \in Complete
              PROVE  /\ res1[m] = 1..Arity(c, m)
                     /\ \A t \in Succ(c, m) : st1[t] \in Complete \cup {"error"} \/ t \in P1
  BY DEF ClosedUp
<1>1. Succ(c, m) \subseteq Modules
  BY GoalFacts
<1>2. CASE st[m] \in Complete /\ res1[m] = res[m]
  <2>1. /\ res[m] = 1..Arity(c, m)
        /\ \A t \in Succ(c, m) : st[t] \in Complete \cup {"error"} \/ t \in P
    BY <1>2 DEF ClosedUp
  <2>. QED
    BY <1>1, <1>2, <2>1
<1>. QED
  BY <1>2

\* What a link step that goes on has to show.
LEMMA LinkGoesOn ==
  ASSUME NEW c, NEW fs, NEW ca, NEW st, NEW anc, NEW res, NEW hn,
         ModuleOK(c, fs, ca, st, anc, res, hn), LinkTop(fs),
         NEW g \in LinkFrames, NEW fs1, Changed(fs, g, fs1),
         NEW ca1, NEW st1, NEW anc1, NEW res1, NEW hn1, ca \subseteq ca1,
         TypesOK(c, ca1, st1, anc1, res1, hn1), KeepsEvaluated(st, st1),
         \A m \in Modules : st1[m] = "evaluating" <=> st[m] = "evaluating",
         LinkOK(c, g, st1, anc1, res1), CacheOK(c, ca1, st1, res1),
         ClosedUp(c, st1, res1, Pending(g)),
         NamespaceKept(c, st1, hn1, Granted(g)), NamespaceFirst(g, hn1)
  PROVE  ModuleOK(c, fs1, ca1, st1, anc1, res1, hn1)
<1>0. /\ c \in Programs /\ fs \in Seq(Frames) /\ fs # <<>> /\ CallsOK(c, fs, ca) /\ EvalsOK(c, fs, st)
      /\ Last(fs).op = "link"
  BY DEF ModuleOK, TypesOK, CallsOK, LinkTop
<1>1. g \in Frames /\ g.op = "link"
  BY LinkFields DEF Frames
<1>2. fs1 # <<>> /\ Last(fs1) = g /\ fs1[Len(fs)] = g
  BY <1>0, <1>1, ChangedFrames
<1>3. CallsOK(c, fs1, ca1)
  <2>1. FrameInv(c, g, ca1)
    BY <1>1 DEF FrameInv
  <2>. QED
    BY <1>0, <1>1, <2>1, ChangedCalls
<1>4. EvalsOK(c, fs1, st1)
  <2>1. FramePassed(c, fs1, st, Len(fs))
    BY <1>1, <1>2 DEF FramePassed
  <2>. QED
    BY <1>0, <1>1, <2>1, ChangedEvals
<1>5. LinkTop(fs1) /\ PendingIn(fs1) = Pending(g) /\ GrantedIn(fs1) = Granted(g)
  BY <1>1, <1>2 DEF LinkTop, PendingIn, GrantedIn
<1>. QED
  BY <1>2, <1>3, <1>4, <1>5 DEF ModuleOK, LinkPart

\* What a step has to show after which no link is in progress.
LEMMA NoLinkLeft ==
  ASSUME NEW c, NEW fs1, NEW ca1, NEW st1, NEW anc1, NEW res1, NEW hn1,
         TypesOK(c, ca1, st1, anc1, res1, hn1), CallsOK(c, fs1, ca1), EvalsOK(c, fs1, st1),
         ~ LinkTop(fs1), \A m \in Modules : st1[m] # "linking",
         CacheOK(c, ca1, st1, res1), ClosedUp(c, st1, res1, {}), NamespaceKept(c, st1, hn1, {})
  PROVE  ModuleOK(c, fs1, ca1, st1, anc1, res1, hn1)
BY DEF ModuleOK, LinkPart, PendingIn, GrantedIn

\* What a link in progress can count on.
LEMMA LinkInProgress ==
  ASSUME NEW c, NEW fs, NEW ca, NEW st, NEW anc, NEW res, NEW hn,
         ModuleOK(c, fs, ca, st, anc, res, hn), LinkTop(fs)
  PROVE  /\ LinkTypes(c, Last(fs), st, anc) /\ LinkOK(c, Last(fs), st, anc, res)
         /\ fs \in Seq(Frames) /\ fs # <<>> /\ Last(fs) \in LinkFrames
         /\ CallsOK(c, fs, ca) /\ EvalsOK(c, fs, st) /\ CacheOK(c, ca, st, res)
         /\ TypesOK(c, ca, st, anc, res, hn)
         /\ ClosedUp(c, st, res, Pending(Last(fs))) /\ NamespaceKept(c, st, hn, Granted(Last(fs)))
         /\ NamespaceFirst(Last(fs), hn)
<1>1. /\ LinkOK(c, Last(fs), st, anc, res)
      /\ fs \in Seq(Frames) /\ fs # <<>> /\ CallsOK(c, fs, ca) /\ EvalsOK(c, fs, st) /\ CacheOK(c, ca, st, res)
      /\ TypesOK(c, ca, st, anc, res, hn)
      /\ ClosedUp(c, st, res, Pending(Last(fs))) /\ NamespaceKept(c, st, hn, Granted(Last(fs)))
      /\ NamespaceFirst(Last(fs), hn) /\ Last(fs).op = "link"
  BY DEF ModuleOK, LinkPart, LinkTop, PendingIn, GrantedIn, CallsOK
<1>2. Last(fs) \in LinkFrames
  BY <1>1, LastFrame, FrameKinds
<1>3. anc \in [Modules -> Nat]
  <2>1. Cardinality(Modules) \in Nat
    BY StartedFinite
  <2>2. 0..Cardinality(Modules) \subseteq Nat
    BY <2>1
  <2>. QED
    BY <1>1, <2>2 DEF TypesOK
<1>. QED
  BY <1>1, <1>2, <1>3 DEF LinkTypes, TypesOK

-----------------------------------------------------------------------------
(* The steps outside of a link                                             *)

\* The invariant in two parts, before a step,
LEMMA InvParts ==
  ModuleInv <=> /\ ModuleOK(code, frames, cache, state, ancestor, resolved, hasNs)
                /\ RestOK(threw, owner, ns)
BY DEF ModuleInv, RestOK, TypeOK, ModuleOK, TypesOK, Arity

\* and after it.
LEMMA InvPartsNext ==
  ModuleInv' <=> /\ ModuleOK(code', frames', cache', state', ancestor', resolved', hasNs')
                 /\ RestOK(threw', owner', ns')
BY DEF ModuleInv, RestOK, TypeOK, ModuleOK, TypesOK, Arity

\* A step that links nothing.
LEMMA QuietStep ==
  ASSUME NEW c \in Programs, NEW st, NEW st1, NEW res, NEW hn \in SUBSET Modules, NEW P, NEW G,
         ClosedUp(c, st, res, P), NamespaceKept(c, st, hn, G),
         \A k \in Modules : st1[k] \in Complete => st[k] \in Complete,
         \A k \in Modules : st[k] \in Complete \cup {"error"} => st1[k] \in Complete \cup {"error"},
         \A k \in Modules : st[k] = "error" => st1[k] = "error",
         \A k \in Modules : st1[k] \in {"unlinked", "linking"} => st[k] \in {"unlinked", "linking"}
  PROVE  ClosedUp(c, st1, res, P) /\ NamespaceKept(c, st1, hn, G)
<1>1. ClosedUp(c, st1, res, P)
  <2>1. \A m \in Modules : st1[m] \in Complete =>
           \/ st[m] \in Complete /\ res[m] = res[m]
           \/ /\ res[m] = 1..Arity(c, m)
              /\ \A t \in Succ(c, m) : st1[t] \in Complete \cup {"error"} \/ t \in P
    OBVIOUS
  <2>2. \A m \in Modules : m \in P => m \in P \/ st1[m] \in Complete \cup {"error"}
    OBVIOUS
  <2>. QED
    BY <2>1, <2>2, ClosedKeeps, Zenon
<1>2. NamespaceKept(c, st1, hn, G)
  <2>1. \A C \in SUBSET Modules : Closed(c, C, IncompleteIn(st1)) => Closed(c, C, IncompleteIn(st))
    BY DEF Closed, IncompleteIn
  <2>2. \A m : Doomed(c, st, m) => Doomed(c, st1, m)
    BY <2>1 DEF Doomed
  <2>3. \A m \in hn : st1[m] \in {"unlinked", "linking"} => st[m] \in {"unlinked", "linking"}
    OBVIOUS
  <2>. QED
    BY <2>2, <2>3, Zenon DEF NamespaceKept
<1>. QED
  BY <1>1, <1>2

\* When no link is in progress.
LEMMA NoLinkNow ==
  ASSUME NEW c, NEW fs, NEW ca, NEW st, NEW anc, NEW res, NEW hn,
         ModuleOK(c, fs, ca, st, anc, res, hn), ~ LinkTop(fs)
  PROVE  /\ c \in Programs /\ fs \in Seq(Frames) /\ CallsOK(c, fs, ca) /\ EvalsOK(c, fs, st)
         /\ CacheOK(c, ca, st, res) /\ TypesOK(c, ca, st, anc, res, hn)
         /\ ClosedUp(c, st, res, {}) /\ NamespaceKept(c, st, hn, {})
         /\ \A m \in Modules : st[m] # "linking"
         /\ st \in [Modules -> States] /\ anc \in [Modules -> Nat]
<1>1. 0..Cardinality(Modules) \subseteq Nat
  BY StartedFinite
<1>2. TypesOK(c, ca, st, anc, res, hn) /\ CallsOK(c, fs, ca)
  BY DEF ModuleOK
<1>3. st \in [Modules -> States] /\ anc \in [Modules -> Nat] /\ c \in Programs /\ fs \in Seq(Frames)
  BY <1>1, <1>2 DEF TypesOK, CallsOK
<1>. QED
  BY <1>2, <1>3 DEF ModuleOK, LinkPart, PendingIn, GrantedIn

\* A step that changes the innermost frame only.
LEMMA FrameChanges ==
  ASSUME NEW c, NEW fs, NEW ca, NEW st, NEW anc, NEW res, NEW hn,
         ModuleOK(c, fs, ca, st, anc, res, hn), ~ LinkTop(fs), fs # <<>>,
         NEW g \in Frames, g.op = Last(fs).op, g.op = "evaluate" => g.m = Last(fs).m,
         FrameInv(c, g, ca), NEW fs1, Changed(fs, g, fs1), FramePassed(c, fs1, st, Len(fs))
  PROVE  ModuleOK(c, fs1, ca, st, anc, res, hn) /\ ~ LinkTop(fs1) /\ fs1 # <<>> /\ Last(fs1) = g
<1>1. /\ c \in Programs /\ fs \in Seq(Frames) /\ CallsOK(c, fs, ca) /\ EvalsOK(c, fs, st)
      /\ CacheOK(c, ca, st, res) /\ TypesOK(c, ca, st, anc, res, hn)
      /\ ClosedUp(c, st, res, {}) /\ NamespaceKept(c, st, hn, {})
      /\ \A m \in Modules : st[m] # "linking"
  BY NoLinkNow
<1>2. fs1 # <<>> /\ Last(fs1) = g
  BY <1>1, ChangedFrames
<1>3. ~ LinkTop(fs1)
  BY <1>2 DEF LinkTop
<1>4. CallsOK(c, fs1, ca)
  BY <1>1, ChangedCalls
<1>5. EvalsOK(c, fs1, st)
  <2>1. KeepsEvaluated(st, st)
    BY DEF KeepsEvaluated
  <2>. QED
    BY <1>1, <2>1, ChangedEvals
<1>. QED
  BY <1>1, <1>2, <1>3, <1>4, <1>5, NoLinkLeft

\* jjs_module_link begins.
LEMMA LinkBegins ==
  ASSUME NEW c, NEW fs, NEW ca, NEW st, NEW anc, NEW res, NEW hn,
         ModuleOK(c, fs, ca, st, anc, res, hn), ~ LinkTop(fs),
         NEW m \in Modules, m \in ca, st[m] = "unlinked",
         fs # <<>> => Calls(c, Last(fs), NewLink(m)),
         NEW fs1, Called(fs, NewLink(m), fs1),
         NEW st1, st1 = [st EXCEPT ![m] = "linking"],
         NEW anc1, anc1 = [anc EXCEPT ![m] = 0]
  PROVE  ModuleOK(c, fs1, ca, st1, anc1, res, hn) /\ Forward(st, st1)
<1>1. /\ c \in Programs /\ fs \in Seq(Frames) /\ CallsOK(c, fs, ca) /\ EvalsOK(c, fs, st)
      /\ CacheOK(c, ca, st, res) /\ TypesOK(c, ca, st, anc, res, hn)
      /\ ClosedUp(c, st, res, {}) /\ NamespaceKept(c, st, hn, {})
      /\ \A k \in Modules : st[k] # "linking"
      /\ st \in [Modules -> States] /\ anc \in [Modules -> Nat]
  BY NoLinkNow
<1>2. NewLink(m) \in LinkFrames /\ LinkOK(c, NewLink(m), st1, anc1, res)
  BY <1>1, NewLinkOK
<1>3. /\ \A k \in Modules : k # m => st1[k] = st[k] /\ anc1[k] = anc[k]
      /\ st1[m] = "linking" /\ st1 \in [Modules -> States]
  BY <1>1 DEF States
<1> DEFINE g == NewLink(m)
<1>4. g \in Frames /\ g.op = "link" /\ g.pc = "resolve"
  BY <1>2 DEF Frames, NewLink
<1>5. TypesOK(c, ca, st1, anc1, res, hn)
  <2>1. 0 \in 0..Cardinality(Modules)
    BY StartedFinite
  <2>2. anc1 \in [Modules -> 0..Cardinality(Modules)]
    BY <1>1, <2>1 DEF TypesOK
  <2>. QED
    BY <1>1, <1>3, <2>2 DEF TypesOK
<1>6. Pending(g) = {} /\ Granted(g) = {} /\ NamespaceFirst(g, hn)
  BY <1>4 DEF Pending, Granted, NamespaceFirst
<1>. HIDE DEF g
<1>7. KeepsEvaluated(st, st1)
  BY <1>3 DEF KeepsEvaluated
<1>8. fs1 # <<>> /\ Last(fs1) = g
  BY <1>1, <1>4, CalledFrames DEF g
<1>9. CallsOK(c, fs1, ca)
  <2>1. FrameInv(c, g, ca)
    BY <1>4 DEF FrameInv
  <2>. QED
    BY <1>1, <1>4, <2>1, CalledCalls DEF g
<1>10. EvalsOK(c, fs1, st1)
  <2>1. \A k \in Modules : st1[k] = "evaluating" <=>
                             st[k] = "evaluating" \/ (g.op = "evaluate" /\ g.m = k)
    BY <1>3, <1>4
  <2>2. g.op = "evaluate" => st[g.m] # "evaluating" /\ g.node = 1 /\ g.pc = "imports"
    BY <1>4
  <2>. QED
    BY <1>1, <1>4, <1>7, <2>1, <2>2, CalledEvals DEF g
<1>11. CacheOK(c, ca, st1, res)
  BY <1>1, <1>3 DEF CacheOK
<1>12. hn \in SUBSET Modules /\ \A k \in Modules :
         /\ st1[k] \in Complete => st[k] \in Complete
         /\ st[k] \in Complete \cup {"error"} => st1[k] \in Complete \cup {"error"}
         /\ st[k] = "error" => st1[k] = "error"
         /\ st1[k] \in {"unlinked", "linking"} => st[k] \in {"unlinked", "linking"}
  BY <1>1, <1>3 DEF Complete, TypesOK
<1>13. ClosedUp(c, st1, res, {}) /\ NamespaceKept(c, st1, hn, {})
  BY <1>1, <1>12, QuietStep, Zenon
<1>14. LinkTop(fs1) /\ PendingIn(fs1) = {} /\ GrantedIn(fs1) = {}
  BY <1>4, <1>6, <1>8 DEF LinkTop, PendingIn, GrantedIn
<1>15. Forward(st, st1)
  BY <1>3 DEF Forward, Complete
<1>16. ModuleOK(c, fs1, ca, st1, anc1, res, hn)
  BY <1>2, <1>5, <1>6, <1>8, <1>9, <1>10, <1>11, <1>12, <1>13, <1>14 DEF ModuleOK, LinkPart, g
<1>. QED
  BY <1>15, <1>16

\* ecma_module_evaluate begins.
NewEvaluate(m) == [op |-> "evaluate", m |-> m, node |-> 1, pc |-> "imports"]

\* The beginning of an evaluation keeps the invariant.
LEMMA EvaluateBegins ==
  ASSUME NEW c, NEW fs, NEW ca, NEW st, NEW anc, NEW res, NEW hn,
         ModuleOK(c, fs, ca, st, anc, res, hn), ~ LinkTop(fs),
         NEW m \in Modules, st[m] = "linked",
         fs # <<>> => Calls(c, Last(fs), NewEvaluate(m)),
         NEW fs1, Called(fs, NewEvaluate(m), fs1),
         NEW st1, Put(st, m, "evaluating", st1)
  PROVE  ModuleOK(c, fs1, ca, st1, anc, res, hn) /\ Forward(st, st1)
<1> DEFINE g == NewEvaluate(m)
<1>1. /\ c \in Programs /\ fs \in Seq(Frames) /\ CallsOK(c, fs, ca) /\ EvalsOK(c, fs, st)
      /\ CacheOK(c, ca, st, res) /\ TypesOK(c, ca, st, anc, res, hn)
      /\ ClosedUp(c, st, res, {}) /\ NamespaceKept(c, st, hn, {})
      /\ \A k \in Modules : st[k] # "linking"
      /\ st \in [Modules -> States] /\ anc \in [Modules -> Nat]
  BY NoLinkNow
<1>2. /\ \A k \in Modules : k # m => st1[k] = st[k]
      /\ st1[m] = "evaluating" /\ st1 \in [Modules -> States]
  BY <1>1 DEF States, Put
<1>3. g \in Frames /\ g.op = "evaluate" /\ g.m = m /\ g.node = 1 /\ g.pc = "imports"
  BY DEF Frames, EvalFrames, NewEvaluate
<1>. HIDE DEF g
<1>4. TypesOK(c, ca, st1, anc, res, hn)
  BY <1>1, <1>2 DEF TypesOK
<1>5. KeepsEvaluated(st, st1)
  BY <1>2 DEF KeepsEvaluated
<1>6. fs1 # <<>> /\ Last(fs1) = g
  BY <1>1, <1>3, CalledFrames DEF g
<1>7. ~ LinkTop(fs1)
  BY <1>3, <1>6 DEF LinkTop
<1>8. CallsOK(c, fs1, ca)
  <2>1. Arity(c, m) \in Nat
    BY <1>1, GoalFacts
  <2>2. FrameInv(c, g, ca)
    BY <1>3, <2>1 DEF FrameInv
  <2>. QED
    BY <1>1, <1>3, <2>2, CalledCalls DEF g
<1>9. EvalsOK(c, fs1, st1)
  <2>1. \A k \in Modules : st1[k] = "evaluating" <=>
                             st[k] = "evaluating" \/ (g.op = "evaluate" /\ g.m = k)
    BY <1>2, <1>3
  <2>2. g.op = "evaluate" => st[g.m] # "evaluating" /\ g.node = 1 /\ g.pc = "imports"
    BY <1>3
  <2>3. g \in Frames /\ Called(fs, g, fs1)
    BY <1>3 DEF g
  <2>4. c \in Programs /\ fs \in Seq(Frames) /\ EvalsOK(c, fs, st)
    BY <1>1
  <2>. QED
    BY <1>5, <2>1, <2>2, <2>3, <2>4, CalledEvals
<1>10. CacheOK(c, ca, st1, res)
  BY <1>1, <1>2 DEF CacheOK
<1>11. hn \in SUBSET Modules /\ \A k \in Modules :
         /\ st1[k] \in Complete => st[k] \in Complete
         /\ st[k] \in Complete \cup {"error"} => st1[k] \in Complete \cup {"error"}
         /\ st[k] = "error" => st1[k] = "error"
         /\ st1[k] \in {"unlinked", "linking"} => st[k] \in {"unlinked", "linking"}
  BY <1>1, <1>2 DEF Complete, TypesOK
<1>12. ClosedUp(c, st1, res, {}) /\ NamespaceKept(c, st1, hn, {})
  BY <1>1, <1>11, QuietStep, Zenon
<1>13. Forward(st, st1)
  BY <1>2 DEF Forward, Complete
<1>14. \A k \in Modules : st1[k] # "linking"
  BY <1>1, <1>2
<1>. QED
  BY <1>4, <1>7, <1>8, <1>9, <1>10, <1>11, <1>12, <1>13, <1>14, NoLinkLeft

\* The evaluation of m returns: v is its state then.
LEMMA EvaluateReturns ==
  ASSUME NEW c, NEW fs, NEW ca, NEW st, NEW anc, NEW res, NEW hn,
         ModuleOK(c, fs, ca, st, anc, res, hn), fs # <<>>, Last(fs).op = "evaluate",
         NEW m, m = Last(fs).m, NEW v \in {"evaluated", "error"},
         NEW ok, ok => v = "evaluated",
         NEW fs1, fs1 = Returned(fs, ok),
         NEW st1, Put(st, m, v, st1)
  PROVE  ModuleOK(c, fs1, ca, st1, anc, res, hn) /\ Forward(st, st1) /\ m \in Modules
<1>0. ~ LinkTop(fs)
  BY DEF LinkTop
<1>1. /\ c \in Programs /\ fs \in Seq(Frames) /\ CallsOK(c, fs, ca) /\ EvalsOK(c, fs, st)
      /\ CacheOK(c, ca, st, res) /\ TypesOK(c, ca, st, anc, res, hn)
      /\ ClosedUp(c, st, res, {}) /\ NamespaceKept(c, st, hn, {})
      /\ \A k \in Modules : st[k] # "linking"
      /\ st \in [Modules -> States] /\ anc \in [Modules -> Nat]
  BY <1>0, NoLinkNow
<1>2. /\ Len(fs) \in 1..Len(fs) /\ fs[Len(fs)] = Last(fs) /\ m \in Modules
  BY <1>1, LastFrame, FrameKinds
<1>3. st[m] = "evaluating"
  BY <1>1, <1>2 DEF EvalsOK, EvalAt
<1>4. /\ \A k \in Modules : k # m => st1[k] = st[k]
      /\ st1[m] = v /\ st1 \in [Modules -> States]
  BY <1>1, <1>2 DEF States, Put
<1>5. TypesOK(c, ca, st1, anc, res, hn)
  BY <1>1, <1>4 DEF TypesOK
<1>6. KeepsEvaluated(st, st1)
  BY <1>3, <1>4 DEF KeepsEvaluated
<1>7. CallsOK(c, fs1, ca) /\ EvalsOK(c, fs1, st1) /\ ~ LinkTop(fs1)
  <2>1. \A k \in Modules : st1[k] = "evaluating" <=>
                              st[k] = "evaluating" /\ ~ (Last(fs).op = "evaluate" /\ Last(fs).m = k)
    BY <1>3, <1>4
  <2>2. ok /\ Last(fs).op = "evaluate" => st1[Last(fs).m] = "evaluated"
    BY <1>4
  <2>3. c \in Programs /\ CallsOK(c, fs, ca) /\ EvalsOK(c, fs, st)
    BY <1>1
  <2>. QED
    BY <1>6, <2>1, <2>2, <2>3, ReturnOK
<1>8. CacheOK(c, ca, st1, res)
  BY <1>1, <1>3, <1>4 DEF CacheOK
<1>9. hn \in SUBSET Modules /\ \A k \in Modules :
         /\ st1[k] \in Complete => st[k] \in Complete
         /\ st[k] \in Complete \cup {"error"} => st1[k] \in Complete \cup {"error"}
         /\ st[k] = "error" => st1[k] = "error"
         /\ st1[k] \in {"unlinked", "linking"} => st[k] \in {"unlinked", "linking"}
  BY <1>1, <1>3, <1>4 DEF Complete, TypesOK
<1>10. ClosedUp(c, st1, res, {}) /\ NamespaceKept(c, st1, hn, {})
  BY <1>1, <1>9, QuietStep, Zenon
<1>11. Forward(st, st1)
  BY <1>3, <1>4 DEF Forward, Complete
<1>12. \A k \in Modules : st1[k] # "linking"
  BY <1>1, <1>4
<1>. QED
  BY <1>2, <1>5, <1>7, <1>8, <1>9, <1>10, <1>11, <1>12, NoLinkLeft

\* What esm_read does to the cache and the states.
WasRead(c, ca, st, hn, m, ca1, st1, hn1) ==
  /\ ca1 = ca \cup {m}
  /\ \/ m \notin ca /\ c[m].kind = "vmod" /\ Put(st, m, "linked", st1) /\ hn1 = hn \cup {m}
     \/ st1 = st /\ hn1 = hn

\* What reading a module changes.
LEMMA ReadParts ==
  ASSUME NEW m \in Modules, ModuleInv, Read(m)
  PROVE  /\ WasRead(code, cache, state, hasNs, m, cache', state', hasNs')
         /\ RestOK(threw, owner', ns')
<1>1. WasRead(code, cache, state, hasNs, m, cache', state', hasNs')
  BY DEF Read, WasRead, Put
<1>2. RestOK(threw, owner, ns) /\ code \in Programs
  BY InvParts DEF ModuleOK, TypesOK
<1>3. DOMAIN CreateNamespace(code, {}, {}, ns, m).exports \subseteq Names
  BY <1>2, NamespaceType DEF RestOK
<1>4. RestOK(threw, owner', ns')
  <2>1. CASE m \notin cache /\ code[m].kind = "vmod"
    <3>1. /\ ns' = [ns EXCEPT ![m] = CreateNamespace(code, {}, {}, ns, m).exports]
          /\ owner' = [owner EXCEPT ![m] = m]
      BY <2>1 DEF Read
    <3>. QED
      BY <1>2, <1>3, <3>1 DEF RestOK
  <2>2. CASE ~ (m \notin cache /\ code[m].kind = "vmod")
    BY <1>2, <2>2 DEF Read
  <2>. QED
    BY <2>1, <2>2
<1>. QED
  BY <1>1, <1>4

\* Reading a module keeps the invariant.
LEMMA ReadOK ==
  ASSUME NEW c, NEW ca, NEW st, NEW anc, NEW res, NEW hn, TypesOK(c, ca, st, anc, res, hn),
         CacheOK(c, ca, st, res), NEW P, ClosedUp(c, st, res, P), NEW G, NamespaceKept(c, st, hn, G),
         NEW m \in Modules, NEW ca1, NEW st1, NEW hn1, WasRead(c, ca, st, hn, m, ca1, st1, hn1)
  PROVE  /\ TypesOK(c, ca1, st1, anc, res, hn1) /\ CacheOK(c, ca1, st1, res)
         /\ ClosedUp(c, st1, res, P) /\ NamespaceKept(c, st1, hn1, G)
         /\ ca \subseteq ca1 /\ m \in ca1 /\ st1 \in [Modules -> States]
         /\ \A k \in Modules : st1[k] = st[k] \/ (st[k] = "unlinked" /\ st1[k] = "linked")
         /\ \A k \in hn1 : k \in hn \/ (st[k] = "unlinked" /\ st1[k] = "linked")
<1>0. /\ c \in Programs /\ ca \in SUBSET Modules /\ hn \in SUBSET Modules /\ st \in [Modules -> States]
      /\ ca1 = ca \cup {m}
  BY DEF TypesOK, WasRead
<1>1. CASE st1 = st /\ hn1 = hn
  <2>1. TypesOK(c, ca1, st1, anc, res, hn1)
    BY <1>0, <1>1 DEF TypesOK
  <2>2. CacheOK(c, ca1, st1, res)
    BY <1>0, <1>1 DEF CacheOK
  <2>3. ClosedUp(c, st1, res, P) /\ NamespaceKept(c, st1, hn1, G)
    BY <1>1
  <2>4. ca \subseteq ca1 /\ m \in ca1
    BY <1>0
  <2>. QED
    BY <1>0, <1>1, <2>1, <2>2, <2>3, <2>4, Zenon
<1>2. CASE m \notin ca /\ c[m].kind = "vmod" /\ Put(st, m, "linked", st1) /\ hn1 = hn \cup {m}
  <2>1. /\ st[m] = "unlinked" /\ st1[m] = "linked" /\ \A k \in Modules : k # m => st1[k] = st[k]
        /\ st1 \in [Modules -> States]
    BY <1>0, <1>2 DEF CacheOK, Put, States
  <2>2. Arity(c, m) = 0
    BY <1>0, <1>2, GoalFacts
  <2>3. Succ(c, m) = {} /\ res[m] = 1..Arity(c, m)
    BY <2>2 DEF Succ, TypesOK
  <2>4. TypesOK(c, ca1, st1, anc, res, hn1)
    BY <1>0, <1>2, <2>1 DEF TypesOK
  <2>5. CacheOK(c, ca1, st1, res)
    BY <1>0, <2>1 DEF CacheOK
  <2>6. ClosedUp(c, st1, res, P)
    <3>1. \A k \in Modules : st1[k] \in Complete =>
           \/ st[k] \in Complete /\ res[k] = res[k]
           \/ /\ res[k] = 1..Arity(c, k)
              /\ \A t \in Succ(c, k) : st1[t] \in Complete \cup {"error"} \/ t \in P
      BY <2>1, <2>3
    <3>2. \A k \in Modules : st[k] \in Complete \cup {"error"} => st1[k] \in Complete \cup {"error"}
      BY <2>1 DEF Complete
    <3>3. \A k \in Modules : k \in P => k \in P \/ st1[k] \in Complete \cup {"error"}
      OBVIOUS
    <3>. QED
      BY <1>0, <3>1, <3>2, <3>3, ClosedKeeps, Zenon
  <2>7. NamespaceKept(c, st1, hn1, G)
    <3>1. Closed(c, {m}, IncompleteIn(st)) /\ \A k \in {m} : st[k] # "error"
      BY <2>1, <2>3 DEF Closed
    <3>2. IncompleteIn(st) \ {m} \subseteq IncompleteIn(st1)
      BY <2>1 DEF IncompleteIn
    <3>3. \A k \in Modules : st[k] = "error" => st1[k] = "error"
      BY <2>1
    <3>4. \A k : Doomed(c, st, k) => Doomed(c, st1, k)
      BY <3>1, <3>2, <3>3, DoomedKeeps
    <3>5. \A k \in hn1 : st1[k] \in {"unlinked", "linking"} => k \in hn /\ st[k] \in {"unlinked", "linking"}
      BY <1>0, <1>2, <2>1
    <3>. QED
      BY <3>4, <3>5, Zenon DEF NamespaceKept
  <2>8. \A k \in hn1 : k \in hn \/ (st[k] = "unlinked" /\ st1[k] = "linked")
    <3>1. \A k \in hn1 : k \in hn \/ k = m
      BY <1>2
    <3>. QED
      BY <2>1, <3>1, Zenon
  <2>9. ca \subseteq ca1 /\ m \in ca1
    BY <1>0
  <2>. QED
    BY <2>1, <2>4, <2>5, <2>6, <2>7, <2>8, <2>9, Zenon
<1>. QED
  BY <1>1, <1>2 DEF WasRead

\* Reading a module moves no state back.
LEMMA ForwardRead ==
  ASSUME NEW st, NEW st1,
         \A k \in Modules : st1[k] = st[k] \/ (st[k] = "unlinked" /\ st1[k] = "linked")
  PROVE  /\ Forward(st, st1) /\ KeepsEvaluated(st, st1)
         /\ \A m \in Modules : st1[m] = "evaluating" <=> st[m] = "evaluating"
         /\ \A m \in Modules : st1[m] = "linking" <=> st[m] = "linking"
BY DEF Forward, KeepsEvaluated, Complete

-----------------------------------------------------------------------------
(* The actions                                                             *)

\* Where user code runs, no link is in progress and a call may follow.
LEMMA UserCodeCalls ==
  ASSUME ModuleInv, UserCode
  PROVE  /\ ~ LinkTop(frames)
         /\ \A g : frames # <<>> => Calls(code, Last(frames), g)
<1>1. frames = <<>> \/ (frames # <<>> /\ Last(frames).op = "evaluate" /\ Last(frames).pc = "code")
  BY DEF UserCode, Running, Top
<1>. QED
  BY <1>1 DEF LinkTop, Calls

\* An import begins.
LEMMA ImportStep ==
  ASSUME ModuleInv, NEW m \in Modules, Import(m)
  PROVE  ModuleInv' /\ Forward(state, state')
<1> DEFINE g == [op |-> "import", m |-> m, pc |-> "link"]
<1>1. g \in Frames /\ g.op = "import" /\ g.m = m
  BY DEF Frames, ImportFrames
<1>2. Called(frames, g, frames')
  BY DEF Import, Called
<1>. HIDE DEF g
<1>3. ~ LinkTop(frames) /\ (frames # <<>> => Calls(code, Last(frames), g))
  BY UserCodeCalls DEF Import
<1>4. ModuleOK(code, frames, cache, state, ancestor, resolved, hasNs) /\ RestOK(threw, owner, ns)
  BY InvParts
<1>5. /\ code \in Programs /\ frames \in Seq(Frames) /\ CallsOK(code, frames, cache) /\ EvalsOK(code, frames, state)
      /\ CacheOK(code, cache, state, resolved) /\ TypesOK(code, cache, state, ancestor, resolved, hasNs)
      /\ ClosedUp(code, state, resolved, {}) /\ NamespaceKept(code, state, hasNs, {})
      /\ \A k \in Modules : state[k] # "linking"
  BY <1>3, <1>4, NoLinkNow
<1>6. /\ WasRead(code, cache, state, hasNs, m, cache', state', hasNs') /\ RestOK(threw, owner', ns')
      /\ code' = code /\ resolved' = resolved /\ ancestor' = ancestor /\ threw' = threw
  BY ReadParts DEF Import
<1>7. /\ TypesOK(code, cache', state', ancestor, resolved, hasNs') /\ CacheOK(code, cache', state', resolved)
      /\ ClosedUp(code, state', resolved, {}) /\ NamespaceKept(code, state', hasNs', {})
      /\ cache \subseteq cache' /\ m \in cache'
      /\ \A k \in Modules : state'[k] = state[k] \/ (state[k] = "unlinked" /\ state'[k] = "linked")
  BY <1>5, <1>6, ReadOK
<1>8. /\ Forward(state, state') /\ KeepsEvaluated(state, state')
      /\ \A k \in Modules : state'[k] = "evaluating" <=> state[k] = "evaluating"
      /\ \A k \in Modules : state'[k] # "linking"
  BY <1>5, <1>7, ForwardRead
<1>9. CallsOK(code, frames', cache')
  <2>1. FrameInv(code, g, cache')
    BY <1>1, <1>7 DEF FrameInv
  <2>. QED
    BY <1>1, <1>2, <1>3, <1>5, <1>7, <2>1, CalledCalls
<1>10. EvalsOK(code, frames', state')
  <2>1. \A k \in Modules : state'[k] = "evaluating" <=>
                             state[k] = "evaluating" \/ (g.op = "evaluate" /\ g.m = k)
    BY <1>1, <1>8
  <2>2. g.op = "evaluate" => state[g.m] # "evaluating" /\ g.node = 1 /\ g.pc = "imports"
    BY <1>1
  <2>. QED
    BY <1>1, <1>2, <1>5, <1>8, <2>1, <2>2, CalledEvals
<1>11. ~ LinkTop(frames')
  BY <1>1, <1>2, <1>5, CalledFrames DEF LinkTop
<1>12. ModuleOK(code, frames', cache', state', ancestor, resolved, hasNs')
  BY <1>7, <1>8, <1>9, <1>10, <1>11, NoLinkLeft
<1>13. ModuleInv'
  BY <1>6, <1>12, InvPartsNext
<1>. QED
  BY <1>8, <1>13

\* The program parses a module.
LEMMA ParsedOK ==
  ASSUME NEW c, NEW fs, NEW ca, NEW st, NEW anc, NEW res, NEW hn,
         ModuleOK(c, fs, ca, st, anc, res, hn), NEW m \in Modules, NEW ca1, ca1 = ca \cup {m}
  PROVE  ModuleOK(c, fs, ca1, st, anc, res, hn) /\ m \in ca1
<1>1. TypesOK(c, ca1, st, anc, res, hn)
  BY DEF ModuleOK, TypesOK
<1>2. CallsOK(c, fs, ca1)
  <2>1. \A f : FrameInv(c, f, ca) => FrameInv(c, f, ca1)
    BY DEF FrameInv
  <2>. QED
    BY <2>1 DEF ModuleOK, CallsOK
<1>3. CacheOK(c, ca1, st, res)
  BY DEF ModuleOK, CacheOK
<1>. QED
  BY <1>1, <1>2, <1>3 DEF ModuleOK

\* ecma_module_link is called.
LEMMA LinkCall ==
  ASSUME ModuleInv, NEW m \in Modules, Link(m)
  PROVE  ModuleInv' /\ Forward(state, state')
<1>1. ~ LinkTop(frames) /\ (frames # <<>> => Calls(code, Last(frames), NewLink(m)))
  BY UserCodeCalls DEF Link
<1>2. ModuleOK(code, frames, cache, state, ancestor, resolved, hasNs) /\ RestOK(threw, owner, ns)
  BY InvParts
<1>3. /\ state[m] = "unlinked" /\ Called(frames, NewLink(m), frames') /\ cache' = cache \cup {m}
      /\ state' = [state EXCEPT ![m] = "linking"] /\ ancestor' = [ancestor EXCEPT ![m] = 0]
      /\ UNCHANGED <<code, resolved, hasNs, ns, owner, threw>>
  BY DEF Link, BeginLink, Called
<1>4. ModuleOK(code, frames, cache', state, ancestor, resolved, hasNs) /\ m \in cache'
  BY <1>2, <1>3, ParsedOK
<1>5. ModuleOK(code, frames', cache', state', ancestor', resolved, hasNs) /\ Forward(state, state')
  BY <1>1, <1>3, <1>4, LinkBegins, ZenonT(60)
<1>. QED
  BY <1>2, <1>3, <1>5, InvPartsNext

\* ecma_module_evaluate is called.
LEMMA EvaluateCall ==
  ASSUME ModuleInv, NEW m \in Modules, Evaluate(m)
  PROVE  ModuleInv' /\ Forward(state, state')
<1>1. ~ LinkTop(frames) /\ (frames # <<>> => Calls(code, Last(frames), NewEvaluate(m)))
  BY UserCodeCalls DEF Evaluate
<1>2. ModuleOK(code, frames, cache, state, ancestor, resolved, hasNs) /\ RestOK(threw, owner, ns)
  BY InvParts
<1>3. /\ state[m] = "linked" /\ Called(frames, NewEvaluate(m), frames')
      /\ Put(state, m, "evaluating", state')
      /\ UNCHANGED <<code, cache, ancestor, resolved, hasNs, ns, owner, threw>>
  BY DEF Evaluate, BeginEvaluate, Called, NewEvaluate, Put, link
<1>4. ModuleOK(code, frames', cache, state', ancestor, resolved, hasNs) /\ Forward(state, state')
  BY <1>1, <1>2, <1>3, EvaluateBegins
<1>. QED
  BY <1>2, <1>3, <1>4, InvPartsNext

\* The innermost frame of a step that some call takes.
LEMMA RunningFrame ==
  ASSUME ModuleInv, NEW op, NEW pc, Running(op, pc)
  PROVE  /\ frames # <<>> /\ Last(frames).op = op /\ Last(frames).pc = pc /\ Top = Last(frames)
         /\ code \in Programs /\ frames \in Seq(Frames) /\ Last(frames) \in Frames
         /\ Len(frames) \in 1..Len(frames) /\ Last(frames) = frames[Len(frames)]
         /\ FrameInv(code, Last(frames), cache) /\ FramePassed(code, frames, state, Len(frames))
         /\ LinkTop(frames) <=> op = "link"
         /\ ModuleOK(code, frames, cache, state, ancestor, resolved, hasNs) /\ RestOK(threw, owner, ns)
<1>1. frames # <<>> /\ Last(frames).op = op /\ Last(frames).pc = pc /\ Top = Last(frames)
  BY DEF Running, Top
<1>2. ModuleOK(code, frames, cache, state, ancestor, resolved, hasNs) /\ RestOK(threw, owner, ns)
  BY InvParts
<1>3. code \in Programs /\ CallsOK(code, frames, cache) /\ EvalsOK(code, frames, state)
  BY <1>2 DEF ModuleOK, TypesOK
<1>4. frames \in Seq(Frames)
  BY <1>3 DEF CallsOK
<1>5. /\ Last(frames) \in Frames /\ Len(frames) \in 1..Len(frames) /\ Last(frames) = frames[Len(frames)]
  BY <1>1, <1>4, LastFrame
<1>6. FrameInv(code, Last(frames), cache) /\ FramePassed(code, frames, state, Len(frames))
  BY <1>3, <1>5 DEF CallsOK, EvalsOK
<1>7. LinkTop(frames) <=> op = "link"
  BY <1>1 DEF LinkTop
<1>. QED
  BY <1>1, <1>2, <1>3, <1>4, <1>5, <1>6, <1>7

\* A frame goes to another place.
GoesTo(f, pc) == [f EXCEPT !.pc = pc]

\* The innermost frame goes to another place.
LEMMA GoneTo ==
  ASSUME frames \in Seq(Frames), frames # <<>>, NEW pc, Goto(pc)
  PROVE  Changed(frames, GoesTo(Last(frames), pc), frames')
<1>1. Len(frames) \in 1..Len(frames) /\ Last(frames) = frames[Len(frames)]
  BY LastFrame
<1>. QED
  BY <1>1 DEF Goto, Changed, GoesTo

\* It stays a frame.
LEMMA GoesToFrame ==
  ASSUME NEW f \in Frames, NEW pc
  PROVE  /\ f.op = "import" /\ pc \in {"link", "evaluate", "done"} =>
              LET g == GoesTo(f, pc) IN g \in Frames /\ g.op = "import" /\ g.m = f.m /\ g.pc = pc
         /\ f.op = "evaluate" /\ pc \in {"imports", "code", "failed"} =>
              LET g == GoesTo(f, pc)
              IN g \in Frames /\ g.op = "evaluate" /\ g.m = f.m /\ g.pc = pc /\ g.node = f.node
<1>1. CASE f.op = "import"
  BY <1>1, FrameKinds DEF GoesTo, Frames, ImportFrames
<1>2. CASE f.op = "evaluate"
  BY <1>2, FrameKinds DEF GoesTo, Frames, EvalFrames
<1>. QED
  BY <1>1, <1>2

\* An import comes to its link.
LEMMA ImportLinkStep ==
  ASSUME ModuleInv, ImportLink
  PROVE  ModuleInv' /\ Forward(state, state')
<1> DEFINE f == Last(frames)
           m == f.m
<1>1. /\ frames # <<>> /\ f.op = "import" /\ f.pc = "link" /\ Top = f
      /\ code \in Programs /\ frames \in Seq(Frames) /\ f \in Frames
      /\ FrameInv(code, f, cache) /\ ~ LinkTop(frames)
      /\ ModuleOK(code, frames, cache, state, ancestor, resolved, hasNs) /\ RestOK(threw, owner, ns)
  <2>1. Running("import", "link")
    BY DEF ImportLink
  <2>. QED
    BY <2>1, RunningFrame
<1>2. m \in Modules /\ m \in cache
  BY <1>1, FrameKinds DEF FrameInv
<1>3. UNCHANGED <<code, cache, resolved, hasNs, ns, owner, threw>>
  BY DEF ImportLink
<1>. HIDE DEF m, f
<1>4. CASE state[m] = "unlinked"
  <2>1. /\ Called(frames, NewLink(m), frames')
        /\ state' = [state EXCEPT ![m] = "linking"] /\ ancestor' = [ancestor EXCEPT ![m] = 0]
    BY <1>1, <1>4 DEF ImportLink, BeginLink, Called, m
  <2>2. Calls(code, f, NewLink(m))
    BY <1>1 DEF Calls, NewLink
  <2>3. ModuleOK(code, frames', cache, state', ancestor', resolved, hasNs) /\ Forward(state, state')
    BY <1>1, <1>2, <1>4, <2>1, <2>2, LinkBegins, ZenonT(60) DEF f
  <2>. QED
    BY <1>1, <1>3, <2>3, InvPartsNext
<1>5. CASE state[m] # "unlinked"
  <2>1. Goto("evaluate") /\ UNCHANGED <<state, ancestor>>
    BY <1>1, <1>5 DEF ImportLink, m
  <2> DEFINE g == GoesTo(f, "evaluate")
  <2>2. Changed(frames, g, frames')
    BY <1>1, <2>1, GoneTo DEF f
  <2>3. g \in Frames /\ g.op = "import" /\ g.m = m
    BY <1>1, GoesToFrame DEF m
  <2>. HIDE DEF g
  <2>4. FrameInv(code, g, cache)
    BY <1>2, <2>3 DEF FrameInv
  <2>5. FramePassed(code, frames', state, Len(frames))
    <3>1. frames'[Len(frames)] = g
      BY <1>1, <2>2, <2>3, ChangedFrames
    <3>. QED
      BY <2>3, <3>1 DEF FramePassed
  <2>6. ModuleOK(code, frames', cache, state, ancestor, resolved, hasNs)
    BY <1>1, <2>2, <2>3, <2>4, <2>5, FrameChanges DEF f
  <2>7. Forward(state, state')
    BY <2>1 DEF Forward, Complete
  <2>. QED
    BY <1>1, <1>3, <2>1, <2>6, <2>7, InvPartsNext
<1>. QED
  BY <1>4, <1>5

\* The states of a call that does not touch them.
LEMMA SameStates == \A st : Forward(st, st) /\ KeepsEvaluated(st, st)
BY DEF Forward, KeepsEvaluated, Complete

\* An import that has nothing to evaluate returns.
LEMMA ImportReturns ==
  ASSUME NEW c, NEW fs, NEW ca, NEW st, NEW anc, NEW res, NEW hn,
         ModuleOK(c, fs, ca, st, anc, res, hn), fs # <<>>, Last(fs).op = "import",
         NEW ok, NEW fs1, fs1 = Returned(fs, ok)
  PROVE  ModuleOK(c, fs1, ca, st, anc, res, hn)
<1>0. ~ LinkTop(fs)
  BY DEF LinkTop
<1>1. /\ c \in Programs /\ fs \in Seq(Frames) /\ CallsOK(c, fs, ca) /\ EvalsOK(c, fs, st)
      /\ CacheOK(c, ca, st, res) /\ TypesOK(c, ca, st, anc, res, hn)
      /\ ClosedUp(c, st, res, {}) /\ NamespaceKept(c, st, hn, {})
      /\ \A k \in Modules : st[k] # "linking"
  BY <1>0, NoLinkNow
<1>2. /\ \A k \in Modules : st[k] = "evaluating" <=>
                              st[k] = "evaluating" /\ ~ (Last(fs).op = "evaluate" /\ Last(fs).m = k)
      /\ ok /\ Last(fs).op = "evaluate" => st[Last(fs).m] = "evaluated"
      /\ KeepsEvaluated(st, st)
  BY SameStates, Zenon
<1>3. CallsOK(c, fs1, ca) /\ EvalsOK(c, fs1, st) /\ ~ LinkTop(fs1)
  BY <1>1, <1>2, ReturnOK
<1>. QED
  BY <1>1, <1>3, NoLinkLeft

\* An import comes to its evaluation.
LEMMA ImportEvaluateStep ==
  ASSUME ModuleInv, ImportEvaluate
  PROVE  ModuleInv' /\ Forward(state, state')
<1> DEFINE f == Last(frames)
           m == f.m
<1>1. /\ frames # <<>> /\ f.op = "import" /\ f.pc = "evaluate" /\ Top = f
      /\ code \in Programs /\ frames \in Seq(Frames) /\ f \in Frames
      /\ FrameInv(code, f, cache) /\ ~ LinkTop(frames)
      /\ Len(frames) \in 1..Len(frames) /\ f = frames[Len(frames)]
      /\ ModuleOK(code, frames, cache, state, ancestor, resolved, hasNs) /\ RestOK(threw, owner, ns)
  <2>1. Running("import", "evaluate")
    BY DEF ImportEvaluate
  <2>. QED
    BY <2>1, RunningFrame
<1>2. m \in Modules /\ m \in cache
  BY <1>1, FrameKinds DEF FrameInv
<1>3. UNCHANGED <<code, cache, ancestor, resolved, hasNs, ns, owner, threw>>
  BY DEF ImportEvaluate, link
<1>. HIDE DEF m, f
<1>4. CASE state[m] = "linked"
  <2> DEFINE fs == [frames EXCEPT ![Len(frames)].pc = "done"]
             g == GoesTo(f, "done")
  <2>1. BeginEvaluate(m, fs)
    BY <1>1, <1>4 DEF ImportEvaluate, m
  <2>2. Changed(frames, g, fs)
    BY <1>1 DEF Changed, GoesTo
  <2>3. g \in Frames /\ g.op = "import" /\ g.m = m /\ g.pc = "done"
    BY <1>1, GoesToFrame DEF m
  <2>4. Called(fs, NewEvaluate(m), frames') /\ Put(state, m, "evaluating", state')
    BY <2>1 DEF BeginEvaluate, Called, NewEvaluate, Put
  <2>. HIDE DEF g, fs
  <2>5. FrameInv(code, g, cache)
    BY <1>2, <2>3 DEF FrameInv
  <2>6. FramePassed(code, fs, state, Len(frames))
    <3>1. fs[Len(frames)] = g
      BY <1>1, <2>2, <2>3, ChangedFrames
    <3>. QED
      BY <2>3, <3>1 DEF FramePassed
  <2>7. ModuleOK(code, fs, cache, state, ancestor, resolved, hasNs) /\ ~ LinkTop(fs) /\ Last(fs) = g
    BY <1>1, <2>2, <2>3, <2>5, <2>6, FrameChanges DEF f
  <2>8. Calls(code, g, NewEvaluate(m))
    BY <2>3 DEF Calls, NewEvaluate
  <2>9. ModuleOK(code, frames', cache, state', ancestor, resolved, hasNs) /\ Forward(state, state')
    BY <1>2, <1>4, <2>4, <2>7, <2>8, EvaluateBegins
  <2>. QED
    BY <1>1, <1>3, <2>9, InvPartsNext
<1>5. CASE state[m] # "linked"
  <2>1. Return(state[m] = "evaluated") /\ state' = state
    BY <1>1, <1>5 DEF ImportEvaluate, m
  <2> DEFINE ok == state[m] = "evaluated"
  <2>2. frames' = Returned(frames, ok)
    BY <2>1 DEF Return, Returned
  <2>. HIDE DEF ok
  <2>3. ModuleOK(code, frames', cache, state, ancestor, resolved, hasNs)
    BY <1>1, <2>2, ImportReturns DEF f
  <2>. QED
    BY <1>1, <1>3, <2>1, <2>3, InvPartsNext, SameStates
<1>. QED
  BY <1>4, <1>5

\* The three ways out of an evaluation.
LEMMA EvaluateEnds ==
  ASSUME ModuleInv, NEW pc, Running("evaluate", pc),
         NEW v \in {"evaluated", "error"}, NEW ok, ok => v = "evaluated",
         state' = [state EXCEPT ![Top.m] = v], Return(ok),
         threw' = threw \/ threw' = threw \cup {Top.m},
         UNCHANGED <<code, cache, link>>
  PROVE  ModuleInv' /\ Forward(state, state')
<1> DEFINE m == Last(frames).m
<1>1. /\ frames # <<>> /\ Last(frames).op = "evaluate" /\ Top = Last(frames)
      /\ ModuleOK(code, frames, cache, state, ancestor, resolved, hasNs) /\ RestOK(threw, owner, ns)
  BY RunningFrame
<1>2. Put(state, m, v, state')
  BY <1>1 DEF Put
<1>3. frames' = Returned(frames, ok)
  BY DEF Return, Returned
<1>. HIDE DEF m
<1>4. /\ ModuleOK(code, frames', cache, state', ancestor, resolved, hasNs) /\ Forward(state, state')
      /\ m \in Modules
  BY <1>1, <1>2, <1>3, EvaluateReturns DEF m
<1>5. RestOK(threw', owner, ns)
  BY <1>1, <1>4 DEF RestOK, m
<1>. QED
  BY <1>4, <1>5, InvPartsNext DEF link

\* The code of a module returns.
LEMMA CodeReturnsStep ==
  ASSUME ModuleInv, CodeReturns
  PROVE  ModuleInv' /\ Forward(state, state')
<1>1. /\ Running("evaluate", "code") /\ state' = [state EXCEPT ![Top.m] = "evaluated"] /\ Return(TRUE)
      /\ threw' = threw /\ UNCHANGED <<code, cache, link>>
  BY DEF CodeReturns
<1>. QED
  BY <1>1, EvaluateEnds

\* The code of a module throws.
LEMMA CodeThrowsStep ==
  ASSUME ModuleInv, CodeThrows
  PROVE  ModuleInv' /\ Forward(state, state')
<1>1. /\ Running("evaluate", "code") /\ state' = [state EXCEPT ![Top.m] = "error"] /\ Return(FALSE)
      /\ threw' = threw \cup {Top.m} /\ UNCHANGED <<code, cache, link>>
  BY DEF CodeThrows
<1>. QED
  BY <1>1, EvaluateEnds

\* An import fails.
LEMMA ImportFailedStep ==
  ASSUME ModuleInv, ImportFailed
  PROVE  ModuleInv' /\ Forward(state, state')
<1>1. /\ Running("evaluate", "failed") /\ state' = [state EXCEPT ![Top.m] = "error"] /\ Return(FALSE)
      /\ threw' = threw \cup {Top.m} /\ UNCHANGED <<code, cache, link>>
  BY DEF ImportFailed
<1>. QED
  BY <1>1, EvaluateEnds

\* The frame of an evaluation goes on to the next node.
NextNode(f) == [f EXCEPT !.node = @ + 1]

\* It stays a frame of the same evaluation.
LEMMA NextNodeFrame ==
  ASSUME NEW f \in Frames, f.op = "evaluate"
  PROVE  LET g == NextNode(f)
         IN g \in Frames /\ g.op = "evaluate" /\ g.m = f.m /\ g.pc = f.pc /\ g.node = f.node + 1
<1>1. f \in EvalFrames /\ f.node \in Nat \ {0}
  BY FrameKinds
<1>2. f.node + 1 \in Nat \ {0}
  BY <1>1
<1>. QED
  BY <1>1, <1>2 DEF NextNode, Frames, EvalFrames

\* An evaluation goes on without a call.
LEMMA EvaluationGoesOn ==
  ASSUME ModuleInv, NEW pc, Running("evaluate", pc),
         NEW g \in Frames, g.op = "evaluate", g.m = Last(frames).m, g.node <= Arity(code, g.m) + 1,
         Changed(frames, g, frames'), UNCHANGED <<code, cache, state, link, threw>>,
         \A x \in 1..Arity(code, g.m) :
           x < g.node \/ g.pc = "code" =>
             \/ x < Last(frames).node
             \/ state[Goals(code, g.m)[x]] \in {"evaluating", "evaluated"}
  PROVE  ModuleInv' /\ Forward(state, state')
<1>1. /\ frames # <<>> /\ Last(frames).op = "evaluate"
      /\ code \in Programs /\ frames \in Seq(Frames) /\ Last(frames) \in Frames
      /\ Len(frames) \in 1..Len(frames) /\ Last(frames) = frames[Len(frames)]
      /\ FramePassed(code, frames, state, Len(frames)) /\ ~ LinkTop(frames)
      /\ ModuleOK(code, frames, cache, state, ancestor, resolved, hasNs) /\ RestOK(threw, owner, ns)
  BY RunningFrame
<1>2. EvalsOK(code, frames, state)
  BY <1>1 DEF ModuleOK
<1>3. FrameInv(code, g, cache)
  BY DEF FrameInv
<1>4. /\ frames'[Len(frames)] = g
      /\ \A i \in 1..Len(frames) : i # Len(frames) => frames'[i] = frames[i]
  BY <1>1, ChangedFrames
<1>5. \A k \in 1..Len(frames) : \A t : EvalAt(frames, k, t) => EvalAt(frames', k, t)
  BY <1>1, <1>4 DEF EvalAt
<1>6. FramePassed(code, frames', state, Len(frames))
  <2>. SUFFICES ASSUME NEW x \in 1..Arity(code, g.m), x < g.node \/ g.pc = "code"
                PROVE  \/ state[Goals(code, g.m)[x]] = "evaluated"
                       \/ \E k \in 1..Len(frames) : EvalAt(frames', k, Goals(code, g.m)[x])
    BY <1>4 DEF FramePassed
  <2> DEFINE t == Goals(code, g.m)[x]
  <2>1. g.m \in Modules
    BY FrameKinds
  <2>2. t \in Modules
    BY <1>1, <2>1, GoalFacts
  <2>3. CASE x < Last(frames).node
    <3>1. \/ state[t] = "evaluated"
          \/ \E k \in 1..Len(frames) : EvalAt(frames, k, t)
      BY <1>1, <2>3 DEF FramePassed
    <3>. QED
      BY <1>5, <3>1
  <2>4. CASE state[t] = "evaluating"
    <3>1. \E k \in 1..Len(frames) : EvalAt(frames, k, t)
      BY <1>2, <2>2, <2>4 DEF EvalsOK
    <3>. QED
      BY <1>5, <3>1
  <2>. QED
    BY <2>3, <2>4
<1>7. ModuleOK(code, frames', cache, state, ancestor, resolved, hasNs)
  BY <1>1, <1>3, <1>6, FrameChanges
<1>. QED
  BY <1>1, <1>7, InvPartsNext, SameStates DEF link

\* An evaluation comes to an import.
LEMMA EvaluateImportStep ==
  ASSUME ModuleInv, EvaluateImport
  PROVE  ModuleInv' /\ Forward(state, state')
<1> DEFINE f == Last(frames)
           t == Goals(code, f.m)[f.node]
<1>0. Running("evaluate", "imports")
  BY DEF EvaluateImport
<1>1. /\ frames # <<>> /\ f.op = "evaluate" /\ f.pc = "imports" /\ Top = f
      /\ code \in Programs /\ frames \in Seq(Frames) /\ f \in Frames
      /\ FrameInv(code, f, cache) /\ ~ LinkTop(frames)
      /\ Len(frames) \in 1..Len(frames) /\ f = frames[Len(frames)]
      /\ ModuleOK(code, frames, cache, state, ancestor, resolved, hasNs) /\ RestOK(threw, owner, ns)
  BY <1>0, RunningFrame
<1>2. /\ f.m \in Modules /\ f.node \in Nat \ {0} /\ Arity(code, f.m) \in Nat
      /\ Goals(code, f.m) \in [1..Arity(code, f.m) -> Modules]
  BY <1>1, FrameKinds, GoalFacts
<1>3. f.node <= Arity(code, f.m)
  BY <1>1 DEF EvaluateImport, Arity
<1>4. t = Targets(Top.m)[Top.node]
  BY <1>1, <1>2, TargetFacts
<1>5. t \in Modules
  BY <1>2, <1>3
<1>6. UNCHANGED <<code, cache, link, threw>>
  BY DEF EvaluateImport
<1>. HIDE DEF t, f
<1>7. CASE state[t] = "error"
  <2>1. Goto("failed") /\ state' = state
    BY <1>4, <1>7 DEF EvaluateImport
  <2> DEFINE g == GoesTo(f, "failed")
  <2>2. Changed(frames, g, frames')
    BY <1>1, <2>1, GoneTo DEF f
  <2>3. g \in Frames /\ g.op = "evaluate" /\ g.m = f.m /\ g.pc = "failed" /\ g.node = f.node
    BY <1>1, GoesToFrame
  <2>. HIDE DEF g
  <2>4. g.node <= Arity(code, g.m) + 1
    BY <1>2, <1>3, <2>3
  <2>5. \A x \in 1..Arity(code, g.m) : x < g.node \/ g.pc = "code" => x < f.node
    BY <2>3
  <2>. QED
    BY <1>0, <1>6, <2>1, <2>2, <2>3, <2>4, <2>5, EvaluationGoesOn DEF f
<1>8. CASE state[t] \in {"evaluating", "evaluated"}
  <2>1. frames' = [frames EXCEPT ![Len(frames)].node = @ + 1] /\ state' = state
    BY <1>4, <1>8 DEF EvaluateImport
  <2> DEFINE g == NextNode(f)
  <2>2. Changed(frames, g, frames')
    BY <1>1, <2>1 DEF Changed, NextNode
  <2>3. g \in Frames /\ g.op = "evaluate" /\ g.m = f.m /\ g.pc = f.pc /\ g.node = f.node + 1
    BY <1>1, NextNodeFrame
  <2>. HIDE DEF g
  <2>4. g.node <= Arity(code, g.m) + 1
    BY <1>2, <1>3, <2>3
  <2>5. ASSUME NEW x \in 1..Arity(code, g.m), x < g.node \/ g.pc = "code"
        PROVE  x < f.node \/ state[Goals(code, g.m)[x]] \in {"evaluating", "evaluated"}
    <3>1. x \in Nat /\ x < f.node + 1
      BY <1>1, <1>2, <2>3, <2>5
    <3>2. x < f.node \/ x = f.node
      BY <1>2, <3>1
    <3>. QED
      BY <1>8, <2>3, <3>2 DEF t
  <2>. QED
    BY <1>0, <1>6, <2>1, <2>2, <2>3, <2>4, <2>5, EvaluationGoesOn DEF f
<1>9. CASE state[t] # "error" /\ state[t] \notin {"evaluating", "evaluated"}
  <2>1. BeginEvaluate(t, frames)
    BY <1>4, <1>9 DEF EvaluateImport
  <2>2. Called(frames, NewEvaluate(t), frames') /\ Put(state, t, "evaluating", state')
    BY <2>1 DEF BeginEvaluate, Called, NewEvaluate, Put
  <2>3. state[t] = "linked"
    <3>1. EvalsOK(code, frames, state) /\ ClosedUp(code, state, resolved, {})
      BY <1>1, NoLinkNow
    <3>2. state[f.m] = "evaluating"
      BY <1>1, <1>2, <3>1 DEF EvalsOK, EvalAt
    <3>3. t \in Succ(code, f.m)
      BY <1>2, <1>3 DEF Succ, t
    <3>4. state[t] \in Complete \cup {"error"}
      BY <1>2, <3>1, <3>2, <3>3 DEF ClosedUp, Complete
    <3>. QED
      BY <1>9, <3>4 DEF Complete
  <2>4. Calls(code, f, NewEvaluate(t))
    BY <1>1, <1>3 DEF Calls, NewEvaluate, t
  <2>5. ModuleOK(code, frames', cache, state', ancestor, resolved, hasNs) /\ Forward(state, state')
    BY <1>1, <1>5, <2>2, <2>3, <2>4, EvaluateBegins DEF f
  <2>. QED
    BY <1>1, <1>6, <2>5, InvPartsNext DEF link
<1>. QED
  BY <1>7, <1>8, <1>9

\* The code of a module runs.
LEMMA RunCodeStep ==
  ASSUME ModuleInv, RunCode
  PROVE  ModuleInv' /\ Forward(state, state')
<1> DEFINE f == Last(frames)
           g == GoesTo(f, "code")
<1>0. Running("evaluate", "imports")
  BY DEF RunCode
<1>1. /\ frames # <<>> /\ f.op = "evaluate" /\ Top = f
      /\ code \in Programs /\ frames \in Seq(Frames) /\ f \in Frames /\ FrameInv(code, f, cache)
  BY <1>0, RunningFrame
<1>2. f.m \in Modules /\ f.node \in Nat \ {0} /\ Arity(code, f.m) \in Nat
  BY <1>1, FrameKinds, GoalFacts
<1>3. f.node > Arity(code, f.m) /\ Goto("code") /\ UNCHANGED <<code, cache, state, link, threw>>
  BY <1>1 DEF RunCode, Arity
<1>4. Changed(frames, g, frames')
  BY <1>1, <1>3, GoneTo
<1>5. g \in Frames /\ g.op = "evaluate" /\ g.m = f.m /\ g.node = f.node
  BY <1>1, GoesToFrame
<1>. HIDE DEF g, f
<1>6. g.node <= Arity(code, g.m) + 1
  BY <1>1, <1>5 DEF FrameInv
<1>7. \A x \in 1..Arity(code, g.m) : x < f.node
  BY <1>2, <1>3, <1>5
<1>. QED
  BY <1>0, <1>3, <1>4, <1>5, <1>6, <1>7, EvaluationGoesOn DEF f

-----------------------------------------------------------------------------
(* The actions of a link                                                   *)

\* A link returns: no evaluation ends.
LEMMA LinkReturns ==
  ASSUME NEW c \in Programs, NEW fs, NEW ca, CallsOK(c, fs, ca), LinkTop(fs),
         NEW st, EvalsOK(c, fs, st), NEW st1, KeepsEvaluated(st, st1),
         \A k \in Modules : st1[k] = "evaluating" <=> st[k] = "evaluating"
  PROVE  \A ok : /\ CallsOK(c, Returned(fs, ok), ca) /\ EvalsOK(c, Returned(fs, ok), st1)
                 /\ ~ LinkTop(Returned(fs, ok))
<1>. TAKE ok
<1>1. fs # <<>> /\ Last(fs).op = "link"
  BY DEF LinkTop
<1>2. \A k \in Modules : st1[k] = "evaluating" <=>
                            st[k] = "evaluating" /\ ~ (Last(fs).op = "evaluate" /\ Last(fs).m = k)
  BY <1>1
<1>3. ok /\ Last(fs).op = "evaluate" => st1[Last(fs).m] = "evaluated"
  BY <1>1, Zenon
<1>. QED
  BY <1>1, <1>2, <1>3, ReturnOK

\* ecma_module_link fails: what was LINKING is UNLINKED or has failed, and what
\* got a namespace leads to a module that has failed.
LEMMA LinkFails ==
  ASSUME NEW c, NEW fs, NEW ca, NEW st, NEW anc, NEW res, NEW hn,
         ModuleOK(c, fs, ca, st, anc, res, hn), LinkTop(fs), Last(fs).pc # "linked",
         NEW res1, TypesOK(c, ca, st, anc, res1, hn), CacheOK(c, ca, st, res1),
         ClosedUp(c, st, res1, {}),
         NEW st1 \in [Modules -> States],
         \A k \in Modules : st[k] = "linking" => st1[k] \in {"unlinked", "error"},
         \A k \in Modules : st[k] # "linking" => st1[k] = st[k],
         \A k \in Granted(Last(fs)) :
           \E e \in Modules : st1[e] = "error" /\ Leads(c, k, e, LinkingIn(st)),
         NEW fs1, fs1 = Returned(fs, FALSE)
  PROVE  ModuleOK(c, fs1, ca, st1, anc, res1, hn) /\ Forward(st, st1)
<1>1. /\ LinkOK(c, Last(fs), st, anc, res) /\ fs # <<>>
      /\ CallsOK(c, fs, ca) /\ EvalsOK(c, fs, st) /\ CacheOK(c, ca, st, res)
      /\ NamespaceKept(c, st, hn, Granted(Last(fs)))
      /\ c \in Programs /\ hn \in SUBSET Modules /\ st \in [Modules -> States]
  BY LinkInProgress DEF TypesOK
<1>2. TypesOK(c, ca, st1, anc, res1, hn)
  BY DEF TypesOK
<1>3. \A k \in Modules : st1[k] # "linking"
  BY Zenon
<1>4. CacheOK(c, ca, st1, res1)
  BY DEF CacheOK
<1>5. \A k \in Modules :
         /\ st1[k] \in Complete => st[k] \in Complete
         /\ st[k] \in Complete \cup {"error"} => st1[k] \in Complete \cup {"error"}
         /\ st[k] = "error" => st1[k] = "error"
         /\ st1[k] \in {"unlinked", "linking"} => st[k] \in {"unlinked", "linking"}
  BY DEF Complete
<1>6. ClosedUp(c, st1, res1, {}) /\ NamespaceKept(c, st1, hn, Granted(Last(fs)))
  BY <1>1, <1>5, QuietStep, Zenon
<1>7. ASSUME NEW k \in Granted(Last(fs)) PROVE Doomed(c, st1, k)
  <2>. SUFFICES ASSUME NEW C \in SUBSET Modules, k \in C, Closed(c, C, IncompleteIn(st1))
                PROVE  \E e \in C : st1[e] = "error"
    BY DEF Doomed
  <2>1. LinkingIn(st) \subseteq IncompleteIn(st1)
    BY DEF LinkingIn, IncompleteIn, Complete
  <2>2. Closed(c, C, LinkingIn(st))
    BY <2>1 DEF Closed
  <2>3. PICK e \in Modules : st1[e] = "error" /\ Leads(c, k, e, LinkingIn(st))
    BY <1>7
  <2>. QED
    BY <2>2, <2>3 DEF Leads
<1>8. NamespaceKept(c, st1, hn, {})
  BY <1>6, <1>7, Zenon DEF NamespaceKept
<1>9. KeepsEvaluated(st, st1)
  BY DEF KeepsEvaluated
<1>10. CallsOK(c, fs1, ca) /\ EvalsOK(c, fs1, st1) /\ ~ LinkTop(fs1)
  <2>1. \A k \in Modules : st1[k] = "evaluating" <=> st[k] = "evaluating"
    BY Zenon
  <2>. QED
    <3>1. \A ok : /\ CallsOK(c, Returned(fs, ok), ca) /\ EvalsOK(c, Returned(fs, ok), st1)
                  /\ ~ LinkTop(Returned(fs, ok))
      BY <1>1, <1>9, <2>1, LinkReturns
    <3>. QED
      BY <3>1, Zenon
<1>11. Forward(st, st1)
  BY DEF Forward, Complete
<1>. QED
  BY <1>2, <1>3, <1>4, <1>6, <1>8, <1>10, <1>11, NoLinkLeft

\* What a step of a link can count on.
LEMMA LinkRuns ==
  ASSUME ModuleInv, NEW pc, Running("link", pc)
  PROVE  LET f == Last(frames)
         IN /\ f.pc = pc /\ Top = f /\ Item = f.stack[f.cur]
            /\ LinkTypes(code, f, state, ancestor) /\ LinkOK(code, f, state, ancestor, resolved)
            /\ frames \in Seq(Frames) /\ frames # <<>> /\ f \in LinkFrames /\ LinkTop(frames)
            /\ Len(frames) \in 1..Len(frames) /\ f = frames[Len(frames)]
            /\ CacheOK(code, cache, state, resolved)
            /\ TypesOK(code, cache, state, ancestor, resolved, hasNs)
            /\ ClosedUp(code, state, resolved, Pending(f))
            /\ NamespaceKept(code, state, hasNs, Granted(f)) /\ NamespaceFirst(f, hasNs)
            /\ ModuleOK(code, frames, cache, state, ancestor, resolved, hasNs) /\ RestOK(threw, owner, ns)
<1>1. /\ frames # <<>> /\ Last(frames).pc = pc /\ Top = Last(frames) /\ LinkTop(frames)
      /\ Len(frames) \in 1..Len(frames) /\ Last(frames) = frames[Len(frames)]
      /\ ModuleOK(code, frames, cache, state, ancestor, resolved, hasNs) /\ RestOK(threw, owner, ns)
  BY RunningFrame
<1>2. Item = Last(frames).stack[Last(frames).cur]
  BY <1>1 DEF Item
<1>3. /\ LinkTypes(code, Last(frames), state, ancestor) /\ LinkOK(code, Last(frames), state, ancestor, resolved)
      /\ frames \in Seq(Frames) /\ Last(frames) \in LinkFrames
      /\ CacheOK(code, cache, state, resolved)
      /\ TypesOK(code, cache, state, ancestor, resolved, hasNs)
      /\ ClosedUp(code, state, resolved, Pending(Last(frames)))
      /\ NamespaceKept(code, state, hasNs, Granted(Last(frames))) /\ NamespaceFirst(Last(frames), hasNs)
  BY <1>1, LinkInProgress
<1>. QED
  BY <1>1, <1>2, <1>3

\* The states after the label error.
LEMMA LinkErrorStates ==
  ASSUME ModuleInv, NEW pc, Running("link", pc), NEW st \in [Modules -> States],
         \A k \in Modules : st[k] = state[k] \/ (state[k] = "linking" /\ st[k] = "error"),
         LinkError(st)
  PROVE  /\ state' \in [Modules -> States] /\ frames' = Returned(frames, FALSE)
         /\ \A k \in Modules : state[k] = "linking" => state'[k] \in {"unlinked", "error"}
         /\ \A k \in Modules : st[k] = "error" => state'[k] = "error"
         /\ \A k \in Modules : state[k] # "linking" => state'[k] = state[k]
<1>1. StackInv(Last(frames), state) /\ Top = Last(frames)
  BY LinkRuns DEF LinkOK
<1>2. frames' = Returned(frames, FALSE)
  BY DEF LinkError, Return, Returned
<1> DEFINE on(k) == \E i \in 1..Len(Top.stack) : Top.stack[i].m = k
<1>3. \A k \in Modules : state[k] = "linking" <=> on(k)
  BY <1>1 DEF StackInv
<1>4. state' = [k \in Modules |-> IF st[k] # "error" /\ on(k) THEN "unlinked" ELSE st[k]]
  BY DEF LinkError
<1>. HIDE DEF on
<1>5. \A k \in Modules : state'[k] = IF st[k] # "error" /\ state[k] = "linking" THEN "unlinked" ELSE st[k]
  BY <1>3, <1>4
<1>6. state' \in [Modules -> States]
  BY <1>4 DEF States
<1>. QED
  BY <1>2, <1>5, <1>6

\* A module request cannot be resolved.
LEMMA ResolveNodeFailsStep ==
  ASSUME ModuleInv, ResolveNodeFails
  PROVE  ModuleInv' /\ Forward(state, state')
<1> DEFINE f == Last(frames)
           m == f.stack[f.cur].m
<1>0. Running("link", "resolve")
  BY DEF ResolveNodeFails
<1>1. /\ f.pc = "resolve" /\ Top = f /\ Item = f.stack[f.cur]
      /\ LinkTypes(code, f, state, ancestor) /\ LinkOK(code, f, state, ancestor, resolved)
      /\ frames \in Seq(Frames) /\ frames # <<>> /\ f \in LinkFrames /\ LinkTop(frames)
      /\ CacheOK(code, cache, state, resolved)
      /\ TypesOK(code, cache, state, ancestor, resolved, hasNs)
      /\ ClosedUp(code, state, resolved, Pending(f))
      /\ ModuleOK(code, frames, cache, state, ancestor, resolved, hasNs) /\ RestOK(threw, owner, ns)
  BY <1>0, LinkRuns
<1>2. LinkError(state) /\ UNCHANGED <<code, cache, ancestor, hasNs, ns, owner, threw>>
  BY DEF ResolveNodeFails
<1>3. state \in [Modules -> States] /\ code \in Programs
  BY <1>1 DEF TypesOK
<1>. HIDE DEF f
<1>4. /\ f.cur \in 1..Len(f.stack) /\ m \in Modules /\ state[m] = "linking"
      /\ f.it \in 1..(Arity(code, m) + 1)
  <2>1. f.cur \in 1..Len(f.stack) /\ f.it \in 1..(Arity(code, m) + 1)
    BY <1>1 DEF LinkOK, PlaceInv, Searching
  <2>2. m \in Modules
    BY <1>1, <2>1, LinkFields, ItemFields
  <2>. QED
    BY <1>1, <2>1, <2>2 DEF LinkOK, StackInv
<1>5. /\ state' \in [Modules -> States] /\ frames' = Returned(frames, FALSE)
      /\ \A k \in Modules : state[k] = "linking" => state'[k] \in {"unlinked", "error"}
      /\ \A k \in Modules : state[k] # "linking" => state'[k] = state[k]
  <2>1. \A k \in Modules : state[k] = state[k] \/ (state[k] = "linking" /\ state[k] = "error")
    OBVIOUS
  <2>. QED
    BY <1>0, <1>2, <1>3, <2>1, LinkErrorStates
<1>6. \/ resolved' = resolved
      \/ /\ f.it <= Arity(code, m) /\ state[Goals(code, m)[f.it]] = "error"
         /\ resolved' = [resolved EXCEPT ![m] = @ \cup {f.it}]
  <2>1. Targets(m) = Goals(code, m)
    BY <1>4, TargetFacts
  <2>2. Item.m = m /\ Top.it = f.it
    BY <1>1
  <2>. QED
    BY <2>1, <2>2 DEF ResolveNodeFails, Arity
<1>. HIDE DEF m
<1>7. /\ TypesOK(code, cache, state, ancestor, resolved', hasNs)
      /\ CacheOK(code, cache, state, resolved') /\ ClosedUp(code, state, resolved', {})
  <2>1. Pending(f) = {}
    BY <1>1 DEF Pending
  <2>2. CASE resolved' = resolved
    BY <1>1, <2>1, <2>2
  <2>3. CASE /\ f.it <= Arity(code, m) /\ state[Goals(code, m)[f.it]] = "error"
             /\ resolved' = [resolved EXCEPT ![m] = @ \cup {f.it}]
    <3>1. Modules \subseteq DOMAIN resolved /\ \A k \in Modules : resolved[k] \subseteq 1..Arity(code, k)
      BY <1>1 DEF TypesOK
    <3>2. /\ \A k \in Modules : k # m => resolved'[k] = resolved[k]
          /\ resolved'[m] = resolved[m] \cup {f.it} /\ Modules \subseteq DOMAIN resolved'
      BY <1>4, <2>3, <3>1
    <3>3. Arity(code, m) \in Nat /\ Goals(code, m) \in [1..Arity(code, m) -> Modules]
      BY <1>3, <1>4, GoalFacts
    <3>4. f.it \in 1..Arity(code, m) /\ Goals(code, m)[f.it] \in Modules
      BY <1>4, <2>3, <3>3
    <3>5. Goals(code, m)[f.it] \in cache
      BY <1>1, <2>3, <3>4 DEF CacheOK
    <3>6. TypesOK(code, cache, state, ancestor, resolved', hasNs)
      BY <1>1, <3>1, <3>2, <3>4 DEF TypesOK
    <3>7. CacheOK(code, cache, state, resolved')
      BY <1>1, <3>2, <3>5 DEF CacheOK
    <3>8. \A k \in Modules : state[k] \in Complete => resolved'[k] = resolved[k]
      BY <1>4, <3>2 DEF Complete
    <3>9. ClosedUp(code, state, resolved', {})
      BY <1>1, <2>1, <3>8 DEF ClosedUp
    <3>. QED
      BY <3>6, <3>7, <3>9
  <2>. QED
    BY <1>6, <2>2, <2>3
<1>8. Granted(f) = {}
  BY <1>1 DEF Granted
<1>9. ModuleOK(code, frames', cache, state', ancestor, resolved', hasNs) /\ Forward(state, state')
  <2>1. \A k \in Granted(f) : \E e \in Modules : state'[e] = "error" /\ Leads(code, k, e, LinkingIn(state))
    BY <1>8
  <2>. QED
    BY <1>1, <1>5, <1>7, <2>1, LinkFails DEF f
<1>. QED
  BY <1>1, <1>2, <1>9, InvPartsNext

\* Before the component is complete nothing is pending or granted.
LEMMA SearchingFrame ==
  ASSUME NEW f, f.pc \in Searching
  PROVE  Pending(f) = {} /\ Granted(f) = {} /\ \A hn : NamespaceFirst(f, hn)
BY DEF Pending, Granted, NamespaceFirst, Searching

\* The current item of a search.
LEMMA CurrentItem ==
  ASSUME NEW c, NEW f, NEW st, NEW anc, NEW res, LinkTypes(c, f, st, anc), LinkOK(c, f, st, anc, res),
         f.pc \in Searching
  PROVE  LET m == f.stack[f.cur].m
         IN /\ f.cur \in 1..Len(f.stack) /\ m \in Modules /\ st[m] = "linking"
            /\ f.pc = "resolve" => f.it \in 1..(Arity(c, m) + 1)
            /\ f.stack[f.cur].node \in 1..(Arity(c, m) + 1) /\ f.stack[f.cur].dfs \in Nat
            /\ f.stack[f.cur].parent \in Nat
            /\ Arity(c, m) \in Nat /\ Goals(c, m) \in [1..Arity(c, m) -> Modules] /\ f.it \in Nat
<1> DEFINE m == f.stack[f.cur].m
<1>0. c \in Programs /\ f \in LinkFrames
  BY DEF LinkTypes
<1>1. f.cur \in 1..Len(f.stack) /\ (f.pc = "resolve" => f.it \in 1..(Arity(c, m) + 1))
  BY DEF LinkOK, PlaceInv
<1>2. /\ m \in Modules /\ f.stack[f.cur].node \in Nat \ {0} /\ f.stack[f.cur].dfs \in Nat /\ f.it \in Nat
      /\ f.stack[f.cur].parent \in Nat
  BY <1>0, <1>1, LinkFields, ItemFields
<1>3. st[m] = "linking"
  BY <1>1, <1>2 DEF LinkOK, StackInv
<1>4. f.stack[f.cur].node <= Arity(c, m) + 1
  BY <1>1 DEF LinkOK, TreeInv
<1>5. Arity(c, m) \in Nat /\ Goals(c, m) \in [1..Arity(c, m) -> Modules]
  BY <1>0, <1>2, GoalFacts
<1>6. f.stack[f.cur].node \in 1..(Arity(c, m) + 1)
  <2>. HIDE DEF m
  <2>. QED
    BY <1>2, <1>4, <1>5
<1>. QED
  BY <1>1, <1>2, <1>3, <1>5, <1>6

\* A node of a module that is being linked holds a module.
LEMMA NodeHolds ==
  ASSUME NEW c, NEW ca, NEW st, NEW anc, NEW res, NEW hn, TypesOK(c, ca, st, anc, res, hn),
         CacheOK(c, ca, st, res), NEW P, ClosedUp(c, st, res, P),
         NEW m \in Modules, st[m] = "linking", NEW x \in 1..Arity(c, m), Goals(c, m)[x] \in ca,
         NEW res1, res1 = [res EXCEPT ![m] = @ \cup {x}]
  PROVE  TypesOK(c, ca, st, anc, res1, hn) /\ CacheOK(c, ca, st, res1) /\ ClosedUp(c, st, res1, P)
<1>1. Modules \subseteq DOMAIN res /\ \A k \in Modules : res[k] \subseteq 1..Arity(c, k)
  BY DEF TypesOK
<1>2. /\ \A k \in Modules : k # m => res1[k] = res[k]
      /\ res1[m] = res[m] \cup {x} /\ Modules \subseteq DOMAIN res1
  BY <1>1
<1>3. TypesOK(c, ca, st, anc, res1, hn)
  BY <1>1, <1>2 DEF TypesOK
<1>4. CacheOK(c, ca, st, res1)
  BY <1>2 DEF CacheOK
<1>5. \A k \in Modules : st[k] \in Complete => res1[k] = res[k]
  BY <1>2 DEF Complete
<1>6. ClosedUp(c, st, res1, P)
  BY <1>5 DEF ClosedUp
<1>. QED
  BY <1>3, <1>4, <1>6

\* The position of a link in a loop changes.
LEMMA WithIt ==
  ASSUME NEW f \in LinkFrames, NEW x \in Nat, NEW g, g = [f EXCEPT !.it = x]
  PROVE  /\ g \in LinkFrames /\ g.pc = f.pc /\ g.stack = f.stack /\ g.cur = f.cur /\ g.dfs = f.dfs
         /\ g.base = f.base /\ g.it = x
BY DEF LinkFrames

\* A module request is resolved.
LEMMA ResolveNodeStep ==
  ASSUME ModuleInv, ResolveNode
  PROVE  ModuleInv' /\ Forward(state, state')
<1> DEFINE f == Last(frames)
           m == f.stack[f.cur].m
           t == Goals(code, m)[f.it]
           g == [f EXCEPT !.it = @ + 1]
<1>0. Running("link", "resolve")
  BY DEF ResolveNode
<1>1. /\ f.pc = "resolve" /\ Top = f /\ Item = f.stack[f.cur]
      /\ LinkTypes(code, f, state, ancestor) /\ LinkOK(code, f, state, ancestor, resolved)
      /\ frames \in Seq(Frames) /\ frames # <<>> /\ f \in LinkFrames /\ LinkTop(frames)
      /\ Len(frames) \in 1..Len(frames) /\ f = frames[Len(frames)]
      /\ CacheOK(code, cache, state, resolved)
      /\ TypesOK(code, cache, state, ancestor, resolved, hasNs)
      /\ ClosedUp(code, state, resolved, Pending(f)) /\ NamespaceKept(code, state, hasNs, Granted(f))
      /\ ModuleOK(code, frames, cache, state, ancestor, resolved, hasNs) /\ RestOK(threw, owner, ns)
  BY <1>0, LinkRuns
<1>2. f.pc \in Searching
  BY <1>1 DEF Searching
<1>3. /\ f.cur \in 1..Len(f.stack) /\ m \in Modules /\ state[m] = "linking"
      /\ f.it \in 1..(Arity(code, m) + 1) /\ f.it \in Nat
      /\ Arity(code, m) \in Nat /\ Goals(code, m) \in [1..Arity(code, m) -> Modules]
  <2>. HIDE DEF f
  <2>. QED
    BY <1>1, <1>2, CurrentItem
<1>4. Targets(m) = Goals(code, m) /\ Item.m = m /\ Top.it = f.it
  BY <1>1, <1>3, TargetFacts
<1>5. /\ f.it <= Arity(code, m) /\ state[t] # "error"
      /\ f.it \notin resolved[m] => Read(t)
      /\ f.it \in resolved[m] => UNCHANGED <<cache, state, hasNs, ns, owner>>
      /\ resolved' = [resolved EXCEPT ![m] = @ \cup {f.it}]
      /\ frames' = [frames EXCEPT ![Len(frames)].it = @ + 1]
      /\ UNCHANGED <<code, ancestor, threw>>
  BY <1>4 DEF ResolveNode, Arity
<1>6. f.it \in 1..Arity(code, m) /\ t \in Modules
  BY <1>3, <1>5, SMTT(60)
<1>7. Changed(frames, g, frames')
  BY <1>1, <1>5 DEF Changed
<1>8. /\ g \in LinkFrames /\ g.pc = "resolve" /\ g.stack = f.stack /\ g.cur = f.cur /\ g.dfs = f.dfs
      /\ g.it = f.it + 1
  <2>1. f.it + 1 \in Nat
    BY <1>3
  <2>2. g = [f EXCEPT !.it = f.it + 1]
    OBVIOUS
  <2>. HIDE DEF f, g
  <2>. QED
    BY <1>1, <2>1, <2>2, WithIt
<1>. HIDE DEF f, m, g
<1>9. WasRead(code, cache, state, hasNs, t, cache', state', hasNs') /\ RestOK(threw, owner', ns')
  <2>1. CASE f.it \notin resolved[m]
    BY <1>5, <1>6, <2>1, ReadParts
  <2>2. CASE f.it \in resolved[m]
    <3>1. t \in cache
      BY <1>1, <1>3, <2>2 DEF CacheOK
    <3>. QED
      BY <1>1, <1>5, <2>2, <3>1 DEF WasRead
  <2>. QED
    BY <2>1, <2>2
<1>. HIDE DEF t
<1>10. Pending(f) = {} /\ Granted(f) = {} /\ Pending(g) = {} /\ Granted(g) = {} /\ NamespaceFirst(g, hasNs')
  BY <1>2, <1>8, SearchingFrame DEF Searching
<1>11. /\ TypesOK(code, cache', state', ancestor, resolved, hasNs') /\ CacheOK(code, cache', state', resolved)
       /\ ClosedUp(code, state', resolved, {}) /\ NamespaceKept(code, state', hasNs', {})
       /\ cache \subseteq cache' /\ t \in cache' /\ state' \in [Modules -> States]
       /\ \A k \in Modules : state'[k] = state[k] \/ (state[k] = "unlinked" /\ state'[k] = "linked")
  <2>1. ClosedUp(code, state, resolved, {}) /\ NamespaceKept(code, state, hasNs, {})
    BY <1>1, <1>10
  <2>. QED
    BY <1>1, <1>6, <1>9, <2>1, ReadOK
<1>12. /\ Forward(state, state') /\ KeepsEvaluated(state, state')
       /\ \A k \in Modules : state'[k] = "evaluating" <=> state[k] = "evaluating"
       /\ \A k \in Modules : state'[k] = "linking" <=> state[k] = "linking"
  BY <1>11, ForwardRead
<1>13. /\ TypesOK(code, cache', state', ancestor, resolved', hasNs') /\ CacheOK(code, cache', state', resolved')
       /\ ClosedUp(code, state', resolved', {})
  <2>1. state'[m] = "linking" /\ Goals(code, m)[f.it] \in cache'
    BY <1>3, <1>11, <1>12 DEF t
  <2>. QED
    <3>1. /\ m \in Modules /\ f.it \in 1..Arity(code, m) /\ resolved' = [resolved EXCEPT ![m] = @ \cup {f.it}]
      BY <1>3, <1>5, <1>6
    <3>2. /\ TypesOK(code, cache', state', ancestor, resolved, hasNs') /\ CacheOK(code, cache', state', resolved)
          /\ ClosedUp(code, state', resolved, {})
      BY <1>11
    <3>. QED
      BY <2>1, <3>1, <3>2, NodeHolds
<1>14. LinkOK(code, f, state', ancestor, resolved)
  BY <1>1, <1>11, ReadKeepsLink
<1>15. LinkOK(code, g, state', ancestor, resolved')
  <2>1. LinkTypes(code, f, state', ancestor)
    BY <1>1, <1>11 DEF LinkTypes
  <2>2. state'[Goals(code, m)[f.it]] # "error"
    <3>1. state'[t] # "error"
      BY <1>5, <1>6, <1>11
    <3>. QED
      BY <3>1 DEF t
  <2>3. Modules \subseteq DOMAIN resolved
    BY <1>1 DEF TypesOK
  <2>4. m = f.stack[f.cur].m
    BY DEF m
  <2>5. f.it <= Arity(code, m) /\ resolved' = [resolved EXCEPT ![m] = @ \cup {f.it}] /\ f.pc = "resolve"
    BY <1>1, <1>5
  <2>. QED
    BY <1>8, <1>14, <2>1, <2>2, <2>3, <2>4, <2>5, ResolveOK
<1>16. ModuleOK(code, frames', cache', state', ancestor, resolved', hasNs')
  <2>1. ClosedUp(code, state', resolved', Pending(g)) /\ NamespaceKept(code, state', hasNs', Granted(g))
    BY <1>10, <1>11, <1>13
  <2>. QED
    <3>1. ModuleOK(code, frames, cache, state, ancestor, resolved, hasNs) /\ LinkTop(frames)
      BY <1>1
    <3>2. g \in LinkFrames /\ cache \subseteq cache' /\ NamespaceFirst(g, hasNs')
      BY <1>8, <1>10, <1>11
    <3>. QED
      BY <1>7, <1>12, <1>13, <1>15, <2>1, <3>1, <3>2, LinkGoesOn
<1>. QED
  BY <1>5, <1>9, <1>12, <1>16, InvPartsNext

\* A step of a link that changes nothing but its frame.
LEMMA LinkFrameOnly ==
  ASSUME ModuleInv, NEW pc, Running("link", pc),
         NEW g \in LinkFrames, Changed(frames, g, frames'),
         LinkOK(code, g, state, ancestor, resolved),
         Pending(Last(frames)) \subseteq Pending(g), Granted(Last(frames)) \subseteq Granted(g),
         NamespaceFirst(g, hasNs)
  PROVE  ModuleOK(code, frames', cache, state, ancestor, resolved, hasNs)
<1>1. /\ LinkTop(frames)
      /\ CacheOK(code, cache, state, resolved)
      /\ TypesOK(code, cache, state, ancestor, resolved, hasNs)
      /\ ClosedUp(code, state, resolved, Pending(Last(frames)))
      /\ NamespaceKept(code, state, hasNs, Granted(Last(frames)))
      /\ ModuleOK(code, frames, cache, state, ancestor, resolved, hasNs)
  BY LinkRuns
<1>2. ClosedUp(code, state, resolved, Pending(g))
  BY <1>1, Zenon DEF ClosedUp
<1>3. NamespaceKept(code, state, hasNs, Granted(g))
  BY <1>1, Zenon DEF NamespaceKept
<1>. QED
  BY <1>1, <1>2, <1>3, SameStates, LinkGoesOn

\* All requests of a module are resolved.
LEMMA ResolveEndStep ==
  ASSUME ModuleInv, ResolveEnd
  PROVE  ModuleInv' /\ Forward(state, state')
<1> DEFINE f == Last(frames)
           g == [f EXCEPT !.pc = "find"]
<1>0. Running("link", "resolve")
  BY DEF ResolveEnd
<1>1. /\ f.pc = "resolve" /\ Top = f /\ Item = f.stack[f.cur]
      /\ LinkTypes(code, f, state, ancestor) /\ LinkOK(code, f, state, ancestor, resolved)
      /\ frames # <<>> /\ f \in LinkFrames
      /\ Len(frames) \in 1..Len(frames) /\ f = frames[Len(frames)]
      /\ ModuleOK(code, frames, cache, state, ancestor, resolved, hasNs) /\ RestOK(threw, owner, ns)
  BY <1>0, LinkRuns
<1>2. /\ f.it > Arity(code, f.stack[f.cur].m) /\ Changed(frames, g, frames')
      /\ UNCHANGED <<code, cache, state, link, threw>>
  BY <1>1 DEF ResolveEnd, Goto, Arity, Changed
<1>3. g \in LinkFrames /\ g.pc = "find" /\ g.stack = f.stack /\ g.cur = f.cur /\ g.dfs = f.dfs
  BY <1>1 DEF LinkFrames, Searching
<1>. HIDE DEF f, g
<1>4. LinkOK(code, g, state, ancestor, resolved)
  BY <1>1, <1>2, <1>3, ResolveEndOK
<1>5. Pending(f) = {} /\ Granted(f) = {} /\ NamespaceFirst(g, hasNs)
  BY <1>1, <1>3, SearchingFrame DEF Searching
<1>6. ModuleOK(code, frames', cache, state, ancestor, resolved, hasNs)
  <2>1. Pending(f) \subseteq Pending(g) /\ Granted(f) \subseteq Granted(g)
    BY <1>5
  <2>. QED
    BY <1>0, <1>2, <1>3, <1>4, <1>5, <2>1, LinkFrameOnly DEF f
<1>. QED
  BY <1>1, <1>2, <1>6, InvPartsNext, SameStates DEF link

\* What the find loop computes: the lowest index of the nodes from a up to b,
LEMMA LowestFacts ==
  ASSUME ancestor \in [Modules -> Nat], NEW m \in Modules, Item.m = m, code \in Programs,
         NEW a \in Nat \ {0}, NEW b \in Nat, b <= Arity(code, m) + 1,
         NEW S, S = {Targets(m)[x] : x \in a..(b - 1)}
  PROVE  IsLowest(code, state, ancestor, m, a, b, Lowest(S))
<1> DEFINE T == {ancestor[k] : k \in {x \in S : state[x] = "linking"}} \cup {ancestor[m]}
           low == Lowest(S)
<1>1. Targets(m) = Goals(code, m)
  BY TargetFacts
<1>2. Goals(code, m) \in [1..Arity(code, m) -> Modules] /\ Arity(code, m) \in Nat
  BY GoalFacts
<1>3. \A x \in a..(b - 1) : x \in 1..Arity(code, m)
  BY <1>2
<1>4. S = {Goals(code, m)[x] : x \in a..(b - 1)} /\ S \subseteq Modules
  BY <1>1, <1>2, <1>3
<1>5. T \in SUBSET Nat /\ T # {}
  BY <1>4
<1>6. \E x \in T : \A y \in T : x <= y
  <2>. HIDE DEF T
  <2>. QED
    BY <1>5, LeastNumber
<1>7. low \in T /\ \A y \in T : low <= y
  <2>1. low = CHOOSE x \in T : \A y \in T : x <= y
    BY DEF Lowest
  <2>. HIDE DEF T, low
  <2>. QED
    BY <1>6, <2>1
<1>. HIDE DEF low
<1>8. ancestor[m] \in T /\ \A x \in a..(b - 1) : state[Goals(code, m)[x]] = "linking" => ancestor[Goals(code, m)[x]] \in T
  BY <1>4
<1>9. low = ancestor[m] \/ \E x \in a..(b - 1) : state[Goals(code, m)[x]] = "linking" /\ low = ancestor[Goals(code, m)[x]]
  <2>1. low = ancestor[m] \/ \E k \in S : state[k] = "linking" /\ low = ancestor[k]
    BY <1>7
  <2>. HIDE DEF T
  <2>2. \A k \in S : \E x \in a..(b - 1) : k = Goals(code, m)[x]
    BY <1>4
  <2>3. CASE low = ancestor[m]
    BY <2>3
  <2>4. CASE \E k \in S : state[k] = "linking" /\ low = ancestor[k]
    <3>1. PICK k \in S : state[k] = "linking" /\ low = ancestor[k]
      BY <2>4
    <3>2. PICK x \in a..(b - 1) : k = Goals(code, m)[x]
      BY <2>2
    <3>. QED
      BY <3>1, <3>2
  <2>. QED
    BY <2>1, <2>3, <2>4
<1>. HIDE DEF T
<1>10. IsLowest(code, state, ancestor, m, a, b, low)
  BY <1>7, <1>8, <1>9 DEF IsLowest
<1>. QED
  BY <1>10 DEF low

\* and the first unlinked module.
LEMMA FirstUnlinked ==
  ASSUME NEW m \in Modules, Item.m = m, code \in Programs, NEW a \in Nat \ {0},
         Unlinked(a) # {}, NEW i,
         i = CHOOSE x \in Unlinked(a) : \A y \in Unlinked(a) : x <= y
  PROVE  /\ i \in a..Arity(code, m) /\ state[Goals(code, m)[i]] = "unlinked"
         /\ \A x \in a..(i - 1) : state[Goals(code, m)[x]] # "unlinked"
<1>1. Targets(m) = Goals(code, m) /\ Arity(code, m) \in Nat
  BY TargetFacts, GoalFacts
<1>2. Unlinked(a) = {x \in a..Arity(code, m) : state[Goals(code, m)[x]] = "unlinked"}
  BY <1>1 DEF Unlinked, Arity
<1>3. Unlinked(a) \in SUBSET Nat
  BY <1>1, <1>2
<1> DEFINE T == Unlinked(a)
<1>. HIDE DEF T
<1>4. \E x \in T : \A y \in T : x <= y
  BY <1>3, LeastNumber DEF T
<1>5. i \in T /\ \A y \in T : i <= y
  <2>1. i = CHOOSE x \in T : \A y \in T : x <= y
    BY DEF T
  <2>. QED
    BY <1>4, <2>1
<1>6. i \in a..Arity(code, m) /\ state[Goals(code, m)[i]] = "unlinked"
  BY <1>2, <1>5 DEF T
<1>7. ASSUME NEW x \in a..(i - 1), state[Goals(code, m)[x]] = "unlinked" PROVE FALSE
  <2>1. x \in a..Arity(code, m) /\ x < i /\ i \in Nat /\ x \in Nat
    BY <1>1, <1>6
  <2>2. x \in T
    BY <1>2, <1>7, <2>1 DEF T
  <2>3. i <= x
    BY <1>5, <2>2
  <2>. QED
    BY <2>1, <2>3
<1>. QED
  BY <1>6, <1>7

\* The frame of a link after Visit.
VisitFrame(f, i, m) ==
  [f EXCEPT !.stack = Append([f.stack EXCEPT ![f.cur].node = i + 1],
                             [m |-> m, node |-> 1, dfs |-> f.dfs + 1, parent |-> f.cur]),
            !.cur = Len(f.stack) + 1,
            !.dfs = f.dfs + 1, !.module = m, !.it = 1, !.pc = "resolve"]

\* The frame of the search stays a frame.
LEMMA FrameMoves ==
  ASSUME NEW f \in LinkFrames, NEW s \in Seq(StackItems), NEW k \in Nat, NEW d \in Nat, NEW m \in Modules,
         NEW g, g = [f EXCEPT !.stack = s, !.cur = k, !.dfs = d, !.module = m, !.it = 1, !.pc = "resolve"]
  PROVE  g \in LinkFrames
BY DEF LinkFrames, Searching

\* A visit pushes the module.
LEMMA VisitPushes ==
  ASSUME NEW f \in LinkFrames, f.cur \in 1..Len(f.stack), NEW i \in Nat, NEW m \in Modules,
         NEW g, g = VisitFrame(f, i, m)
  PROVE  g \in LinkFrames /\ Pushed(f, g, i, m)
<1> DEFINE s == Append([f.stack EXCEPT ![f.cur].node = i + 1],
                       [m |-> m, node |-> 1, dfs |-> f.dfs + 1, parent |-> f.cur])
<1>1. /\ g = [f EXCEPT !.stack = s, !.cur = Len(f.stack) + 1,
                       !.dfs = f.dfs + 1, !.module = m, !.it = 1, !.pc = "resolve"]
  BY DEF VisitFrame
<1>. HIDE DEF s
<1>2. /\ g.pc = "resolve" /\ g.dfs = f.dfs + 1 /\ g.cur = Len(f.stack) + 1 /\ g.it = 1 /\ g.stack = s
      /\ g.op = f.op /\ g.base = f.base /\ g.module = m
  BY <1>1 DEF LinkFrames
<1>3. Pushed(f, g, i, m)
  BY <1>2 DEF Pushed, s
<1>4. s \in Seq(StackItems)
  BY <1>2, <1>3, PushedStack
<1>5. f.dfs + 1 \in Nat /\ Len(f.stack) + 1 \in Nat
  BY LinkFields
<1>6. g \in LinkFrames
  <2> DEFINE k == Len(f.stack) + 1
             d == f.dfs + 1
  <2>1. /\ g = [f EXCEPT !.stack = s, !.cur = k, !.dfs = d, !.module = m, !.it = 1, !.pc = "resolve"]
        /\ k \in Nat /\ d \in Nat
    BY <1>1, <1>5
  <2>. HIDE DEF k, d
  <2>. QED
    BY <1>4, <2>1, FrameMoves
<1>. QED
  BY <1>3, <1>6

\* A search goes on to an unlinked module; the rest of the invariant.
LEMMA VisitRest ==
  ASSUME NEW c, NEW fs, NEW ca, NEW st, NEW anc, NEW res, NEW hn,
         ModuleOK(c, fs, ca, st, anc, res, hn), LinkTop(fs), Last(fs).pc = "find",
         NEW g \in LinkFrames, g.pc = "resolve", NEW fs1, Changed(fs, g, fs1),
         NEW m \in Modules, m \in ca, st[m] = "unlinked", NEW st1, Put(st, m, "linking", st1),
         NEW anc1, anc1 \in [Modules -> 0..Cardinality(Modules)], LinkOK(c, g, st1, anc1, res)
  PROVE  ModuleOK(c, fs1, ca, st1, anc1, res, hn) /\ Forward(st, st1)
<1>1. /\ CacheOK(c, ca, st, res) /\ TypesOK(c, ca, st, anc, res, hn)
      /\ ClosedUp(c, st, res, Pending(Last(fs))) /\ NamespaceKept(c, st, hn, Granted(Last(fs)))
  BY LinkInProgress
<1>2. c \in Programs /\ hn \in SUBSET Modules /\ st \in [Modules -> States]
  BY <1>1 DEF TypesOK
<1>3. /\ \A k \in Modules : k # m => st1[k] = st[k]
      /\ st1[m] = "linking" /\ st1 \in [Modules -> States]
  BY <1>2 DEF States, Put
<1>4. Pending(Last(fs)) = {} /\ Granted(Last(fs)) = {} /\ Pending(g) = {} /\ Granted(g) = {} /\ NamespaceFirst(g, hn)
  BY SearchingFrame DEF Searching
<1>5. \A k \in Modules :
         /\ st1[k] \in Complete => st[k] \in Complete
         /\ st[k] \in Complete \cup {"error"} => st1[k] \in Complete \cup {"error"}
         /\ st[k] = "error" => st1[k] = "error"
         /\ st1[k] \in {"unlinked", "linking"} => st[k] \in {"unlinked", "linking"}
  BY <1>3 DEF Complete
<1>6. ClosedUp(c, st1, res, {}) /\ NamespaceKept(c, st1, hn, {})
  <2>1. ClosedUp(c, st, res, {}) /\ NamespaceKept(c, st, hn, {})
    BY <1>1, <1>4
  <2>. QED
    BY <1>2, <1>5, <2>1, QuietStep, Zenon
<1>7. TypesOK(c, ca, st1, anc1, res, hn)
  BY <1>1, <1>3 DEF TypesOK
<1>8. CacheOK(c, ca, st1, res)
  BY <1>1, <1>3 DEF CacheOK
<1>9. /\ KeepsEvaluated(st, st1) /\ Forward(st, st1)
      /\ \A k \in Modules : st1[k] = "evaluating" <=> st[k] = "evaluating"
  BY <1>3 DEF KeepsEvaluated, Forward, Complete
<1>10. ClosedUp(c, st1, res, Pending(g)) /\ NamespaceKept(c, st1, hn, Granted(g)) /\ NamespaceFirst(g, hn)
  BY <1>4, <1>6
<1>. QED
  BY <1>7, <1>8, <1>9, <1>10, LinkGoesOn

\* The search visits an unlinked module.
LEMMA VisitStep ==
  ASSUME ModuleInv, Visit
  PROVE  ModuleInv' /\ Forward(state, state')
<1> DEFINE f == Last(frames)
           m0 == f.stack[f.cur].m
           a == f.stack[f.cur].node
           i == CHOOSE x \in Unlinked(a) : \A y \in Unlinked(a) : x <= y
           m == Goals(code, m0)[i]
           S == {Targets(m0)[x] : x \in a..(i - 1)}
           low == Lowest(S)
           g == VisitFrame(f, i, m)
<1>0. Running("link", "find")
  BY DEF Visit
<1>1. /\ f.pc = "find" /\ Top = f /\ Item = f.stack[f.cur]
      /\ LinkTypes(code, f, state, ancestor) /\ LinkOK(code, f, state, ancestor, resolved)
      /\ frames \in Seq(Frames) /\ frames # <<>> /\ f \in LinkFrames /\ LinkTop(frames)
      /\ Len(frames) \in 1..Len(frames) /\ f = frames[Len(frames)]
      /\ CacheOK(code, cache, state, resolved)
      /\ TypesOK(code, cache, state, ancestor, resolved, hasNs)
      /\ ModuleOK(code, frames, cache, state, ancestor, resolved, hasNs) /\ RestOK(threw, owner, ns)
  BY <1>0, LinkRuns
<1>2. /\ f.cur \in 1..Len(f.stack) /\ m0 \in Modules /\ state[m0] = "linking"
      /\ a \in 1..(Arity(code, m0) + 1) /\ Arity(code, m0) \in Nat
      /\ Goals(code, m0) \in [1..Arity(code, m0) -> Modules]
  <2>. HIDE DEF f
  <2>. QED
    BY <1>1, CurrentItem DEF Searching
<1>3. a \in Nat \ {0}
  BY <1>2
<1>4. Targets(m0) = Goals(code, m0) /\ Item.m = m0 /\ Item.node = a
  BY <1>1, <1>2, TargetFacts, SMTT(60)
<1>5. /\ Unlinked(a) # {} /\ state' = [state EXCEPT ![m] = "linking"]
      /\ ancestor' = [ancestor EXCEPT ![m0] = low, ![m] = f.dfs + 1]
      /\ UNCHANGED <<code, cache, resolved, hasNs, ns, owner, threw>>
  BY <1>1, <1>4, ZenonT(60) DEF Visit
<1>6. Changed(frames, g, frames')
  BY <1>1, <1>4, ZenonT(60) DEF Visit, GoOn, Changed, VisitFrame
<1>. HIDE DEF f, a, g, low, i
<1>7. code \in Programs /\ ancestor \in [Modules -> Nat] /\ state \in [Modules -> States]
  BY <1>1 DEF LinkTypes
<1>8. /\ i \in a..Arity(code, m0) /\ state[m] = "unlinked"
      /\ \A x \in a..(i - 1) : state[Goals(code, m0)[x]] # "unlinked"
  <2>1. i = CHOOSE x \in Unlinked(a) : \A y \in Unlinked(a) : x <= y
    BY DEF i
  <2>. HIDE DEF m0
  <2>2. m0 \in Modules /\ Item.m = m0 /\ Unlinked(a) # {}
    BY <1>2, <1>4, <1>5
  <2>. QED
    BY <1>3, <1>7, <2>1, <2>2, FirstUnlinked
<1>9. i \in 1..Arity(code, m0) /\ i \in Nat /\ i <= Arity(code, m0) + 1
  BY <1>2, <1>3, <1>8
<1>10. m \in Modules
  BY <1>2, <1>9
<1>11. IsLowest(code, state, ancestor, m0, a, i, low)
  <2>. HIDE DEF m0
  <2>. QED
    BY <1>2, <1>3, <1>4, <1>7, <1>9, LowestFacts DEF low
<1>. HIDE DEF m, m0
<1>12. g \in LinkFrames /\ Pushed(f, g, i, m)
  BY <1>1, <1>2, <1>9, <1>10, VisitPushes DEF g
<1>13. low \in Nat /\ low <= ancestor[m0] /\ LinkOK(code, g, state', ancestor', resolved)
  <2>1. m0 = f.stack[f.cur].m /\ i \in f.stack[f.cur].node..Arity(code, m0) /\ m = Goals(code, m0)[i]
    BY <1>8 DEF m0, a, m
  <2>2. /\ \A x \in f.stack[f.cur].node..(i - 1) : state[Goals(code, m0)[x]] # "unlinked"
        /\ IsLowest(code, state, ancestor, m0, f.stack[f.cur].node, i, low)
        /\ state[m] = "unlinked"
    BY <1>8, <1>11 DEF a
  <2>3. /\ LinkTypes(code, f, state, ancestor) /\ LinkOK(code, f, state, ancestor, resolved) /\ f.pc = "find"
        /\ Put(state, m, "linking", state') /\ Visited(ancestor, m0, low, m, f, ancestor')
    BY <1>1, <1>5 DEF Put, Visited
  <2>. QED
    <3>1. i \in f.stack[f.cur].node..(Arity(code, m0) + 1) /\ i <= Arity(code, m0)
      BY <1>9, <2>1
    <3>2. ComesTo(code, f, state, ancestor, m0, i, low, m)
      BY <2>1, <2>2, <3>1 DEF ComesTo, Lowers
    <3>. QED
      BY <1>12, <2>3, <3>2, VisitOK
<1>14. g.pc = "resolve" /\ g.dfs = f.dfs + 1 /\ f.dfs \in Nat
  BY <1>1, <1>12, LinkFields DEF Pushed
<1>15. ancestor' \in [Modules -> 0..Cardinality(Modules)]
  <2>1. Cardinality(Modules) \in Nat /\ Cardinality(StartedIn(state')) <= Cardinality(Modules)
        /\ Cardinality(StartedIn(state')) \in Nat
    BY StartedFinite
  <2>2. f.dfs + 1 + 1 <= Cardinality(StartedIn(state'))
    BY <1>13, <1>14 DEF LinkOK, CountInv
  <2>3. f.dfs + 1 \in 0..Cardinality(Modules)
    BY <1>14, <2>1, <2>2
  <2>4. ancestor \in [Modules -> 0..Cardinality(Modules)]
    BY <1>1 DEF TypesOK
  <2>5. ancestor[m0] \in 0..Cardinality(Modules)
    BY <1>2, <2>4
  <2>6. low \in 0..Cardinality(Modules)
    BY <1>13, <2>1, <2>5
  <2>. QED
    BY <1>5, <2>3, <2>4, <2>6
<1>16. m \in cache
  <2>1. DoneNodes(code, f, f.cur) = 1..Arity(code, m0)
    BY <1>1 DEF DoneNodes, m0
  <2>2. i \in resolved[m0]
    BY <1>1, <1>2, <1>9, <2>1 DEF LinkOK, ResolvedInv, m0
  <2>. QED
    BY <1>1, <1>2, <2>2, SMTT(60) DEF CacheOK, m
<1>17. ModuleOK(code, frames', cache, state', ancestor', resolved, hasNs) /\ Forward(state, state')
  <2>1. Put(state, m, "linking", state')
    BY <1>5 DEF Put
  <2>2. /\ ModuleOK(code, frames, cache, state, ancestor, resolved, hasNs) /\ LinkTop(frames)
        /\ Last(frames).pc = "find" /\ state[m] = "unlinked"
    BY <1>1, <1>8 DEF f
  <2>. QED
    BY <1>6, <1>10, <1>12, <1>13, <1>14, <1>15, <1>16, <2>1, <2>2, VisitRest
<1>. QED
  BY <1>1, <1>5, <1>17, InvPartsNext

\* A step of a link that changes its frame and the ancestor indexes.
LEMMA IndexesOnly ==
  ASSUME NEW c, NEW fs, NEW ca, NEW st, NEW anc, NEW res, NEW hn,
         ModuleOK(c, fs, ca, st, anc, res, hn), LinkTop(fs),
         NEW g \in LinkFrames, NEW fs1, Changed(fs, g, fs1),
         NEW anc1 \in [Modules -> 0..Cardinality(Modules)], LinkOK(c, g, st, anc1, res),
         Pending(Last(fs)) \subseteq Pending(g), Granted(Last(fs)) \subseteq Granted(g),
         NamespaceFirst(g, hn)
  PROVE  ModuleOK(c, fs1, ca, st, anc1, res, hn)
<1>1. /\ CacheOK(c, ca, st, res) /\ TypesOK(c, ca, st, anc, res, hn)
      /\ ClosedUp(c, st, res, Pending(Last(fs))) /\ NamespaceKept(c, st, hn, Granted(Last(fs)))
  BY LinkInProgress
<1>2. ClosedUp(c, st, res, Pending(g))
  BY <1>1, Zenon DEF ClosedUp
<1>3. NamespaceKept(c, st, hn, Granted(g))
  BY <1>1, Zenon DEF NamespaceKept
<1>4. TypesOK(c, ca, st, anc1, res, hn)
  BY <1>1 DEF TypesOK
<1>. QED
  BY <1>1, <1>2, <1>3, <1>4, SameStates, LinkGoesOn

\* The component of a link that closes one is closed.
LEMMA ComponentClosed ==
  ASSUME NEW c, NEW f, NEW st, NEW anc, NEW res, LinkTypes(c, f, st, anc), LinkOK(c, f, st, anc, res),
         f.pc \in Closing
  PROVE  /\ Component(f) \in SUBSET Modules /\ Closed(c, Component(f), IncompleteIn(st))
         /\ \A k \in Component(f) : st[k] = "linking" /\ Succ(c, k) \subseteq Modules
         /\ \A k \in Component(f) : \A t \in Succ(c, k) : st[t] \in Complete \/ t \in Component(f)
<1>0. /\ c \in Programs /\ f \in LinkFrames /\ f.stack \in Seq(StackItems) /\ Len(f.stack) \in Nat
      /\ \A i \in 1..Len(f.stack) : f.stack[i].m \in Modules
  BY LinkFields, ItemFields DEF LinkTypes
<1>1. f.base \in 1..Len(f.stack) /\ \A i \in f.base..Len(f.stack) : i \in 1..Len(f.stack)
  <2>1. f.base \in 1..Len(f.stack)
    BY DEF LinkOK, PlaceInv
  <2>. QED
    BY <1>0, <2>1
<1>2. \A k \in Component(f) : k \in Modules /\ st[k] = "linking" /\ Succ(c, k) \subseteq Modules
  <2>1. \A i \in f.base..Len(f.stack) : f.stack[i].m \in Modules /\ st[f.stack[i].m] = "linking"
    BY <1>0, <1>1 DEF LinkOK, StackInv
  <2>. QED
    BY <1>0, <2>1, GoalFacts DEF Component
<1>3. \A k \in Component(f) : \A t \in Succ(c, k) : st[t] \in Complete \/ t \in Component(f)
  BY DEF LinkOK, ComponentInv, Component
<1>4. Closed(c, Component(f), IncompleteIn(st))
  BY <1>3 DEF Closed, IncompleteIn
<1>. QED
  BY <1>2, <1>3, <1>4

\* None of a complete component has a namespace: it would lead to a module that
\* has failed.
LEMMA ComponentFirst ==
  ASSUME NEW c, NEW g, NEW st, NEW anc, NEW res, LinkTypes(c, g, st, anc), LinkOK(c, g, st, anc, res),
         g.pc = "namespace", NEW hn, NamespaceKept(c, st, hn, {})
  PROVE  NamespaceFirst(g, hn)
<1>0. g.base \in Nat /\ g.it \in g.base..Len(g.stack) /\ Len(g.stack) \in Nat
  BY LinkFields DEF LinkTypes, LinkOK, PlaceInv
<1>1. /\ Component(g) \in SUBSET Modules /\ Closed(c, Component(g), IncompleteIn(st))
      /\ \A k \in Component(g) : st[k] = "linking"
  BY ComponentClosed DEF Closing
<1>2. ASSUME NEW k \in Component(g), k \in hn PROVE FALSE
  <2>1. st[k] \in {"unlinked", "linking"}
    BY <1>1
  <2>2. Doomed(c, st, k)
    BY <1>2, <2>1 DEF NamespaceKept
  <2>3. \E e \in Component(g) : st[e] = "error"
    BY <1>1, <2>2 DEF Doomed
  <2>. QED
    BY <1>1, <2>3
<1>3. \A i \in g.base..g.it : g.stack[i].m \in Component(g)
  <2>1. \A i \in g.base..g.it : i \in g.base..Len(g.stack)
    BY <1>0
  <2>. QED
    BY <2>1 DEF Component
<1>. QED
  BY <1>2, <1>3, Zenon DEF NamespaceFirst

\* The frame of a link after Leave.
WentBack(f, g, x, p) == g = [f EXCEPT !.module = x, !.cur = p]
Closes(f, g, x, p) ==
  g = [f EXCEPT !.module = x, !.cur = p, !.base = f.cur, !.it = Len(f.stack), !.pc = "namespace"]

\* The frame that goes back to the parent.
LEMMA FrameBack ==
  ASSUME NEW f \in LinkFrames, NEW x \in Modules, NEW p \in Nat,
         NEW g, WentBack(f, g, x, p)
  PROVE  g \in LinkFrames /\ g.pc = f.pc /\ g.stack = f.stack /\ g.dfs = f.dfs /\ g.cur = p
BY DEF LinkFrames, WentBack

\* The frame that closes a component.
LEMMA FrameCloses ==
  ASSUME NEW f \in LinkFrames, NEW x \in Modules, NEW p \in Nat,
         NEW g, Closes(f, g, x, p)
  PROVE  /\ g \in LinkFrames /\ g.pc = "namespace" /\ g.stack = f.stack /\ g.dfs = f.dfs /\ g.cur = p
         /\ g.base = f.cur /\ g.it = Len(f.stack)
<1>2. f.cur \in Nat /\ Len(f.stack) \in Nat /\ "namespace" \in Searching \cup Closing
  BY LinkFields DEF Closing
<1> DEFINE n == Len(f.stack)
<1>3. n \in Nat /\ g = [f EXCEPT !.module = x, !.cur = p, !.base = f.cur, !.it = n, !.pc = "namespace"]
  BY <1>2 DEF Closes
<1>. HIDE DEF n
<1>4. /\ g \in LinkFrames /\ g.pc = "namespace" /\ g.stack = f.stack /\ g.dfs = f.dfs /\ g.cur = p
      /\ g.base = f.cur /\ g.it = n
  BY <1>2, <1>3 DEF LinkFrames
<1>. QED
  BY <1>4 DEF n

\* The search leaves a module.
LEMMA LeaveStep ==
  ASSUME ModuleInv, Leave
  PROVE  ModuleInv' /\ Forward(state, state')
<1> DEFINE f == Last(frames)
           m == f.stack[f.cur].m
           a == f.stack[f.cur].node
           N == Arity(code, m)
           p == f.stack[f.cur].parent
           mp == f.stack[p].m
           S == {Targets(m)[x] : x \in a..N}
           low == Lowest(S)
           module == IF S = {} THEN f.module ELSE Last(Targets(m))
           g1 == [f EXCEPT !.module = module, !.cur = p]
           g2 == [f EXCEPT !.module = module, !.cur = p, !.base = f.cur, !.it = Len(f.stack), !.pc = "namespace"]
<1>0. Running("link", "find")
  BY DEF Leave
<1>1. /\ f.pc = "find" /\ Top = f /\ Item = f.stack[f.cur]
      /\ LinkTypes(code, f, state, ancestor) /\ LinkOK(code, f, state, ancestor, resolved)
      /\ frames \in Seq(Frames) /\ frames # <<>> /\ f \in LinkFrames /\ LinkTop(frames)
      /\ Len(frames) \in 1..Len(frames) /\ f = frames[Len(frames)]
      /\ TypesOK(code, cache, state, ancestor, resolved, hasNs)
      /\ NamespaceKept(code, state, hasNs, Granted(f))
      /\ ModuleOK(code, frames, cache, state, ancestor, resolved, hasNs) /\ RestOK(threw, owner, ns)
  BY <1>0, LinkRuns
<1>2. /\ f.cur \in 1..Len(f.stack) /\ m \in Modules /\ state[m] = "linking"
      /\ a \in 1..(N + 1) /\ N \in Nat /\ p \in Nat /\ f.stack[f.cur].dfs \in Nat
      /\ Goals(code, m) \in [1..N -> Modules]
  <2>. HIDE DEF f
  <2>. QED
    BY <1>1, CurrentItem DEF Searching
<1>3. a \in Nat \ {0}
  BY <1>2
<1>4. Targets(m) = Goals(code, m) /\ Item.m = m /\ Item.node = a /\ Item.parent = p /\ Item.dfs = f.stack[f.cur].dfs
  BY <1>1, <1>2, TargetFacts
<1> DEFINE P == {Targets(Item.m)[x] : x \in Item.node..Len(code[Item.m].imports)}
           L == Lowest(P)
           M == IF P = {} THEN Top.module ELSE Last(Targets(Item.m))
<1>a. /\ Unlinked(Item.node) = {} /\ owner' = [owner EXCEPT ![Item.m] = IF @ = NoModule THEN M ELSE @]
      /\ UNCHANGED <<code, cache, state, resolved, hasNs, ns, threw>>
      /\ L # Item.dfs => /\ Changed(frames, [Top EXCEPT !.module = M, !.cur = Item.parent], frames')
                         /\ Told(ancestor, Item.m, Top.stack[Item.parent].m, L, ancestor')
      /\ L = Item.dfs => /\ Changed(frames, [Top EXCEPT !.module = M, !.cur = Item.parent, !.base = Top.cur,
                                                        !.it = Len(Top.stack), !.pc = "namespace"], frames')
                         /\ Put(ancestor, Item.m, L, ancestor')
  BY DEF Leave, GoOn, Changed, Told, Put
<1>b. P = S
  BY <1>4 DEF Arity
<1>c. L = low /\ M = module
  <2>. HIDE DEF P, S
  <2>. QED
    BY <1>b, <1>1, <1>4
<1>. HIDE DEF L, M, low, module
<1>5. /\ Unlinked(a) = {} /\ owner' = [owner EXCEPT ![m] = IF @ = NoModule THEN module ELSE @]
      /\ UNCHANGED <<code, cache, state, resolved, hasNs, ns, threw>>
  BY <1>4, <1>a, <1>c, SMTT(60)
<1>6. low # f.stack[f.cur].dfs => Changed(frames, g1, frames') /\ Told(ancestor, m, mp, low, ancestor')
  BY <1>1, <1>4, <1>a, <1>c, SMTT(60)
<1>7. low = f.stack[f.cur].dfs => Changed(frames, g2, frames') /\ Put(ancestor, m, low, ancestor')
  BY <1>1, <1>4, <1>a, <1>c, ZenonT(60)
<1>8. code \in Programs /\ ancestor \in [Modules -> Nat] /\ state \in [Modules -> States]
  BY <1>1 DEF LinkTypes
<1>9. \A x \in a..N : state[Goals(code, m)[x]] # "unlinked"
  BY <1>4, <1>5 DEF Unlinked, Arity
<1>10. module \in Modules
  <2>. USE DEF module
  <2>1. CASE S = {}
    <3>1. f.module \in Modules
      BY <1>1, LinkFields
    <3>. QED
      BY <2>1, <3>1
  <2>2. CASE S # {}
    <3>1. N \in 1..N
      BY <1>2, <1>3, <2>2
    <3>2. Goals(code, m) \in Seq(Modules) /\ Len(Goals(code, m)) = N
      BY <1>2
    <3>3. Last(Goals(code, m)) = Goals(code, m)[N]
      BY <3>2 DEF Last
    <3>4. Last(Goals(code, m)) \in Modules
      BY <1>2, <3>1, <3>3
    <3>. QED
      BY <1>4, <2>2, <3>4
  <2>. QED
    BY <2>1, <2>2
<1>11. RestOK(threw, owner', ns)
  <2>. HIDE DEF module, m
  <2>. QED
    BY <1>1, <1>2, <1>5, <1>10 DEF RestOK
<1>12. IsLowest(code, state, ancestor, m, a, N + 1, low)
  <2> DEFINE b == N + 1
  <2>1. b \in Nat /\ b <= Arity(code, m) + 1 /\ b - 1 = N
    BY <1>2
  <2>. HIDE DEF b, N, m, a
  <2>2. S = {Targets(m)[x] : x \in a..(b - 1)}
    BY <2>1
  <2>. HIDE DEF S
  <2>3. IsLowest(code, state, ancestor, m, a, b, Lowest(S))
    BY <1>2, <1>3, <1>4, <1>8, <2>1, <2>2, LowestFacts
  <2>. QED
    BY <2>3 DEF b, low
<1>. HIDE DEF S
<1>13. /\ g1 \in LinkFrames /\ g1.pc = f.pc /\ g1.stack = f.stack /\ g1.dfs = f.dfs /\ g1.cur = p
       /\ g2 \in LinkFrames /\ g2.pc = "namespace" /\ g2.stack = f.stack /\ g2.dfs = f.dfs /\ g2.cur = p
       /\ g2.base = f.cur /\ g2.it = Len(f.stack)
  <2>. HIDE DEF f, p
  <2>1. WentBack(f, g1, module, p) /\ Closes(f, g2, module, p)
    BY DEF WentBack, Closes
  <2>2. f \in LinkFrames /\ p \in Nat
    BY <1>1, <1>2
  <2>. HIDE DEF g1, g2
  <2>. QED
    <3>1. g1 \in LinkFrames /\ g1.pc = f.pc /\ g1.stack = f.stack /\ g1.dfs = f.dfs /\ g1.cur = p
      BY <1>10, <2>1, <2>2, FrameBack
    <3>2. /\ g2 \in LinkFrames /\ g2.pc = "namespace" /\ g2.stack = f.stack /\ g2.dfs = f.dfs /\ g2.cur = p
          /\ g2.base = f.cur /\ g2.it = Len(f.stack)
      BY <1>10, <2>1, <2>2, FrameCloses
    <3>. QED
      BY <3>1, <3>2
<1>. HIDE DEF g1, g2
<1>14. Pending(f) = {} /\ Granted(f) = {}
  BY <1>1, SearchingFrame DEF Searching
<1>. HIDE DEF f
<1>15. Lowers(code, f, state, ancestor, m, Arity(code, m) + 1, low)
  <2>1. N + 1 \in a..(N + 1) /\ (N + 1) - 1 = N
    BY <1>2, <1>3
  <2>. QED
    BY <1>9, <1>12, <2>1 DEF Lowers
<1>16. Cardinality(Modules) \in Nat /\ ancestor \in [Modules -> 0..Cardinality(Modules)]
  BY <1>1, StartedFinite DEF TypesOK
<1>. HIDE DEF m, a, N
<1>17. CASE low # f.stack[f.cur].dfs
  <2>1. Changed(frames, g1, frames') /\ Told(ancestor, m, mp, low, ancestor')
    BY <1>6, <1>17
  <2>2. mp = f.stack[f.stack[f.cur].parent].m /\ g1.cur = f.stack[f.cur].parent
    BY <1>13
  <2>. HIDE DEF mp, p
  <2>3. /\ LinkOK(code, g1, state, ancestor', resolved)
        /\ low \in Nat /\ low <= ancestor[m] /\ m \in Modules /\ mp \in Modules
    <3>1. g1 \in LinkFrames /\ g1.pc = "find" /\ g1.stack = f.stack /\ g1.dfs = f.dfs
      BY <1>1, <1>13
    <3>. QED
      <4>1. LinkTypes(code, f, state, ancestor) /\ LinkOK(code, f, state, ancestor, resolved) /\ f.pc = "find"
        BY <1>1
      <4>2. Told(ancestor, m, mp, low, ancestor')
        BY <2>1
      <4>. QED
        <5>1. ~ LowAt(f, low) /\ ParentIs(f, mp) /\ GoesBack(f, g1)
          BY <1>17, <2>2, <3>1 DEF LowAt, ParentIs, GoesBack
        <5>. QED
          BY <1>15, <3>1, <4>1, <4>2, <5>1, LeaveStay
  <2>4. low \in 0..Cardinality(Modules) /\ \A k \in Modules : ancestor[k] \in 0..Cardinality(Modules)
    <3>1. ancestor[m] \in 0..Cardinality(Modules)
      BY <1>16, <2>3
    <3>. QED
      BY <1>16, <2>3, <3>1
  <2>5. ancestor' \in [Modules -> 0..Cardinality(Modules)]
    BY <1>16, <2>1, <2>3, <2>4 DEF Told
  <2>6. NamespaceFirst(g1, hasNs)
    BY <1>1, <1>13 DEF NamespaceFirst
  <2>7. ModuleOK(code, frames', cache, state, ancestor', resolved, hasNs)
    <3>1. Pending(Last(frames)) \subseteq Pending(g1) /\ Granted(Last(frames)) \subseteq Granted(g1)
      BY <1>14 DEF f
    <3>. QED
      BY <1>1, <1>13, <2>1, <2>3, <2>5, <2>6, <3>1, IndexesOnly
  <2>. QED
    BY <1>5, <1>11, <2>7, InvPartsNext, SameStates
<1>18. CASE low = f.stack[f.cur].dfs
  <2>1. Changed(frames, g2, frames') /\ Put(ancestor, m, low, ancestor')
    BY <1>7, <1>18
  <2>. HIDE DEF mp
  <2>2. g2.cur = f.stack[f.cur].parent
    BY <1>13
  <2>. HIDE DEF p
  <2>3. /\ LinkOK(code, g2, state, ancestor', resolved)
        /\ low \in Nat /\ low <= ancestor[m] /\ m \in Modules
    <3>1. LinkTypes(code, f, state, ancestor) /\ LinkOK(code, f, state, ancestor, resolved) /\ f.pc = "find"
      BY <1>1
    <3>2. Put(ancestor, m, low, ancestor')
      BY <2>1
    <3>3. /\ g2 \in LinkFrames /\ g2.pc = "namespace" /\ g2.stack = f.stack /\ g2.dfs = f.dfs
          /\ g2.base = f.cur /\ g2.it = Len(f.stack)
      BY <1>13
    <3>. QED
      <4>1. LowAt(f, low) /\ StartsClosing(f, g2)
        BY <1>18, <2>2, <3>3 DEF LowAt, StartsClosing
      <4>. QED
        BY <1>15, <3>1, <3>2, <3>3, <4>1, LeaveClose
  <2>4. low \in 0..Cardinality(Modules) /\ \A k \in Modules : ancestor[k] \in 0..Cardinality(Modules)
    <3>1. ancestor[m] \in 0..Cardinality(Modules)
      BY <1>16, <2>3
    <3>. QED
      BY <1>16, <2>3, <3>1
  <2>5. ancestor' \in [Modules -> 0..Cardinality(Modules)] /\ ancestor' \in [Modules -> Nat]
    BY <1>8, <1>16, <2>1, <2>3, <2>4 DEF Put
  <2>6. NamespaceFirst(g2, hasNs)
    <3>1. LinkTypes(code, g2, state, ancestor')
      BY <1>8, <1>13, <2>5 DEF LinkTypes
    <3>2. NamespaceKept(code, state, hasNs, {})
      BY <1>1, <1>14
    <3>. QED
      BY <1>13, <2>3, <3>1, <3>2, ComponentFirst
  <2>7. ModuleOK(code, frames', cache, state, ancestor', resolved, hasNs)
    <3>1. Pending(Last(frames)) \subseteq Pending(g2) /\ Granted(Last(frames)) \subseteq Granted(g2)
      BY <1>14 DEF f
    <3>. QED
      BY <1>1, <1>13, <2>1, <2>3, <2>5, <2>6, <3>1, IndexesOnly
  <2>. QED
    BY <1>5, <1>11, <2>7, InvPartsNext, SameStates
<1>. QED
  BY <1>17, <1>18

\* The loops over a component.
Advanced(f, pc, g) ==
  g = IF f.it > f.base THEN [f EXCEPT !.it = @ - 1] ELSE [f EXCEPT !.it = Len(f.stack), !.pc = pc]

\* The frame that goes to the next module of the component.
LEMMA AdvancedFrame ==
  ASSUME NEW f \in LinkFrames, f.it \in f.base..Len(f.stack), f.base # 0,
         NEW pc \in Closing, NEW g, Advanced(f, pc, g)
  PROVE  /\ g \in LinkFrames /\ g.stack = f.stack /\ g.cur = f.cur /\ g.dfs = f.dfs /\ g.base = f.base
         /\ g.it \in f.base..Len(f.stack)
         /\ \/ f.it > f.base /\ g.pc = f.pc /\ g.it = f.it - 1
            \/ f.it = f.base /\ g.pc = pc /\ g.it = Len(f.stack)
<1>1. f.it \in Nat /\ f.base \in Nat /\ Len(f.stack) \in Nat /\ f.base <= f.it /\ f.it <= Len(f.stack)
  BY LinkFields
<1>2. CASE f.it > f.base
  <2> DEFINE x == f.it - 1
  <2>1. x \in Nat /\ x \in f.base..Len(f.stack)
    BY <1>1, <1>2
  <2>2. g = [f EXCEPT !.it = x]
    BY <1>2 DEF Advanced
  <2>. HIDE DEF x
  <2>3. /\ g \in LinkFrames /\ g.pc = f.pc /\ g.stack = f.stack /\ g.cur = f.cur /\ g.dfs = f.dfs
        /\ g.base = f.base /\ g.it = x
    BY <2>1, <2>2, WithIt
  <2>. QED
    BY <1>2, <2>1, <2>3 DEF x
<1>3. CASE ~ (f.it > f.base)
  <2> DEFINE x == Len(f.stack)
  <2>1. x \in Nat /\ x \in f.base..Len(f.stack) /\ f.it = f.base
    BY <1>1, <1>3
  <2>2. g = [f EXCEPT !.it = x, !.pc = pc]
    BY <1>3 DEF Advanced
  <2>. HIDE DEF x
  <2>3. /\ g \in LinkFrames /\ g.pc = pc /\ g.stack = f.stack /\ g.cur = f.cur /\ g.dfs = f.dfs
        /\ g.base = f.base /\ g.it = x
    BY <2>1, <2>2 DEF LinkFrames
  <2>. QED
    BY <2>1, <2>3 DEF x
<1>. QED
  BY <1>2, <1>3

\* Where a loop over a component is.
LEMMA ClosingItem ==
  ASSUME NEW c, NEW f, NEW st, NEW anc, NEW res, LinkTypes(c, f, st, anc), LinkOK(c, f, st, anc, res),
         f.pc \in {"namespace", "connect"}
  PROVE  /\ f.base \in Nat \ {0} /\ f.it \in f.base..Len(f.stack) /\ f.it \in 1..Len(f.stack)
         /\ Len(f.stack) \in Nat /\ f.stack[f.it].m \in Modules /\ st[f.stack[f.it].m] = "linking"
         /\ \A i \in 1..Len(f.stack) : f.stack[i].m \in Modules
<1>1. Len(f.stack) \in Nat /\ \A i \in 1..Len(f.stack) : f.stack[i].m \in Modules
  BY LinkFields, ItemFields DEF LinkTypes
<1>2. f.base \in 1..Len(f.stack) /\ f.it \in f.base..Len(f.stack)
  BY DEF LinkOK, PlaceInv, Closing
<1>3. f.base \in Nat \ {0} /\ f.it \in 1..Len(f.stack)
  BY <1>1, <1>2
<1>. QED
  BY <1>1, <1>2, <1>3 DEF LinkOK, StackInv

\* Everything in a component leads to everything in it.
LEMMA GrantedLeads ==
  ASSUME NEW c, NEW f, NEW st, NEW anc, NEW res, LinkTypes(c, f, st, anc), LinkOK(c, f, st, anc, res),
         f.pc \in {"namespace", "connect"}, NEW k \in Granted(f)
  PROVE  Leads(c, k, f.stack[f.it].m, LinkingIn(st))
<1>1. f.base \in Nat \ {0} /\ f.it \in f.base..Len(f.stack) /\ Len(f.stack) \in Nat
  BY ClosingItem
<1>2. PICK i \in f.base..Len(f.stack) : k = f.stack[i].m
  <2>1. PICK i \in 1..Len(f.stack) : /\ k = f.stack[i].m
                                     /\ \/ f.pc = "namespace" /\ i > f.it
                                        \/ f.pc \in {"connect", "linked"} /\ i >= f.base
    BY DEF Granted
  <2>2. i \in f.base..Len(f.stack)
    BY <1>1, <2>1
  <2>. QED
    BY <2>1, <2>2
<1>3. /\ Leads(c, f.stack[i].m, f.stack[f.base].m, LinkingIn(st))
      /\ Leads(c, f.stack[f.base].m, f.stack[f.it].m, LinkingIn(st))
  BY <1>1 DEF LinkOK, ComponentInv, Closing
<1>. QED
  BY <1>2, <1>3, LeadsOn

\* A module of a component fails.
LEMMA CloseFails ==
  ASSUME ModuleInv, NEW pc \in {"namespace", "connect"}, Running("link", pc),
         LinkError([state EXCEPT ![Top.stack[Top.it].m] = "error"]),
         UNCHANGED <<code, cache, resolved, ancestor, hasNs, ns, owner, threw>>
  PROVE  ModuleInv' /\ Forward(state, state')
<1> DEFINE f == Last(frames)
           m == f.stack[f.it].m
           st == [state EXCEPT ![m] = "error"]
<1>1. /\ f.pc = pc /\ Top = f
      /\ LinkTypes(code, f, state, ancestor) /\ LinkOK(code, f, state, ancestor, resolved)
      /\ LinkTop(frames)
      /\ CacheOK(code, cache, state, resolved)
      /\ TypesOK(code, cache, state, ancestor, resolved, hasNs)
      /\ ClosedUp(code, state, resolved, Pending(f))
      /\ ModuleOK(code, frames, cache, state, ancestor, resolved, hasNs) /\ RestOK(threw, owner, ns)
  BY LinkRuns
<1>2. m \in Modules /\ state[m] = "linking" /\ state \in [Modules -> States]
  <2>1. f.pc \in {"namespace", "connect"} /\ state \in [Modules -> States]
    BY <1>1 DEF LinkTypes
  <2>. HIDE DEF f
  <2>. QED
    BY <1>1, <2>1, ClosingItem
<1>3. LinkError(st)
  BY <1>1
<1>. HIDE DEF m
<1>4. /\ st \in [Modules -> States] /\ st[m] = "error"
      /\ \A k \in Modules : st[k] = state[k] \/ (state[k] = "linking" /\ st[k] = "error")
  BY <1>2 DEF States
<1>. HIDE DEF st
<1>5. /\ state' \in [Modules -> States] /\ frames' = Returned(frames, FALSE)
      /\ \A k \in Modules : state[k] = "linking" => state'[k] \in {"unlinked", "error"}
      /\ \A k \in Modules : st[k] = "error" => state'[k] = "error"
      /\ \A k \in Modules : state[k] # "linking" => state'[k] = state[k]
  BY <1>3, <1>4, LinkErrorStates
<1>. HIDE DEF f
<1>6. \A k \in Granted(f) : Leads(code, k, m, LinkingIn(state))
  BY <1>1, GrantedLeads DEF m
<1>7. \A k \in Granted(f) : \E e \in Modules : state'[e] = "error" /\ Leads(code, k, e, LinkingIn(state))
  BY <1>2, <1>4, <1>5, <1>6
<1>8. Last(frames).pc # "linked" /\ ClosedUp(code, state, resolved, {})
  BY <1>1 DEF Pending, f
<1>9. ModuleOK(code, frames', cache, state', ancestor, resolved, hasNs) /\ Forward(state, state')
  BY <1>1, <1>5, <1>7, <1>8, LinkFails DEF f
<1>. QED
  BY <1>1, <1>9, InvPartsNext

\* The namespace of a module of the component is created.
LEMMA CreateNamespaceObjectStep ==
  ASSUME ModuleInv, CreateNamespaceObject
  PROVE  ModuleInv' /\ Forward(state, state')
<1> DEFINE f == Last(frames)
           m == f.stack[f.it].m
           r == CreateNamespace(code, Failed, hasNs, ns, m)
           g == IF f.it > f.base THEN [f EXCEPT !.it = @ - 1] ELSE [f EXCEPT !.it = Len(f.stack), !.pc = "connect"]
<1>0. Running("link", "namespace")
  BY DEF CreateNamespaceObject
<1>1. /\ f.pc = "namespace" /\ Top = f
      /\ LinkTypes(code, f, state, ancestor) /\ LinkOK(code, f, state, ancestor, resolved)
      /\ LinkTop(frames) /\ f \in LinkFrames
      /\ CacheOK(code, cache, state, resolved)
      /\ TypesOK(code, cache, state, ancestor, resolved, hasNs)
      /\ ClosedUp(code, state, resolved, Pending(f))
      /\ NamespaceKept(code, state, hasNs, Granted(f)) /\ NamespaceFirst(f, hasNs)
      /\ ModuleOK(code, frames, cache, state, ancestor, resolved, hasNs) /\ RestOK(threw, owner, ns)
  BY <1>0, LinkRuns
<1>2. CASE ~ r.ok
  <2>1. LinkError([state EXCEPT ![Top.stack[Top.it].m] = "error"])
        /\ UNCHANGED <<code, cache, resolved, ancestor, hasNs, ns, owner, threw>>
    BY <1>1, <1>2 DEF CreateNamespaceObject
  <2>. QED
    BY <1>0, <2>1, CloseFails
<1>3. CASE r.ok
  <2>1. /\ ns' = [ns EXCEPT ![m] = r.exports] /\ hasNs' = hasNs \cup {m} /\ Advance("connect")
        /\ UNCHANGED <<code, cache, state, resolved, ancestor, owner, threw>>
    BY <1>1, <1>3 DEF CreateNamespaceObject
  <2>2. Changed(frames, g, frames') /\ Advanced(f, "connect", g)
    BY <1>1, <2>1 DEF Advance, GoOn, Changed, Advanced
  <2>. HIDE DEF f, g
  <2>3. /\ f.base \in Nat \ {0} /\ f.it \in f.base..Len(f.stack) /\ f.it \in 1..Len(f.stack) /\ Len(f.stack) \in Nat
        /\ m \in Modules /\ \A i \in 1..Len(f.stack) : f.stack[i].m \in Modules
    BY <1>1, ClosingItem
  <2>4. code \in Programs /\ hasNs \in SUBSET Modules
    BY <1>1 DEF TypesOK
  <2>5. RestOK(threw, owner, ns')
    <3>1. DOMAIN r.exports \subseteq Names
      BY <1>1, <2>3, <2>4, NamespaceType DEF RestOK
    <3>. HIDE DEF r, m
    <3>. QED
      BY <1>1, <2>1, <2>3, <3>1 DEF RestOK
  <2>. HIDE DEF r
  <2>6. /\ g \in LinkFrames /\ g.stack = f.stack /\ g.cur = f.cur /\ g.dfs = f.dfs /\ g.base = f.base
        /\ g.it \in f.base..Len(f.stack)
        /\ \/ f.it > f.base /\ g.pc = f.pc /\ g.it = f.it - 1
           \/ f.it = f.base /\ g.pc = "connect" /\ g.it = Len(f.stack)
    BY <1>1, <2>2, <2>3, AdvancedFrame DEF Closing
  <2>7. LinkOK(code, g, state, ancestor, resolved)
    BY <1>1, <2>6, CloseOK DEF Closing
  <2>8. Granted(f) \subseteq Granted(g) /\ m \in Granted(g)
    <3>1. \A k \in 1..Len(f.stack) : k >= f.it =>
            \/ g.pc = "namespace" /\ k > g.it
            \/ g.pc \in {"connect", "linked"} /\ k >= g.base
      BY <1>1, <2>3, <2>6
    <3>2. \A k \in 1..Len(f.stack) : k >= f.it => f.stack[k].m \in Granted(g)
      BY <2>6, <3>1 DEF Granted
    <3>3. \A x \in Granted(f) : \E k \in 1..Len(f.stack) : x = f.stack[k].m /\ k > f.it
      BY <1>1 DEF Granted
    <3>4. \A k \in 1..Len(f.stack) : k > f.it => k >= f.it
      BY <2>3
    <3>5. f.it >= f.it
      BY <2>3
    <3>6. m \in Granted(g)
      BY <2>3, <3>2, <3>5
    <3>. QED
      BY <3>2, <3>3, <3>4, <3>6, Zenon
  <2>9. NamespaceFirst(g, hasNs')
    <3>. SUFFICES ASSUME g.pc = "namespace", NEW i \in g.base..g.it PROVE g.stack[i].m \notin hasNs'
      BY DEF NamespaceFirst
    <3>1. f.it > f.base /\ g.it = f.it - 1
      BY <2>6
    <3>2. i \in f.base..f.it /\ i # f.it /\ i \in 1..Len(f.stack)
      BY <2>3, <2>6, <3>1
    <3>3. f.stack[i].m \notin hasNs
      BY <1>1, <3>2 DEF NamespaceFirst
    <3>4. f.stack[i].m # m
      BY <1>1, <2>3, <3>2 DEF LinkOK, TreeInv
    <3>. QED
      BY <2>1, <2>6, <3>3, <3>4
  <2>10. TypesOK(code, cache, state, ancestor, resolved, hasNs')
    BY <1>1, <2>1, <2>3 DEF TypesOK
  <2>11. NamespaceKept(code, state, hasNs', Granted(g))
    <3>1. \A k \in hasNs' : k \in hasNs \/ k = m
      BY <2>1
    <3>. QED
      BY <1>1, <2>8, <3>1, Zenon DEF NamespaceKept
  <2>12. ClosedUp(code, state, resolved, Pending(g))
    <3>1. Pending(f) = {} /\ Pending(g) = {}
      BY <1>1, <2>6 DEF Pending
    <3>. QED
      BY <1>1, <3>1
  <2>. HIDE DEF m
  <2>13. ModuleOK(code, frames', cache, state, ancestor, resolved, hasNs')
    <3>1. /\ ModuleOK(code, frames, cache, state, ancestor, resolved, hasNs) /\ LinkTop(frames)
          /\ CacheOK(code, cache, state, resolved) /\ g \in LinkFrames
      BY <1>1, <2>6
    <3>. QED
      BY <2>2, <2>7, <2>9, <2>10, <2>11, <2>12, <3>1, SameStates, LinkGoesOn
  <2>. QED
    BY <2>1, <2>5, <2>13, InvPartsNext, SameStates
<1>. QED
  BY <1>2, <1>3

\* The imports of a module of the component are connected.
LEMMA ConnectStep ==
  ASSUME ModuleInv, Connect
  PROVE  ModuleInv' /\ Forward(state, state')
<1> DEFINE f == Last(frames)
           m == f.stack[f.it].m
           r == ConnectImports(code, Failed, hasNs, ns, m)
           g == IF f.it > f.base THEN [f EXCEPT !.it = @ - 1] ELSE [f EXCEPT !.it = Len(f.stack), !.pc = "linked"]
<1>0. Running("link", "connect")
  BY DEF Connect
<1>1. /\ f.pc = "connect" /\ Top = f
      /\ LinkTypes(code, f, state, ancestor) /\ LinkOK(code, f, state, ancestor, resolved)
      /\ f \in LinkFrames
      /\ ModuleOK(code, frames, cache, state, ancestor, resolved, hasNs) /\ RestOK(threw, owner, ns)
  BY <1>0, LinkRuns
<1>2. CASE ~ r.ok
  <2>1. LinkError([state EXCEPT ![Top.stack[Top.it].m] = "error"])
        /\ UNCHANGED <<code, cache, resolved, ancestor, hasNs, ns, owner, threw>>
    BY <1>1, <1>2 DEF Connect
  <2>. QED
    BY <1>0, <2>1, CloseFails
<1>3. CASE r.ok
  <2>1. /\ Advance("linked")
        /\ UNCHANGED <<code, cache, state, resolved, ancestor, hasNs, ns, owner, threw>>
    BY <1>1, <1>3 DEF Connect
  <2>2. Changed(frames, g, frames') /\ Advanced(f, "linked", g)
    BY <1>1, <2>1 DEF Advance, GoOn, Changed, Advanced
  <2>. HIDE DEF r, m, g
  <2>3. /\ f.base \in Nat \ {0} /\ f.it \in f.base..Len(f.stack)
    <3>. HIDE DEF f
    <3>. QED
      BY <1>1, ClosingItem
  <2>4. /\ g \in LinkFrames /\ g.stack = f.stack /\ g.cur = f.cur /\ g.dfs = f.dfs /\ g.base = f.base
        /\ g.it \in f.base..Len(f.stack) /\ g.pc \in {"connect", "linked"}
    <3>. HIDE DEF f
    <3>. QED
      BY <1>1, <2>2, <2>3, AdvancedFrame DEF Closing
  <2>5. LinkOK(code, g, state, ancestor, resolved)
    <3>. HIDE DEF f
    <3>. QED
      BY <1>1, <2>4, CloseOK DEF Closing
  <2>6. Pending(f) \subseteq Pending(g) /\ Granted(f) \subseteq Granted(g) /\ NamespaceFirst(g, hasNs)
    <3>. HIDE DEF f
    <3>. QED
      BY <1>1, <2>4 DEF Pending, Granted, NamespaceFirst
  <2>7. ModuleOK(code, frames', cache, state, ancestor, resolved, hasNs)
    BY <1>0, <2>2, <2>4, <2>5, <2>6, LinkFrameOnly
  <2>. QED
    BY <1>1, <2>1, <2>7, InvPartsNext, SameStates
<1>. QED
  BY <1>2, <1>3

\* The last module of a component that is announced.
LEMMA LastItem ==
  ASSUME NEW c, NEW f, NEW st, NEW anc, NEW res, LinkTypes(c, f, st, anc), LinkOK(c, f, st, anc, res),
         f.pc = "linked"
  PROVE  LET n == Len(f.stack)
             y == f.stack[n].m
         IN /\ n \in Nat \ {0} /\ f.base \in 1..n /\ f.base \in Nat \ {0} /\ f.stack # <<>>
            /\ y \in Modules /\ st[y] = "linking" /\ y \in Component(f)
            /\ 1..Arity(c, y) \subseteq res[y]
            /\ Granted(f) = Component(f) /\ Pending(f) = Component(f)
<1> DEFINE n == Len(f.stack)
<1>1. n \in Nat /\ \A i \in 1..n : f.stack[i].m \in Modules
  BY LinkFields, ItemFields DEF LinkTypes
<1>2. f.base \in 1..n /\ f.stack # <<>>
  BY DEF LinkOK, PlaceInv, Closing
<1>3. n \in 1..n /\ n \in f.base..n /\ f.base \in Nat \ {0} /\ n \in Nat \ {0}
  BY <1>1, <1>2
<1>4. st[f.stack[n].m] = "linking"
  BY <1>1, <1>3 DEF LinkOK, StackInv
<1>5. 1..Arity(c, f.stack[n].m) \subseteq res[f.stack[n].m]
  BY <1>3 DEF LinkOK, ResolvedInv, DoneNodes
<1>6. f.stack[n].m \in Component(f)
  BY <1>3 DEF Component
<1>7. \A k : k \in f.base..n <=> k \in 1..n /\ k >= f.base
  BY <1>1, <1>3
<1>8. Granted(f) = Component(f)
  BY <1>7 DEF Granted, Component
<1>. QED
  BY <1>1, <1>2, <1>3, <1>4, <1>5, <1>6, <1>8 DEF Pending

\* One module of a component is linked; P1 is what is left of the component.
LEMMA ItemLinked ==
  ASSUME NEW c, NEW f, NEW ca, NEW st, NEW anc, NEW res, NEW hn,
         LinkTypes(c, f, st, anc), LinkOK(c, f, st, anc, res), f.pc = "linked",
         TypesOK(c, ca, st, anc, res, hn), CacheOK(c, ca, st, res),
         ClosedUp(c, st, res, Pending(f)), NamespaceKept(c, st, hn, Granted(f)),
         NEW y, y = f.stack[Len(f.stack)].m, NEW st1, Put(st, y, "linked", st1),
         NEW P1, \A k \in Component(f) : k = y \/ k \in P1
  PROVE  /\ TypesOK(c, ca, st1, anc, res, hn) /\ CacheOK(c, ca, st1, res)
         /\ ClosedUp(c, st1, res, P1) /\ NamespaceKept(c, st1, hn, P1)
         /\ Forward(st, st1) /\ KeepsEvaluated(st, st1)
         /\ \A k \in Modules : st1[k] = "evaluating" <=> st[k] = "evaluating"
<1>1. /\ y \in Modules /\ st[y] = "linking" /\ y \in Component(f)
      /\ 1..Arity(c, y) \subseteq res[y]
      /\ Granted(f) = Component(f) /\ Pending(f) = Component(f)
  BY LastItem
<1>2. /\ Component(f) \in SUBSET Modules /\ Closed(c, Component(f), IncompleteIn(st))
      /\ \A k \in Component(f) : st[k] = "linking"
      /\ \A k \in Component(f) : \A t \in Succ(c, k) : st[t] \in Complete \/ t \in Component(f)
  BY ComponentClosed DEF Closing
<1>3. /\ st1 \in [Modules -> States] /\ st1[y] = "linked"
      /\ \A k \in Modules : k # y => st1[k] = st[k]
  BY <1>1 DEF Put, LinkTypes, States
<1>4. c \in Programs /\ hn \in SUBSET Modules /\ res[y] = 1..Arity(c, y)
  BY <1>1 DEF TypesOK
<1>5. TypesOK(c, ca, st1, anc, res, hn)
  BY <1>3 DEF TypesOK
<1>6. CacheOK(c, ca, st1, res)
  BY <1>1, <1>3 DEF CacheOK
<1>7. Forward(st, st1) /\ KeepsEvaluated(st, st1)
      /\ \A k \in Modules : st1[k] = "evaluating" <=> st[k] = "evaluating"
  BY <1>1, <1>3 DEF Forward, KeepsEvaluated, Complete
<1>8. ClosedUp(c, st1, res, P1)
  <2>1. \A m \in Modules : st[m] \in Complete \cup {"error"} => st1[m] \in Complete \cup {"error"}
    BY <1>1, <1>3 DEF Complete
  <2>2. \A m \in Modules : m \in Component(f) => m \in P1 \/ st1[m] \in Complete \cup {"error"}
    BY <1>3 DEF Complete
  <2>3. \A t \in Succ(c, y) : st1[t] \in Complete \cup {"error"} \/ t \in P1
    <3>1. Succ(c, y) \subseteq Modules
      BY <1>1, <1>4, GoalFacts
    <3>. QED
      BY <1>1, <1>2, <2>1, <2>2, <3>1
  <2>4. \A m \in Modules : st1[m] \in Complete =>
           \/ st[m] \in Complete
           \/ /\ res[m] = 1..Arity(c, m)
              /\ \A t \in Succ(c, m) : st1[t] \in Complete \cup {"error"} \/ t \in P1
    BY <1>3, <1>4, <2>3
  <2>. QED
    BY <1>1, <1>4, <2>1, <2>2, <2>4, ClosedKeeps
<1>9. NamespaceKept(c, st1, hn, P1)
  <2>1. IncompleteIn(st) \ Component(f) \subseteq IncompleteIn(st1)
    BY <1>1, <1>3 DEF IncompleteIn
  <2>2. \A k \in Modules : st[k] = "error" => st1[k] = "error"
    BY <1>1, <1>3
  <2>3. \A k \in Component(f) : st[k] # "error"
    BY <1>2
  <2>4. \A m \in hn : st1[m] \in {"unlinked", "linking"} =>
           m \in hn /\ st[m] \in {"unlinked", "linking"} /\ (m \in Component(f) => m \in P1)
    BY <1>3, <1>4
  <2>. QED
    BY <1>1, <1>2, <2>1, <2>2, <2>3, <2>4, NamespaceKeeps
<1>. QED
  BY <1>5, <1>6, <1>7, <1>8, <1>9

\* How the frame goes on when one module of a component is linked.
TookOff(f, g) == g = [f EXCEPT !.stack = Front(@)]
WentOn(f, g) == g = [f EXCEPT !.stack = Front(@), !.pc = "find"]

\* The frame that takes a module off the stack.
LEMMA FramePops ==
  ASSUME NEW f \in LinkFrames, f.pc = "linked", f.stack # <<>>, NEW g,
         \/ TookOff(f, g) /\ Len(f.stack) > f.base
         \/ WentOn(f, g) /\ Len(f.stack) = f.base /\ f.cur # 0
  PROVE  g \in LinkFrames /\ Popped(f, g)
<1> DEFINE s == Front(f.stack)
<1>1. s \in Seq(StackItems)
  BY LinkFields, FrontFacts
<1>2. TookOff(f, g) => g = [f EXCEPT !.stack = s]
  BY DEF TookOff
<1>3. WentOn(f, g) => g = [f EXCEPT !.stack = s, !.pc = "find"]
  BY DEF WentOn
<1>4. f.pc = "linked" /\ g.stack = s => g.stack = Front(f.stack)
  OBVIOUS
<1>. HIDE DEF s
<1>5. CASE TookOff(f, g) /\ Len(f.stack) > f.base
  BY <1>1, <1>2, <1>4, <1>5 DEF LinkFrames, Popped
<1>6. CASE WentOn(f, g) /\ Len(f.stack) = f.base /\ f.cur # 0
  BY <1>1, <1>3, <1>4, <1>6 DEF LinkFrames, Popped, Searching
<1>. QED
  BY <1>5, <1>6

\* What is left of the component.
LEMMA PoppedRest ==
  ASSUME NEW c, NEW f, NEW st, NEW anc, NEW res, LinkTypes(c, f, st, anc), LinkOK(c, f, st, anc, res),
         f.pc = "linked", NEW g, Popped(f, g), NEW y, y = f.stack[Len(f.stack)].m
  PROVE  /\ \A k \in Component(f) : k = y \/ k \in Pending(g)
         /\ \A k \in Component(f) : k = y \/ k \in Granted(g)
         /\ Pending(g) = Granted(g) /\ \A hn : NamespaceFirst(g, hn)
<1> DEFINE n == Len(f.stack)
<1>1. n \in Nat \ {0} /\ f.base \in 1..n /\ f.base \in Nat \ {0} /\ f.stack # <<>>
  BY LastItem
<1>2. f.stack \in Seq(StackItems)
  BY LinkFields DEF LinkTypes
<1>3. Len(g.stack) = n - 1 /\ \A i \in 1..(n - 1) : g.stack[i] = f.stack[i]
  BY <1>1, <1>2, FrontFacts DEF Popped
<1>4. \A hn : NamespaceFirst(g, hn)
  BY DEF NamespaceFirst, Popped
<1>5. CASE n > f.base
  <2>1. g.pc = "linked" /\ g.base = f.base
    BY <1>1, <1>5 DEF Popped
  <2>2. \A k : k \in f.base..(n - 1) <=> k \in 1..(n - 1) /\ k >= f.base
    BY <1>1
  <2>3. Pending(g) = Component(g) /\ Granted(g) = Component(g)
    BY <1>3, <2>1, <2>2 DEF Granted, Pending, Component
  <2>4. \A i \in f.base..n : i = n \/ i \in f.base..(n - 1)
    BY <1>1
  <2>5. \A i \in f.base..(n - 1) : f.stack[i].m \in Component(g)
    <3>1. \A i \in f.base..(n - 1) : g.stack[i] = f.stack[i]
      BY <1>3, <2>2
    <3>. QED
      BY <1>3, <2>1, <3>1 DEF Component
  <2>6. \A k \in Component(f) : k = y \/ k \in Component(g)
    BY <2>4, <2>5 DEF Component
  <2>. QED
    BY <1>4, <2>3, <2>6
<1>6. CASE ~ (n > f.base)
  <2>1. g.pc = "find" /\ n = f.base
    BY <1>1, <1>6 DEF Popped
  <2>2. Pending(g) = {} /\ Granted(g) = {}
    BY <2>1 DEF Pending, Granted
  <2>3. \A i \in f.base..n : i = n
    BY <1>1, <2>1
  <2>. QED
    BY <1>4, <2>2, <2>3 DEF Component
<1>. QED
  BY <1>5, <1>6

\* A module of the component becomes linked.
LEMMA LinkedStep ==
  ASSUME ModuleInv, Linked
  PROVE  ModuleInv' /\ Forward(state, state')
<1> DEFINE f == Last(frames)
           y == f.stack[Len(f.stack)].m
<1>0. Running("link", "linked")
  BY DEF Linked
<1>1. /\ f.pc = "linked" /\ Top = f
      /\ LinkTypes(code, f, state, ancestor) /\ LinkOK(code, f, state, ancestor, resolved)
      /\ LinkTop(frames) /\ f \in LinkFrames
      /\ CacheOK(code, cache, state, resolved)
      /\ TypesOK(code, cache, state, ancestor, resolved, hasNs)
      /\ ClosedUp(code, state, resolved, Pending(f))
      /\ NamespaceKept(code, state, hasNs, Granted(f))
      /\ ModuleOK(code, frames, cache, state, ancestor, resolved, hasNs) /\ RestOK(threw, owner, ns)
  BY <1>0, LinkRuns
<1>2. /\ Len(f.stack) \in Nat \ {0} /\ f.base \in 1..Len(f.stack) /\ f.stack # <<>>
  <2>. HIDE DEF f
  <2>. QED
    BY <1>1, LastItem
<1>3. Put(state, y, "linked", state')
  <2>1. Last(f.stack).m = y
    <3>. HIDE DEF f
    <3>. QED
      BY <1>2 DEF Last
  <2>. QED
    BY <1>1, <2>1 DEF Linked, Put
<1>4. UNCHANGED <<code, cache, resolved, ancestor, hasNs, ns, owner, threw>>
  BY DEF Linked, link
<1>5. ASSUME NEW g, g \in LinkFrames, Popped(f, g), Changed(frames, g, frames')
      PROVE  ModuleInv' /\ Forward(state, state')
  <2>. HIDE DEF f, y
  <2>1. /\ \A k \in Component(f) : k = y \/ k \in Pending(g)
        /\ Pending(g) = Granted(g) /\ NamespaceFirst(g, hasNs)
    BY <1>1, <1>5, PoppedRest DEF y
  <2>2. /\ TypesOK(code, cache, state', ancestor, resolved, hasNs) /\ CacheOK(code, cache, state', resolved)
        /\ ClosedUp(code, state', resolved, Pending(g)) /\ NamespaceKept(code, state', hasNs, Pending(g))
        /\ Forward(state, state') /\ KeepsEvaluated(state, state')
        /\ \A k \in Modules : state'[k] = "evaluating" <=> state[k] = "evaluating"
    <3> DEFINE P == Pending(g)
    <3>1. /\ LinkTypes(code, f, state, ancestor) /\ LinkOK(code, f, state, ancestor, resolved)
          /\ f.pc = "linked" /\ y = f.stack[Len(f.stack)].m
          /\ TypesOK(code, cache, state, ancestor, resolved, hasNs) /\ CacheOK(code, cache, state, resolved)
          /\ ClosedUp(code, state, resolved, Pending(f)) /\ NamespaceKept(code, state, hasNs, Granted(f))
      BY <1>1 DEF y
    <3>2. \A k \in Component(f) : k = y \/ k \in P
      BY <2>1
    <3>. HIDE DEF P
    <3>3. /\ TypesOK(code, cache, state', ancestor, resolved, hasNs) /\ CacheOK(code, cache, state', resolved)
          /\ ClosedUp(code, state', resolved, P) /\ NamespaceKept(code, state', hasNs, P)
          /\ Forward(state, state') /\ KeepsEvaluated(state, state')
          /\ \A k \in Modules : state'[k] = "evaluating" <=> state[k] = "evaluating"
      BY <1>3, <3>1, <3>2, ItemLinked
    <3>. QED
      BY <3>3 DEF P
  <2>3. LinkOK(code, g, state', ancestor, resolved)
    BY <1>1, <1>3, <1>5, LinkedPop DEF y, Put
  <2>4. cache \subseteq cache /\ NamespaceKept(code, state', hasNs, Granted(g))
    BY <2>1, <2>2
  <2>5. ModuleOK(code, frames', cache, state', ancestor, resolved, hasNs)
    <3>1. ModuleOK(code, frames, cache, state, ancestor, resolved, hasNs) /\ LinkTop(frames)
      BY <1>1
    <3>. QED
      BY <1>5, <2>1, <2>2, <2>3, <2>4, <3>1, LinkGoesOn
  <2>. QED
    BY <1>1, <1>4, <2>2, <2>5, InvPartsNext
<1>6. CASE Len(f.stack) > f.base
  <2> DEFINE g == [f EXCEPT !.stack = Front(@)]
  <2>1. Changed(frames, g, frames') /\ TookOff(f, g)
    BY <1>1, <1>6 DEF Linked, GoOn, Changed, TookOff
  <2>. HIDE DEF g, f, y
  <2>2. g \in LinkFrames /\ Popped(f, g)
    BY <1>1, <1>2, <1>6, <2>1, FramePops
  <2>. QED
    BY <1>5, <2>1, <2>2
<1>7. CASE ~ (Len(f.stack) > f.base) /\ f.cur # 0
  <2> DEFINE g == [f EXCEPT !.stack = Front(@), !.pc = "find"]
  <2>1. Changed(frames, g, frames') /\ WentOn(f, g)
    BY <1>1, <1>7 DEF Linked, GoOn, Changed, WentOn
  <2>. HIDE DEF g, f, y
  <2>2. Len(f.stack) = f.base
    BY <1>2, <1>7
  <2>3. g \in LinkFrames /\ Popped(f, g)
    BY <1>1, <1>2, <1>7, <2>1, <2>2, FramePops
  <2>. QED
    BY <1>5, <2>1, <2>3
<1>8. CASE ~ (Len(f.stack) > f.base) /\ f.cur = 0
  <2>1. frames' = Returned(frames, TRUE)
    BY <1>1, <1>8 DEF Linked, Return, Returned
  <2>. HIDE DEF f
  <2>2. Len(f.stack) = f.base
    BY <1>2, <1>8
  <2>3. Len(f.stack) = 1
    BY <1>1, <1>8, <2>2, LinkedLast
  <2>. HIDE DEF y
  <2>4. \A k \in Component(f) : k = y \/ k \in {}
    <3>1. \A i \in f.base..Len(f.stack) : i = Len(f.stack)
      BY <2>2, <2>3
    <3>. QED
      BY <3>1 DEF Component, y
  <2>5. /\ TypesOK(code, cache, state', ancestor, resolved, hasNs) /\ CacheOK(code, cache, state', resolved)
        /\ ClosedUp(code, state', resolved, {}) /\ NamespaceKept(code, state', hasNs, {})
        /\ Forward(state, state') /\ KeepsEvaluated(state, state')
        /\ \A k \in Modules : state'[k] = "evaluating" <=> state[k] = "evaluating"
    BY <1>1, <1>3, <2>4, ItemLinked DEF y
  <2>6. \A k \in Modules : state'[k] # "linking"
    <3>1. \A k \in Modules : state[k] = "linking" => k = y
      <4>1. \A i \in 1..Len(f.stack) : i = Len(f.stack)
        BY <2>3
      <4>. QED
        BY <1>1, <4>1 DEF LinkOK, StackInv, y
    <3>. QED
      BY <1>1, <1>3, <3>1 DEF Put, LinkTypes
  <2>7. code \in Programs /\ CallsOK(code, frames, cache) /\ EvalsOK(code, frames, state)
    BY <1>1 DEF ModuleOK, TypesOK
  <2>8. /\ CallsOK(code, Returned(frames, TRUE), cache) /\ EvalsOK(code, Returned(frames, TRUE), state')
        /\ ~ LinkTop(Returned(frames, TRUE))
    <3>1. /\ LinkTop(frames) /\ KeepsEvaluated(state, state')
          /\ \A k \in Modules : state'[k] = "evaluating" <=> state[k] = "evaluating"
      BY <1>1, <2>5
    <3>2. \A ok : /\ CallsOK(code, Returned(frames, ok), cache) /\ EvalsOK(code, Returned(frames, ok), state')
                  /\ ~ LinkTop(Returned(frames, ok))
      BY <2>7, <3>1, LinkReturns
    <3>. QED
      BY <3>2, Zenon
  <2>9. ModuleOK(code, frames', cache, state', ancestor, resolved, hasNs)
    BY <2>1, <2>5, <2>6, <2>8, NoLinkLeft
  <2>. QED
    BY <1>1, <1>4, <2>5, <2>9, InvPartsNext
<1>. QED
  BY <1>6, <1>7, <1>8

-----------------------------------------------------------------------------
(* The invariant                                                           *)

\* The invariant holds at the start.
LEMMA InitOK ==
  ASSUME Init
  PROVE  ModuleInv
<1>1. /\ code \in Programs /\ cache = {} /\ threw = {} /\ hasNs = {} /\ frames = <<>>
      /\ state = [m \in Modules |-> "unlinked"] /\ resolved = [m \in Modules |-> {}]
      /\ ancestor = [m \in Modules |-> 0] /\ ns = [m \in Modules |-> NoExports]
      /\ owner = [m \in Modules |-> NoModule]
  BY DEF Init
<1>2. Cardinality(Modules) \in Nat
  BY NamesAssumption, FS_CardinalityType
<1>3. TypesOK(code, cache, state, ancestor, resolved, hasNs)
  BY <1>1, <1>2 DEF TypesOK, States
<1>4. CallsOK(code, frames, cache) /\ EvalsOK(code, frames, state) /\ ~ LinkTop(frames)
  BY <1>1 DEF CallsOK, EvalsOK, LinkTop
<1>5. CacheOK(code, cache, state, resolved) /\ ClosedUp(code, state, resolved, {})
      /\ NamespaceKept(code, state, hasNs, {}) /\ \A m \in Modules : state[m] # "linking"
  BY <1>1 DEF CacheOK, ClosedUp, NamespaceKept, Complete
<1>6. ModuleOK(code, frames, cache, state, ancestor, resolved, hasNs)
  BY <1>3, <1>4, <1>5, NoLinkLeft
<1>7. RestOK(threw, owner, ns)
  BY <1>1 DEF RestOK, NoExports
<1>. QED
  BY <1>6, <1>7, InvParts

\* Every step of the engine and of the program keeps the invariant.
LEMMA NextOK ==
  ASSUME ModuleInv, [Next]_vars
  PROVE  ModuleInv' /\ Forward(state, state')
<1>1. CASE UNCHANGED vars
  <2>1. UNCHANGED <<code, cache, state, resolved, ancestor, hasNs, ns, owner, frames, threw>>
    BY <1>1 DEF vars, link
  <2>. QED
    BY <2>1, InvParts, InvPartsNext, SameStates
<1>2. CASE LinkStep
  BY <1>2, ResolveNodeStep, ResolveNodeFailsStep, ResolveEndStep, VisitStep, LeaveStep,
     CreateNamespaceObjectStep, ConnectStep, LinkedStep DEF LinkStep
<1>3. CASE EngineStep
  BY <1>2, <1>3, ImportLinkStep, ImportEvaluateStep, EvaluateImportStep, RunCodeStep,
     ImportFailedStep, CodeReturnsStep, CodeThrowsStep DEF EngineStep
<1>4. CASE \E m \in Modules : Import(m) \/ Link(m) \/ Evaluate(m)
  BY <1>4, ImportStep, LinkCall, EvaluateCall
<1>. QED
  BY <1>1, <1>3, <1>4 DEF Next

-----------------------------------------------------------------------------
(* What the invariant gives                                                *)

\* A link is the innermost call, if there is one.
LEMMA OneLink ==
  ASSUME ModuleInv
  PROVE  /\ frames \in Seq(Frames) /\ Len(frames) \in Nat
         /\ \A i \in 1..Len(frames) : frames[i].op = "link" => i = Len(frames) /\ LinkTop(frames)
         /\ LinkTop(frames) => /\ Len(frames) \in 1..Len(frames) /\ Last(frames) = frames[Len(frames)]
                               /\ frames[Len(frames)].op = "link"
<1>1. frames \in Seq(Frames) /\ \A i \in 1..(Len(frames) - 1) : frames[i].op # "link"
  BY InvParts DEF ModuleOK, CallsOK, Calls
<1>2. Len(frames) \in Nat
  BY <1>1
<1>3. frames # <<>> => /\ Len(frames) \in Nat \ {0} /\ Len(frames) \in 1..Len(frames)
                       /\ Last(frames) = frames[Len(frames)]
  BY <1>1, LastFrame
<1>4. ASSUME NEW i \in 1..Len(frames), frames[i].op = "link"
      PROVE  i = Len(frames) /\ LinkTop(frames)
  <2>1. i = Len(frames)
    BY <1>1, <1>2, <1>4
  <2>2. frames # <<>>
    BY <1>2, <2>1
  <2>. QED
    BY <1>3, <1>4, <2>1, <2>2 DEF LinkTop
<1>5. LinkTop(frames) => /\ Len(frames) \in 1..Len(frames) /\ Last(frames) = frames[Len(frames)]
                         /\ frames[Len(frames)].op = "link"
  BY <1>3 DEF LinkTop
<1>. QED
  BY <1>1, <1>2, <1>4, <1>5

\* The invariant implies that the states tell the calls,
LEMMA InvStates ==
  ASSUME ModuleInv
  PROVE  StatesMatchCalls
<1> DEFINE links == {i \in 1..Len(frames) : frames[i].op = "link"}
           evals == {i \in 1..Len(frames) : frames[i].op = "evaluate"}
           on(i) == {frames[i].stack[k].m : k \in 1..Len(frames[i].stack)}
           stacks == UNION {on(i) : i \in links}
<1>1. TypeOK
  BY DEF ModuleInv
<1>2. ModuleOK(code, frames, cache, state, ancestor, resolved, hasNs)
  BY InvParts
<1>3. {m \in Modules : state[m] = "linking"} = stacks
  <2>1. CASE LinkTop(frames)
    <3> DEFINE n == Len(frames)
    <3>1. links = {n} /\ Last(frames) = frames[n]
      BY <2>1, OneLink
    <3>2. /\ LinkTypes(code, Last(frames), state, ancestor)
          /\ LinkOK(code, Last(frames), state, ancestor, resolved)
      BY <1>2, <2>1, LinkInProgress
    <3>3. \A k \in 1..Len(frames[n].stack) : frames[n].stack[k].m \in Modules
      BY <3>1, <3>2, LinkFields, ItemFields DEF LinkTypes
    <3>4. {m \in Modules : state[m] = "linking"} = on(n)
      BY <3>1, <3>2, <3>3 DEF LinkOK, StackInv
    <3>. HIDE DEF links, n, on
    <3>5. stacks = on(n)
      BY <3>1
    <3>. QED
      BY <3>4, <3>5
  <2>2. CASE ~ LinkTop(frames)
    <3>1. links = {}
      BY <2>2, OneLink
    <3>2. {m \in Modules : state[m] = "linking"} = {}
      BY <1>2, <2>2 DEF ModuleOK, LinkPart
    <3>. HIDE DEF links
    <3>. QED
      BY <3>1, <3>2
  <2>. QED
    BY <2>1, <2>2
<1>4. /\ \A m \in Modules : state[m] = "evaluating" <=> \E i \in 1..Len(frames) : EvalAt(frames, i, m)
      /\ \A i, k \in 1..Len(frames) : \A m : EvalAt(frames, i, m) /\ EvalAt(frames, k, m) => i = k
  BY <1>2 DEF ModuleOK, EvalsOK
<1>5. \A i \in evals : i \in 1..Len(frames) /\ frames[i].m \in Modules
  <2>1. frames \in Seq(Frames)
    BY OneLink
  <2>. QED
    BY <2>1, FrameKinds
<1>6. {m \in Modules : state[m] = "evaluating"} = {frames[i].m : i \in evals}
  BY <1>4, <1>5 DEF EvalAt
<1>7. \A i, j \in evals : frames[i].m = frames[j].m => i = j
  BY <1>4 DEF EvalAt
<1>. QED
  BY <1>1, <1>3, <1>6, <1>7 DEF StatesMatchCalls

\* Pending imports are the ones of the component that is being announced.
LEMMA PendingComponent ==
  ASSUME NEW t \in PendingIn(frames)
  PROVE  Running("link", "linked") /\ t \in Component(Top)
BY DEF PendingIn, Pending, LinkTop, Running, Top

\* that the imports of linked modules are linked,
LEMMA InvClosed ==
  ASSUME ModuleInv
  PROVE  LinkedClosed
<1>1. code \in Programs /\ ClosedUp(code, state, resolved, PendingIn(frames))
  BY InvParts DEF ModuleOK, TypesOK
<1>. SUFFICES ASSUME NEW m \in Modules, state[m] \in Complete
              PROVE  /\ resolved[m] = 1..Len(code[m].imports)
                     /\ \A t \in ToSet(Targets(m)) :
                          \/ state[t] \in Complete \cup {"error"}
                          \/ Running("link", "linked") /\ t \in Component(Top)
  BY DEF LinkedClosed
<1>2. resolved[m] = 1..Arity(code, m)
      /\ \A t \in Succ(code, m) : state[t] \in Complete \cup {"error"} \/ t \in PendingIn(frames)
  BY <1>1 DEF ClosedUp
<1>3. ToSet(Targets(m)) = Succ(code, m)
  BY <1>1, TargetFacts
<1>. QED
  BY <1>2, <1>3, PendingComponent DEF Arity

\* that a namespace is created once,
LEMMA InvNamespace ==
  ASSUME ModuleInv
  PROVE  NamespaceOnce
<1>. SUFFICES ASSUME Running("link", "namespace")
              PROVE  \A i \in Top.base..Top.it : Top.stack[i].m \notin hasNs
  BY DEF NamespaceOnce
<1>1. Last(frames).pc = "namespace" /\ Top = Last(frames) /\ NamespaceFirst(Last(frames), hasNs)
  BY LinkRuns
<1>. QED
  BY <1>1 DEF NamespaceFirst

\* that a closed component is exact,
LEMMA InvComponent ==
  ASSUME ModuleInv
  PROVE  ComponentExact
<1>. SUFFICES ASSUME NEW pc \in {"namespace", "connect"}, Running("link", pc)
              PROVE  LET L == LinkingIn(state)
                         root == Top.stack[Top.base].m
                     IN Component(Top) = {m \in L : m \in Reach({root}, L) /\ root \in Reach({m}, L)}
  BY DEF ComponentExact, LinkingIn
<1> DEFINE f == Last(frames)
           L == LinkingIn(state)
           root == f.stack[f.base].m
<1>1. /\ f.pc = pc /\ Top = f
      /\ LinkTypes(code, f, state, ancestor) /\ LinkOK(code, f, state, ancestor, resolved)
  BY LinkRuns
<1>. SUFFICES Component(f) = {m \in L : m \in Reach({root}, L) /\ root \in Reach({m}, L)}
  BY <1>1
<1>. HIDE DEF f
<1>2. f.pc \in {"namespace", "connect"} /\ f.pc \in Closing /\ f.pc # "linked"
  BY <1>1 DEF Closing
<1>3. /\ f.base \in Nat \ {0} /\ f.it \in f.base..Len(f.stack) /\ Len(f.stack) \in Nat
      /\ \A i \in 1..Len(f.stack) : f.stack[i].m \in Modules
  BY <1>1, <1>2, ClosingItem
<1>4. f.base \in f.base..Len(f.stack) /\ f.base \in 1..Len(f.stack)
  BY <1>3
<1>5. code \in Programs /\ L \in SUBSET Modules /\ root \in Modules /\ root \in Component(f)
  BY <1>1, <1>3, <1>4 DEF LinkTypes, LinkingIn, Component
<1>6. /\ Component(f) \in SUBSET Modules /\ Closed(code, Component(f), IncompleteIn(state))
      /\ \A k \in Component(f) : state[k] = "linking"
  BY <1>1, <1>2, ComponentClosed
<1>7. \A m \in Modules : m \in Reach({root}, L) <=> Leads(code, root, m, L)
  BY <1>5, LeadsReach
<1>8. \A m \in Modules : root \in Reach({m}, L) <=> Leads(code, m, root, L)
  BY <1>5, LeadsReach
<1>9. \A i \in f.base..Len(f.stack) :
        /\ Leads(code, f.stack[f.base].m, f.stack[i].m, LinkingIn(state))
        /\ Leads(code, f.stack[i].m, f.stack[f.base].m, LinkingIn(state))
  BY <1>1, <1>2 DEF LinkOK, ComponentInv
<1>10. \A m \in Component(f) : m \in L /\ Leads(code, root, m, L) /\ Leads(code, m, root, L)
  BY <1>6, <1>9 DEF Component, LinkingIn
<1>11. ASSUME NEW m \in L, Leads(code, root, m, L) PROVE m \in Component(f)
  <2>1. L \subseteq IncompleteIn(state)
    BY DEF LinkingIn, IncompleteIn, Complete
  <2>2. Closed(code, Component(f), L)
    BY <1>6, <2>1 DEF Closed
  <2>. QED
    BY <1>5, <1>6, <1>11, <2>2 DEF Leads
<1>. HIDE DEF L, root
<1>. QED
  BY <1>5, <1>6, <1>7, <1>8, <1>10, <1>11

\* and that imports are evaluated first.
LEMMA InvOrder ==
  ASSUME ModuleInv
  PROVE  EvaluationOrder
<1>. SUFFICES ASSUME Running("evaluate", "code"), NEW t \in ToSet(Targets(Top.m))
              PROVE  \/ state[t] = "evaluated"
                     \/ \E i \in 1..Len(frames) : frames[i].op = "evaluate" /\ frames[i].m = t
  BY DEF EvaluationOrder
<1> DEFINE n == Len(frames)
           m == frames[n].m
<1>1. /\ n \in 1..n /\ Top = frames[n] /\ frames[n].op = "evaluate" /\ frames[n].pc = "code"
      /\ FramePassed(code, frames, state, n) /\ frames[n] \in Frames /\ code \in Programs
  BY RunningFrame
<1>2. m \in Modules
  BY <1>1, FrameKinds
<1>3. t \in Succ(code, m)
  BY <1>1, <1>2, TargetFacts
<1>4. PICK x \in 1..Arity(code, m) : t = Goals(code, m)[x]
  BY <1>3 DEF Succ
<1>5. state[t] = "evaluated" \/ \E k \in 1..n : EvalAt(frames, k, t)
  BY <1>1, <1>4 DEF FramePassed
<1>. QED
  BY <1>5 DEF EvalAt

-----------------------------------------------------------------------------
(* Sets that grow until they are closed                                    *)

\* f takes the steps h from S on.
Repeats(U, h, S, N, f) ==
  f \in [0..N -> U] /\ f[0] = S /\ \A i \in 1..N : f[i] = h[i][f[i - 1]]

\* There is such a function.
LEMMA RepeatExists ==
  ASSUME NEW U, NEW S \in U, NEW N \in Nat, NEW h \in [1..N -> [U -> U]]
  PROVE  \E f : Repeats(U, h, S, N, f)
<1> DEFINE T == {n \in 0..N : ~ \E f : Repeats(U, h, S, n, f)}
<1>. SUFFICES ASSUME T # {} PROVE FALSE
  <2>1. N \in 0..N
    OBVIOUS
  <2>. QED
    BY <2>1
<1>0. T \in SUBSET Nat
  OBVIOUS
<1>1. PICK n \in T : \A k \in T : n <= k
  BY <1>0, LeastNumber
<1>2. CASE n = 0
  <2> DEFINE g == [i \in 0..0 |-> S]
  <2>1. Repeats(U, h, S, 0, g)
    BY DEF Repeats
  <2>. HIDE DEF g
  <2>. QED
    BY <1>1, <1>2, <2>1
<1>3. CASE n # 0
  <2>1. n \in 1..N /\ n - 1 \in 0..N /\ n - 1 \notin T /\ n - 1 \in Nat
    BY <1>0, <1>1, <1>3
  <2>2. PICK f : Repeats(U, h, S, n - 1, f)
    BY <2>1
  <2>3. f \in [0..(n - 1) -> U] /\ f[0] = S /\ \A i \in 1..(n - 1) : f[i] = h[i][f[i - 1]]
    BY <2>2 DEF Repeats
  <2> DEFINE g == [i \in 0..n |-> IF i = n THEN h[n][f[n - 1]] ELSE f[i]]
  <2>4. f[n - 1] \in U /\ h[n] \in [U -> U] /\ h[n][f[n - 1]] \in U
    BY <2>1, <2>3
  <2>5. g \in [0..n -> U] /\ g[0] = S
    BY <1>3, <2>1, <2>3, <2>4
  <2>6. ASSUME NEW i \in 1..n PROVE g[i] = h[i][g[i - 1]]
    <3>1. i \in 0..n /\ i - 1 \in 0..n /\ i - 1 # n
      BY <2>1
    <3>2. g[i - 1] = f[i - 1]
      BY <3>1
    <3>3. CASE i = n
      BY <3>1, <3>2, <3>3
    <3>4. CASE i # n
      <4>1. i \in 1..(n - 1) /\ g[i] = f[i]
        BY <2>1, <3>1, <3>4
      <4>. QED
        BY <2>3, <3>2, <4>1
    <3>. QED
      BY <3>3, <3>4
  <2>7. Repeats(U, h, S, n, g)
    BY <2>5, <2>6 DEF Repeats
  <2>. HIDE DEF g
  <2>. QED
    BY <1>1, <2>7
<1>. QED
  BY <1>2, <1>3

\* S and what its members lead to along R.
Spread(R, S) == S \cup UNION {R[x] : x \in S}
Spreads(R, S, N, f) == f[0] = S /\ \A i \in 1..N : f[i] = Spread(R, f[i - 1])

\* T is the least set around S that is closed along R.
LeastShut(U, R, S, T) ==
  /\ S \subseteq T /\ T \subseteq U
  /\ \A x \in T : R[x] \subseteq T
  /\ \A C \in SUBSET U : S \subseteq C /\ (\A x \in C : R[x] \subseteq C) => T \subseteq C

\* A set that grows along R, where only the members of V lead further, is
\* closed after as many steps as V has members, and is the least closed one.
LEMMA SpreadEnds ==
  ASSUME NEW U, NEW V \in SUBSET U, IsFiniteSet(V), NEW R \in [U -> SUBSET U],
         \A x \in U \ V : R[x] = {}, NEW S \in SUBSET U,
         NEW N, N = Cardinality(V), NEW f, Spreads(R, S, N, f)
  PROVE  LeastShut(U, R, S, f[N])
<1> DEFINE Shut(C) == \A x \in C : R[x] \subseteq C
<1>1. N \in Nat
  BY FS_CardinalityType
<1>2. f[0] = S /\ \A i \in 1..N : f[i] = f[i - 1] \cup UNION {R[x] : x \in f[i - 1]}
  BY DEF Spreads, Spread
<1>3. \A i \in 1..N : i - 1 \in 0..N /\ i \in 0..N
  BY <1>1
<1>4. \A i \in 0..N : f[i] \in SUBSET U /\ S \subseteq f[i]
  <2> DEFINE T == {i \in 0..N : ~ (f[i] \in SUBSET U /\ S \subseteq f[i])}
  <2>. SUFFICES ASSUME T # {} PROVE FALSE
    OBVIOUS
  <2>1. T \in SUBSET Nat
    OBVIOUS
  <2>2. PICK i \in T : \A k \in T : i <= k
    BY <2>1, LeastNumber
  <2>3. i # 0
    BY <1>2, <2>2
  <2>4. i \in 1..N /\ i - 1 \in 0..N /\ i - 1 \notin T
    BY <1>1, <2>2, <2>3
  <2>5. f[i - 1] \in SUBSET U /\ S \subseteq f[i - 1]
    BY <2>4
  <2>6. f[i] = f[i - 1] \cup UNION {R[x] : x \in f[i - 1]}
    BY <1>2, <2>4
  <2>7. UNION {R[x] : x \in f[i - 1]} \subseteq U
    BY <2>5
  <2>8. f[i] \in SUBSET U /\ S \subseteq f[i]
    BY <2>5, <2>6, <2>7
  <2>. QED
    BY <2>2, <2>8
<1>5. ASSUME NEW C \in SUBSET U, S \subseteq C, Shut(C)
      PROVE  f[N] \subseteq C
  <2> DEFINE T == {i \in 0..N : ~ (f[i] \subseteq C)}
  <2>. SUFFICES ASSUME T # {} PROVE FALSE
    BY <1>1
  <2>1. T \in SUBSET Nat
    OBVIOUS
  <2>2. PICK i \in T : \A k \in T : i <= k
    BY <2>1, LeastNumber
  <2>3. i # 0
    BY <1>2, <1>5, <2>2
  <2>4. i \in 1..N /\ i - 1 \in 0..N /\ i - 1 \notin T
    BY <1>1, <2>2, <2>3
  <2>5. f[i - 1] \subseteq C /\ f[i] = f[i - 1] \cup UNION {R[x] : x \in f[i - 1]}
    BY <1>2, <2>4
  <2>6. f[i] \subseteq C
    BY <1>5, <2>5
  <2>. QED
    BY <2>2, <2>6
<1>6. ASSUME NEW i \in 0..N, Shut(f[i]) PROVE Shut(f[N])
  <2> DEFINE T == {k \in i..N : f[k] # f[i]}
  <2>1. CASE T = {}
    <3>1. N \in i..N
      BY <1>1
    <3>2. f[N] = f[i]
      BY <2>1, <3>1
    <3>. QED
      BY <1>6, <3>2
  <2>2. CASE T # {}
    <3>1. T \in SUBSET Nat
      OBVIOUS
    <3>2. PICK k \in T : \A l \in T : k <= l
      BY <2>2, <3>1, LeastNumber
    <3>3. k \in 1..N /\ k - 1 \in i..N /\ k - 1 \notin T
      BY <1>1, <3>2
    <3>4. f[k - 1] = f[i] /\ f[k] = f[k - 1] \cup UNION {R[x] : x \in f[k - 1]}
      BY <1>2, <3>3
    <3>5. f[k] = f[i]
      BY <1>6, <3>4
    <3>. QED
      BY <3>2, <3>5
  <2>. QED
    BY <2>1, <2>2
<1>7. Shut(f[N])
  <2>. SUFFICES ASSUME ~ Shut(f[N]) PROVE FALSE
    OBVIOUS
  <2> DEFINE g(i) == f[i] \cap V
  <2>1. \A i \in 0..N : ~ Shut(f[i])
    BY <1>6
  <2>2. \A i \in 0..N : IsFiniteSet(g(i)) /\ Cardinality(g(i)) \in Nat /\ Cardinality(g(i)) <= N
    <3>1. \A i \in 0..N : g(i) \in SUBSET V
      OBVIOUS
    <3>2. \A W \in SUBSET V : IsFiniteSet(W) /\ Cardinality(W) \in Nat /\ Cardinality(W) <= N
      BY FS_Subset, FS_CardinalityType
    <3>. HIDE DEF g
    <3>. QED
      BY <3>1, <3>2
  <2>3. ASSUME NEW i \in 1..N PROVE g(i - 1) \subseteq g(i) /\ g(i - 1) # g(i)
    <3>1. /\ f[i] = f[i - 1] \cup UNION {R[x] : x \in f[i - 1]}
          /\ f[i - 1] \in SUBSET U /\ f[i] \in SUBSET U
      BY <1>2, <1>3, <1>4
    <3>2. g(i - 1) \subseteq g(i)
      BY <3>1
    <3>3. ASSUME g(i - 1) = g(i) PROVE Shut(f[i])
      <4>. SUFFICES ASSUME NEW x \in f[i] PROVE R[x] \subseteq f[i]
        OBVIOUS
      <4>1. CASE x \in V
        <5>1. x \in f[i - 1]
          BY <3>3, <4>1
        <5>. QED
          BY <3>1, <5>1
      <4>2. CASE x \notin V
        BY <3>1, <4>2
      <4>. QED
        BY <4>1, <4>2
    <3>. QED
      BY <1>3, <2>1, <3>2, <3>3
  <2>4. \A i \in 0..N : Cardinality(g(i)) >= i + 1
    <3> DEFINE T == {i \in 0..N : ~ (Cardinality(g(i)) >= i + 1)}
    <3>. SUFFICES ASSUME T # {} PROVE FALSE
      OBVIOUS
    <3>1. T \in SUBSET Nat
      OBVIOUS
    <3>2. PICK i \in T : \A k \in T : i <= k
      BY <3>1, LeastNumber
    <3>3. i # 0
      <4>1. 0 \in 0..N
        BY <1>1
      <4>2. g(0) # {}
        <5>1. PICK x \in f[0] : ~ (R[x] \subseteq f[0])
          BY <2>1, <4>1
        <5>2. x \in U
          BY <1>4, <4>1
        <5>3. x \in V
          BY <5>1, <5>2
        <5>. QED
          BY <5>1, <5>3
      <4>. HIDE DEF g
      <4>3. Cardinality(g(0)) # 0
        BY <2>2, <4>1, <4>2, FS_EmptySet
      <4>4. Cardinality(g(0)) >= 0 + 1
        BY <2>2, <4>1, <4>3
      <4>. QED
        BY <3>2, <4>4
    <3>4. i \in 1..N /\ i - 1 \in 0..N /\ i - 1 \notin T /\ i \in 0..N
      BY <1>1, <3>2, <3>3
    <3>5. Cardinality(g(i - 1)) >= i
      BY <3>4
    <3>6. g(i - 1) \subseteq g(i) /\ g(i - 1) # g(i)
      BY <2>3, <3>4
    <3>. HIDE DEF g
    <3>7. Cardinality(g(i - 1)) <= Cardinality(g(i)) /\ Cardinality(g(i - 1)) # Cardinality(g(i))
      BY <2>2, <3>4, <3>6, FS_Subset
    <3>8. Cardinality(g(i)) \in Nat /\ Cardinality(g(i - 1)) \in Nat
      BY <2>2, <3>4
    <3>9. Cardinality(g(i)) >= i + 1
      BY <3>4, <3>5, <3>7, <3>8
    <3>. QED
      BY <3>2, <3>9
  <2>5. N \in 0..N
    BY <1>1
  <2>. HIDE DEF g
  <2>. QED
    BY <1>1, <2>2, <2>4, <2>5
<1>8. N \in 0..N
  BY <1>1
<1>. QED
  BY <1>4, <1>5, <1>7, <1>8 DEF LeastShut

-----------------------------------------------------------------------------
(* What an export means                                                    *)

\* What the code of a module consists of.
LEMMA BodyFacts ==
  ASSUME NEW c \in Programs, NEW m \in Modules
  PROVE  /\ c[m].local \in SUBSET Names
         /\ c[m].indirect \in SUBSET [name : Names, to : Modules, as : Names \cup {Star}]
         /\ c[m].star \in Seq(Modules) /\ ToSet(c[m].star) \subseteq Modules
         /\ c[m].imports \in Seq([to : Modules, names : SUBSET (Names \cup {Star})])
         /\ \A e, f \in c[m].indirect : e.name = f.name => e = f
         /\ \A e \in c[m].indirect : e.to \in Succ(c, m)
         /\ ToSet(c[m].star) \subseteq Succ(c, m)
<1>1. c \in [Modules -> Bodies]
  BY ProgramsAssumption
<1>2. c[m] \in Bodies
  BY <1>1
<1>3. /\ c[m].local \in SUBSET Names
      /\ c[m].indirect \in SUBSET [name : Names, to : Modules, as : Names \cup {Star}]
      /\ c[m].star \in Seq(Modules)
      /\ c[m].imports \in Seq([to : Modules, names : SUBSET (Names \cup {Star})])
  BY <1>2 DEF Bodies
<1>4. \A e, f \in c[m].indirect : e.name = f.name => e = f
  BY ProgramsAssumption
<1>5. ToSet([i \in DOMAIN c[m].imports |-> c[m].imports[i].to]) = Succ(c, m)
  <2>1. DOMAIN c[m].imports = 1..Arity(c, m)
    <3>. HIDE DEF Bodies
    <3>. QED
      BY <1>3 DEF Arity
  <2>. QED
    BY <2>1 DEF ToSet, Succ, Goals
<1>6. {e.to : e \in c[m].indirect} \cup ToSet(c[m].star)
        \subseteq ToSet([i \in DOMAIN c[m].imports |-> c[m].imports[i].to])
  BY ProgramsAssumption
<1>7. ToSet(c[m].star) \subseteq Modules
  BY GoalFacts
<1>. QED
  BY <1>3, <1>4, <1>5, <1>6, <1>7

\* A reference leads to references, a binding and one to "*" to none.
LEMMA LeadsToFacts ==
  ASSUME NEW c \in Programs, NEW p \in Refs
  PROVE  /\ LeadsTo(c, p) \in SUBSET Refs
         /\ Bound(c, p) => LeadsTo(c, p) = {}
         /\ \A q \in LeadsTo(c, p) : q[1] \in Succ(c, p[1])
         /\ p[1] \in Modules /\ p[2] \in Names \cup {Star} /\ p = <<p[1], p[2]>>
<1>1. p[1] \in Modules /\ p[2] \in Names \cup {Star} /\ p = <<p[1], p[2]>>
  BY DEF Refs
<1> DEFINE body == c[p[1]]
           exports == {e \in body.indirect : e.name = p[2]}
<1>2. /\ body.indirect \in SUBSET [name : Names, to : Modules, as : Names \cup {Star}]
      /\ \A e \in body.indirect : e.to \in Succ(c, p[1])
      /\ ToSet(body.star) \subseteq Modules /\ ToSet(body.star) \subseteq Succ(c, p[1])
  BY <1>1, BodyFacts
<1>3. LeadsTo(c, p) = IF Bound(c, p) THEN {}
                      ELSE IF exports # {} THEN {<<e.to, e.as>> : e \in exports}
                      ELSE IF p[2] = Default THEN {}
                      ELSE {<<t, p[2]>> : t \in ToSet(body.star)}
  BY DEF LeadsTo, Bound
<1>4. \A e \in exports : <<e.to, e.as>> \in Refs /\ e.to \in Succ(c, p[1])
  <2>1. \A e \in exports : e.to \in Modules /\ e.as \in Names \cup {Star}
    BY <1>2
  <2>. QED
    BY <1>2, <2>1 DEF Refs
<1>5. \A t \in ToSet(body.star) : <<t, p[2]>> \in Refs /\ t \in Succ(c, p[1])
  BY <1>1, <1>2 DEF Refs
<1>. HIDE DEF body, exports
<1>6. ASSUME NEW q \in LeadsTo(c, p) PROVE q \in Refs /\ q[1] \in Succ(c, p[1])
  <2>1. \/ \E e \in exports : q = <<e.to, e.as>>
        \/ \E t \in ToSet(body.star) : q = <<t, p[2]>>
    BY <1>3
  <2>. QED
    BY <1>4, <1>5, <2>1
<1>. QED
  BY <1>1, <1>3, <1>6

\* Bindings is the end of a search for references.
LEMMA BindingsSearch ==
  ASSUME NEW c \in Programs, NEW p \in Refs
  PROVE  \E T \in SUBSET Refs :
           /\ p \in T /\ \A q \in T : LeadsTo(c, q) \subseteq T
           /\ \A C \in SUBSET Refs : p \in C /\ (\A q \in C : LeadsTo(c, q) \subseteq C) => T \subseteq C
           /\ Meaning(c, p) = {q \in T : Bound(c, q)}
<1> DEFINE V == Modules \X Names
           N == Cardinality(Modules) * Cardinality(Names)
           step(R) == R \cup UNION {LeadsTo(c, q) : q \in R}
           E(f) == f = [i \in 0..N |-> IF i = 0 THEN {p} ELSE step(f[i - 1])]
           R == [q \in Refs |-> LeadsTo(c, q)]
<1>1. IsFiniteSet(V) /\ N = Cardinality(V) /\ N \in Nat
  BY NamesAssumption, FS_Product, FS_CardinalityType
<1>2. V \in SUBSET Refs
  BY DEF Refs
<1>3. R \in [Refs -> SUBSET Refs]
  BY LeadsToFacts
<1>4. \A q \in Refs \ V : R[q] = {}
  <2>. SUFFICES ASSUME NEW q \in Refs, q \notin V PROVE R[q] = {}
    OBVIOUS
  <2>1. q[2] = Star
    BY DEF Refs
  <2>. QED
    BY <2>1, LeadsToFacts DEF Bound
<1>5. \A C \in SUBSET Refs : step(C) = Spread(R, C) /\ step(C) \in SUBSET Refs
  <2>. SUFFICES ASSUME NEW C \in SUBSET Refs
                PROVE  step(C) = Spread(R, C) /\ step(C) \in SUBSET Refs
    OBVIOUS
  <2>1. \A q \in C : R[q] = LeadsTo(c, q) /\ R[q] \in SUBSET Refs
    BY <1>3
  <2>. QED
    BY <2>1 DEF Spread
<1>6. \A q \in Refs : R[q] = LeadsTo(c, q)
  OBVIOUS
<1>7. Meaning(c, p) = {q \in (CHOOSE f : E(f))[N] : Bound(c, q)}
  <2>1. p = <<p[1], p[2]>>
    BY LeadsToFacts
  <2>. QED
    BY <2>1 DEF Meaning, Bindings, Bound
<1>. HIDE DEF N, step, V, R
<1>8. \E f : E(f)
  <2> DEFINE W == SUBSET Refs
             z == {p}
             h == [i \in 1..N |-> [C \in W |-> step(C)]]
  <2>1. z \in W /\ N \in Nat /\ h \in [1..N -> [W -> W]]
    BY <1>1, <1>5
  <2>2. \E f : Repeats(W, h, z, N, f)
    <3>. HIDE DEF W, z, h
    <3>. QED
      BY <2>1, RepeatExists
  <2>3. PICK f \in [0..N -> SUBSET Refs] : f[0] = {p} /\ \A i \in 1..N : f[i] = h[i][f[i - 1]]
    BY <2>2 DEF Repeats
  <2>4. ASSUME NEW i \in 0..N PROVE f[i] = IF i = 0 THEN {p} ELSE step(f[i - 1])
    <3>1. CASE i = 0
      BY <2>3, <3>1
    <3>2. CASE i # 0
      <4>1. i \in 1..N /\ i - 1 \in 0..N
        BY <1>1, <3>2
      <4>2. f[i] = h[i][f[i - 1]] /\ f[i - 1] \in SUBSET Refs
        BY <2>3, <4>1
      <4>. QED
        BY <3>2, <4>2
    <3>. QED
      BY <3>1, <3>2
  <2>5. E(f)
    BY <2>3, <2>4
  <2>. QED
    BY <2>5
<1>9. PICK f : E(f) /\ Meaning(c, p) = {q \in f[N] : Bound(c, q)}
  <2>. HIDE DEF E
  <2>. QED
    BY <1>7, <1>8
<1>10. f[0] = {p} /\ \A i \in 1..N : f[i] = step(f[i - 1])
  <2>1. \A i \in 0..N : f[i] = IF i = 0 THEN {p} ELSE step(f[i - 1])
    BY <1>9
  <2>2. \A i \in 1..N : i \in 0..N /\ i # 0
    BY <1>1
  <2>3. 0 \in 0..N
    BY <1>1
  <2>. QED
    BY <2>1, <2>2, <2>3
<1>11. \A i \in 0..N : f[i] \in SUBSET Refs
  <2> DEFINE T == {i \in 0..N : f[i] \notin SUBSET Refs}
  <2>. SUFFICES ASSUME T # {} PROVE FALSE
    OBVIOUS
  <2>1. T \in SUBSET Nat
    OBVIOUS
  <2>2. PICK i \in T : \A k \in T : i <= k
    BY <2>1, LeastNumber
  <2>3. i # 0
    BY <1>10, <2>2
  <2>4. i \in 1..N /\ i - 1 \in 0..N /\ i - 1 \notin T
    BY <1>1, <2>2, <2>3
  <2>5. f[i] = step(f[i - 1]) /\ f[i - 1] \in SUBSET Refs
    BY <1>10, <2>4
  <2>. QED
    BY <1>5, <2>2, <2>5
<1>12. \A i \in 1..N : f[i] = Spread(R, f[i - 1])
  <2>1. \A i \in 1..N : i - 1 \in 0..N
    BY <1>1
  <2>. QED
    BY <1>5, <1>10, <1>11, <2>1
<1>13. LeastShut(Refs, R, {p}, f[N])
  <2> DEFINE z == {p}
  <2>1. z \in SUBSET Refs /\ Spreads(R, z, N, f)
    BY <1>10, <1>12 DEF Spreads
  <2>2. IsFiniteSet(V) /\ N = Cardinality(V)
    BY <1>1
  <2>3. LeastShut(Refs, R, z, f[N])
    <3>. HIDE DEF z, E
    <3>. QED
      BY <1>2, <1>3, <1>4, <2>1, <2>2, SpreadEnds
  <2>. QED
    BY <2>3
<1>14. \A q \in f[N] : LeadsTo(c, q) \subseteq f[N]
  BY <1>6, <1>13 DEF LeastShut
<1>15. \A C \in SUBSET Refs : p \in C /\ (\A q \in C : LeadsTo(c, q) \subseteq C) => f[N] \subseteq C
  <2>. SUFFICES ASSUME NEW C \in SUBSET Refs, p \in C, \A q \in C : LeadsTo(c, q) \subseteq C
                PROVE  f[N] \subseteq C
    OBVIOUS
  <2>1. \A q \in C : R[q] \subseteq C
    BY <1>6
  <2>. QED
    BY <1>13, <2>1 DEF LeastShut
<1>. QED
  BY <1>9, <1>13, <1>14, <1>15 DEF LeastShut

\* A binding stands for itself, another reference for what it leads to.
LEMMA MeaningFacts ==
  ASSUME NEW c \in Programs, NEW p \in Refs
  PROVE  /\ Meaning(c, p) \in SUBSET Refs
         /\ Bound(c, p) => Meaning(c, p) = {p}
         /\ \A q \in LeadsTo(c, p) : Meaning(c, q) \subseteq Meaning(c, p)
<1>1. PICK T \in SUBSET Refs :
           /\ p \in T /\ \A q \in T : LeadsTo(c, q) \subseteq T
           /\ \A C \in SUBSET Refs : p \in C /\ (\A q \in C : LeadsTo(c, q) \subseteq C) => T \subseteq C
           /\ Meaning(c, p) = {q \in T : Bound(c, q)}
  BY BindingsSearch
<1>2. ASSUME Bound(c, p) PROVE Meaning(c, p) = {p}
  <2>1. LeadsTo(c, p) = {}
    BY <1>2, LeadsToFacts
  <2>2. T \subseteq {p}
    BY <1>1, <2>1
  <2>. QED
    BY <1>1, <1>2, <2>2
<1>3. ASSUME NEW q \in LeadsTo(c, p) PROVE Meaning(c, q) \subseteq Meaning(c, p)
  <2>1. q \in Refs /\ q \in T
    BY <1>1
  <2>2. PICK Q \in SUBSET Refs :
           /\ \A C \in SUBSET Refs : q \in C /\ (\A r \in C : LeadsTo(c, r) \subseteq C) => Q \subseteq C
           /\ Meaning(c, q) = {r \in Q : Bound(c, r)}
    BY <2>1, BindingsSearch
  <2>3. Q \subseteq T
    BY <1>1, <2>1, <2>2
  <2>. QED
    BY <1>1, <2>2, <2>3
<1>. QED
  BY <1>1, <1>2, <1>3

\* What a set of references stands for, when each of its members stands for
\* something in X or leads only to members.
LEMMA MeaningCover ==
  ASSUME NEW c \in Programs, NEW D \in SUBSET Refs, NEW p \in D, NEW X,
         \A q \in D : Meaning(c, q) \subseteq X \/ (~ Bound(c, q) /\ LeadsTo(c, q) \subseteq D)
  PROVE  Meaning(c, p) \subseteq X
<1> DEFINE C == D \cup {q \in Refs : Meaning(c, q) \subseteq X}
<1>1. PICK T \in SUBSET Refs :
           /\ \A Q \in SUBSET Refs : p \in Q /\ (\A q \in Q : LeadsTo(c, q) \subseteq Q) => T \subseteq Q
           /\ Meaning(c, p) = {q \in T : Bound(c, q)}
  <2>1. p \in Refs
    OBVIOUS
  <2>. QED
    BY <2>1, BindingsSearch
<1>2. ASSUME NEW q \in C PROVE LeadsTo(c, q) \subseteq C
  <2>1. CASE Meaning(c, q) \subseteq X
    <3>1. \A r \in LeadsTo(c, q) : r \in Refs /\ Meaning(c, r) \subseteq Meaning(c, q)
      BY LeadsToFacts, MeaningFacts
    <3>. QED
      BY <2>1, <3>1
  <2>2. CASE ~ (Meaning(c, q) \subseteq X)
    BY <2>2
  <2>. QED
    BY <2>1, <2>2
<1>3. C \in SUBSET Refs /\ p \in C
  OBVIOUS
<1>4. T \subseteq C
  BY <1>1, <1>2, <1>3
<1>5. ASSUME NEW q \in T, Bound(c, q) PROVE q \in X
  <2>1. q \in Refs /\ Meaning(c, q) = {q}
    BY <1>5, MeaningFacts
  <2>2. Meaning(c, q) \subseteq X
    BY <1>4, <1>5
  <2>. QED
    BY <2>1, <2>2
<1>. QED
  BY <1>1, <1>5

\* A reference that leads nowhere stands for nothing, one that leads to one
\* other for what that one stands for.
LEMMA MeaningNext ==
  ASSUME NEW c \in Programs, NEW p \in Refs, ~ Bound(c, p)
  PROVE  /\ LeadsTo(c, p) = {} => Meaning(c, p) = {}
         /\ \A q : LeadsTo(c, p) = {q} => Meaning(c, p) = Meaning(c, q)
<1>1. ASSUME LeadsTo(c, p) = {} PROVE Meaning(c, p) = {}
  <2> DEFINE D == {p}
             X == {}
  <2>1. Meaning(c, p) \subseteq X
    <3>1. D \in SUBSET Refs /\ p \in D
      OBVIOUS
    <3>2. \A q \in D : Meaning(c, q) \subseteq X \/ (~ Bound(c, q) /\ LeadsTo(c, q) \subseteq D)
      BY <1>1
    <3>. HIDE DEF D, X
    <3>. QED
      BY <3>1, <3>2, MeaningCover
  <2>. QED
    BY <2>1
<1>2. ASSUME NEW q, LeadsTo(c, p) = {q} PROVE Meaning(c, p) = Meaning(c, q)
  <2>1. q \in Refs
    BY <1>2, LeadsToFacts
  <2>2. Meaning(c, p) \subseteq Meaning(c, q)
    <3>1. {p, q} \in SUBSET Refs /\ p \in {p, q}
      BY <2>1
    <3>2. \A r \in {p, q} : Meaning(c, r) \subseteq Meaning(c, q)
                              \/ (~ Bound(c, r) /\ LeadsTo(c, r) \subseteq {p, q})
      BY <1>2
    <3>. QED
      BY <3>1, <3>2, MeaningCover
  <2>. QED
    BY <1>2, <2>2, MeaningFacts
<1>. QED
  BY <1>1, <1>2

\* How many bindings a reference stands for.
LEMMA MeaningCount ==
  ASSUME NEW c \in Programs, NEW p \in Refs
  PROVE  /\ Cardinality(Meaning(c, p)) = 1 <=> \E x : Meaning(c, p) = {x}
         /\ Cardinality(Meaning(c, p)) <= 1 => Meaning(c, p) = {} \/ \E x : Meaning(c, p) = {x}
<1>1. IsFiniteSet(Refs)
  <2>1. IsFiniteSet(Names \cup {Star})
    BY NamesAssumption, FS_AddElement
  <2>. QED
    BY <2>1, NamesAssumption, FS_Product DEF Refs
<1>2. IsFiniteSet(Meaning(c, p))
  BY <1>1, MeaningFacts, FS_Subset
<1>3. Cardinality(Meaning(c, p)) \in Nat
  BY <1>2, FS_CardinalityType
<1>4. Cardinality(Meaning(c, p)) = 0 => Meaning(c, p) = {}
  BY <1>2, FS_EmptySet
<1>5. Cardinality(Meaning(c, p)) = 1 <=> \E x : Meaning(c, p) = {x}
  BY <1>2, FS_Singleton
<1>6. Cardinality(Meaning(c, p)) <= 1 => Cardinality(Meaning(c, p)) \in {0, 1}
  BY <1>3
<1>. QED
  BY <1>4, <1>5, <1>6

-----------------------------------------------------------------------------
(* The resolution of an export                                             *)

\* StarReach is the least set of modules around m that is closed under star
\* exports.
LEMMA StarReachLeast ==
  ASSUME NEW c \in Programs, NEW m \in Modules
  PROVE  LeastShut(Modules, [k \in Modules |-> ToSet(c[k].star)], {m}, StarReach(c, m))
<1> DEFINE N == Cardinality(Modules)
           step(R) == R \cup UNION {ToSet(c[k].star) : k \in R}
           E(f) == f = [i \in 0..N |-> IF i = 0 THEN {m} ELSE step(f[i - 1])]
           R == [k \in Modules |-> ToSet(c[k].star)]
<1>1. IsFiniteSet(Modules) /\ N \in Nat
  BY NamesAssumption, FS_CardinalityType
<1>2. R \in [Modules -> SUBSET Modules]
  BY GoalFacts
<1>3. StarReach(c, m) = (CHOOSE f : E(f))[N]
  BY DEF StarReach
<1>4. \A C \in SUBSET Modules : step(C) = Spread(R, C) /\ step(C) \in SUBSET Modules
  <2>. SUFFICES ASSUME NEW C \in SUBSET Modules
                PROVE  step(C) = Spread(R, C) /\ step(C) \in SUBSET Modules
    OBVIOUS
  <2>1. \A k \in C : R[k] = ToSet(c[k].star) /\ R[k] \in SUBSET Modules
    BY <1>2
  <2>. QED
    BY <2>1 DEF Spread
<1>. HIDE DEF step, R
<1>5. \E f : E(f)
  <2> DEFINE W == SUBSET Modules
             z == {m}
             h == [i \in 1..N |-> [C \in W |-> step(C)]]
  <2>1. z \in W /\ N \in Nat /\ h \in [1..N -> [W -> W]]
    BY <1>1, <1>4
  <2>2. \E f : Repeats(W, h, z, N, f)
    <3>. HIDE DEF W, z, h, N
    <3>. QED
      BY <2>1, RepeatExists
  <2>. HIDE DEF N
  <2>3. PICK f \in [0..N -> SUBSET Modules] : f[0] = {m} /\ \A i \in 1..N : f[i] = h[i][f[i - 1]]
    BY <2>2 DEF Repeats
  <2>4. ASSUME NEW i \in 0..N PROVE f[i] = IF i = 0 THEN {m} ELSE step(f[i - 1])
    <3>1. CASE i = 0
      BY <2>3, <3>1
    <3>2. CASE i # 0
      <4>1. i \in 1..N /\ i - 1 \in 0..N
        BY <1>1, <3>2
      <4>2. f[i] = h[i][f[i - 1]] /\ f[i - 1] \in SUBSET Modules
        BY <2>3, <4>1
      <4>. QED
        BY <3>2, <4>1, <4>2
    <3>. QED
      BY <3>1, <3>2
  <2>5. E(f)
    BY <2>3, <2>4
  <2>. QED
    BY <2>5
<1>6. PICK f : E(f) /\ StarReach(c, m) = f[N]
  <2>. HIDE DEF E
  <2>. QED
    BY <1>3, <1>5
<1>. HIDE DEF N
<1>7. f[0] = {m} /\ \A i \in 1..N : f[i] = step(f[i - 1])
  <2>1. \A i \in 0..N : f[i] = IF i = 0 THEN {m} ELSE step(f[i - 1])
    BY <1>6
  <2>2. \A i \in 1..N : i \in 0..N /\ i # 0
    BY <1>1
  <2>3. 0 \in 0..N
    BY <1>1
  <2>. QED
    BY <2>1, <2>2, <2>3
<1>8. \A i \in 0..N : f[i] \in SUBSET Modules
  <2> DEFINE T == {i \in 0..N : f[i] \notin SUBSET Modules}
  <2>. SUFFICES ASSUME T # {} PROVE FALSE
    OBVIOUS
  <2>1. T \in SUBSET Nat
    OBVIOUS
  <2>2. PICK i \in T : \A k \in T : i <= k
    BY <2>1, LeastNumber
  <2>3. i # 0
    BY <1>7, <2>2
  <2>4. i \in 1..N /\ i - 1 \in 0..N /\ i - 1 \notin T
    BY <1>1, <2>2, <2>3
  <2>5. f[i] = step(f[i - 1]) /\ f[i - 1] \in SUBSET Modules
    BY <1>7, <2>4
  <2>. QED
    BY <1>4, <2>2, <2>5
<1>9. \A i \in 1..N : f[i] = Spread(R, f[i - 1])
  <2>1. \A i \in 1..N : i - 1 \in 0..N
    BY <1>1
  <2>. QED
    BY <1>4, <1>7, <1>8, <2>1
<1>10. LeastShut(Modules, R, {m}, f[N])
  <2> DEFINE z == {m}
  <2>1. z \in SUBSET Modules /\ Spreads(R, z, N, f)
    BY <1>7, <1>9 DEF Spreads
  <2>2. Modules \in SUBSET Modules /\ N = Cardinality(Modules)
    BY DEF N
  <2>3. \A k \in Modules \ Modules : R[k] = {}
    OBVIOUS
  <2>4. LeastShut(Modules, R, z, f[N])
    <3>. HIDE DEF z, E
    <3>. QED
      BY <1>1, <1>2, <2>1, <2>2, <2>3, SpreadEnds
  <2>. QED
    BY <2>4
<1>. QED
  BY <1>6, <1>10 DEF R

\* Where all is solid for m, it is so for what m imports.
LEMMA SolidOn ==
  ASSUME NEW c, NEW m, NEW k, AllSolid(c, m), Leads(c, m, k, Modules)
  PROVE  AllSolid(c, k)
BY LeadsOn DEF AllSolid

\* What a name means that a module exports by itself,
LEMMA OwnMeaning ==
  ASSUME NEW c \in Programs, NEW m \in Modules, NEW n \in OwnNames(c[m])
  PROVE  /\ <<m, n>> \in Refs /\ n \in Names
         /\ n \in c[m].local => Meaning(c, <<m, n>>) = {<<m, n>>}
         /\ n \notin c[m].local =>
              /\ ~ Bound(c, <<m, n>>)
              /\ \A e \in c[m].indirect : e.name = n =>
                   /\ LeadsTo(c, <<m, n>>) = {<<e.to, e.as>>}
                   /\ Meaning(c, <<m, n>>) = Meaning(c, <<e.to, e.as>>)
         /\ Plain(c) => Meaning(c, <<m, n>>) = {} \/ \E x : Meaning(c, <<m, n>>) = {x}
<1>1. n \in Names /\ n # Star
  BY GoalFacts, NamesAssumption
<1> DEFINE p == <<m, n>>
<1>2. p \in Refs /\ p[1] = m /\ p[2] = n
  BY <1>1 DEF Refs
<1>. HIDE DEF p
<1>3. ASSUME n \in c[m].local PROVE Meaning(c, p) = {p}
  BY <1>2, <1>3, MeaningFacts DEF Bound
<1>4. ASSUME n \notin c[m].local PROVE ~ Bound(c, p)
  BY <1>1, <1>2, <1>4 DEF Bound
<1>5. ASSUME n \notin c[m].local, NEW e \in c[m].indirect, e.name = n
      PROVE  LeadsTo(c, p) = {<<e.to, e.as>>} /\ Meaning(c, p) = Meaning(c, <<e.to, e.as>>)
  <2>1. {x \in c[m].indirect : x.name = n} = {e}
    BY <1>5, BodyFacts
  <2>2. LeadsTo(c, p) = {<<x.to, x.as>> : x \in {e}}
    BY <1>1, <1>2, <1>5, <2>1 DEF LeadsTo
  <2>3. LeadsTo(c, p) = {<<e.to, e.as>>}
    BY <2>2
  <2>4. ~ Bound(c, p)
    BY <1>4, <1>5
  <2>. QED
    BY <1>2, <2>3, <2>4, MeaningNext
<1>6. ASSUME Plain(c) PROVE Meaning(c, p) = {} \/ \E x : Meaning(c, p) = {x}
  <2>1. CASE n \in c[m].local
    BY <1>3, <2>1
  <2>2. CASE n \notin c[m].local
    <3>1. PICK e \in c[m].indirect : e.name = n
      BY <2>2 DEF OwnNames
    <3>2. Meaning(c, p) = Bindings(c, e.to, e.as)
      BY <1>5, <2>2, <3>1 DEF Meaning
    <3>3. Cardinality(Meaning(c, p)) <= 1
      BY <1>6, <3>2 DEF Plain
    <3>. QED
      BY <1>2, <3>3, MeaningCount
  <2>. QED
    BY <2>1, <2>2
<1>. QED
  BY <1>1, <1>2, <1>3, <1>4, <1>5, <1>6 DEF p

\* and one that it does not.
LEMMA OtherMeaning ==
  ASSUME NEW c \in Programs, NEW m \in Modules, NEW n \in Names, n \notin OwnNames(c[m])
  PROVE  /\ <<m, n>> \in Refs /\ ~ Bound(c, <<m, n>>)
         /\ n = Default => LeadsTo(c, <<m, n>>) = {} /\ Meaning(c, <<m, n>>) = {}
         /\ n # Default => LeadsTo(c, <<m, n>>) = {<<t, n>> : t \in ToSet(c[m].star)}
<1>1. n # Star /\ n \notin c[m].local /\ {e \in c[m].indirect : e.name = n} = {}
  BY NamesAssumption DEF OwnNames
<1> DEFINE p == <<m, n>>
<1>2. p \in Refs /\ p[1] = m /\ p[2] = n
  BY DEF Refs
<1>. HIDE DEF p
<1>3. ~ Bound(c, p)
  BY <1>1, <1>2 DEF Bound
<1>4. ASSUME n = Default PROVE LeadsTo(c, p) = {}
  BY <1>1, <1>2, <1>4 DEF LeadsTo
<1>5. ASSUME n # Default PROVE LeadsTo(c, p) = {<<t, n>> : t \in ToSet(c[m].star)}
  BY <1>1, <1>2, <1>5 DEF LeadsTo
<1>6. n = Default => Meaning(c, p) = {}
  BY <1>2, <1>3, <1>4, MeaningNext
<1>. QED
  BY <1>2, <1>3, <1>4, <1>5, <1>6 DEF p

\* t has the pairs of w, and perhaps more.
Extended(w, t) ==
  /\ t.at = w.at /\ t.done = w.done /\ Found(t) = Found(w) /\ Len(w.set) <= Len(t.set)
  /\ \A i \in 1..Len(w.set) : t.set[i] = w.set[i]
  /\ t.type \notin {"ambiguous", "error"}

\* The fields of a walk.
LEMMA WalkFields ==
  ASSUME NEW w \in Walks
  PROVE  /\ w.set \in Seq(Named) /\ Len(w.set) \in Nat /\ DOMAIN w.set = 1..Len(w.set)
         /\ \A i \in 1..Len(w.set) : w.set[i] \in Named /\ w.set[i] \in Refs
         /\ ToSet(w.set) = {w.set[i] : i \in 1..Len(w.set)}
         /\ w.at \in Nat \ {0} /\ w.result \in Refs \cup {<<>>} /\ w.done \in BOOLEAN
         /\ w.type \in {"not_found", "circular", "found", "ambiguous", "error"}
<1>1. /\ w.set \in Seq(Named) /\ w.at \in Nat \ {0} /\ w.result \in Refs \cup {<<>>} /\ w.done \in BOOLEAN
      /\ w.type \in {"not_found", "circular", "found", "ambiguous", "error"}
  BY DEF Walks
<1>2. \A q \in Named : q \in Refs
  BY DEF Named, Refs
<1>3. Len(w.set) \in Nat /\ DOMAIN w.set = 1..Len(w.set) /\ \A i \in 1..Len(w.set) : w.set[i] \in Named
  BY <1>1
<1>. QED
  BY <1>1, <1>2, <1>3 DEF ToSet

\* ecma_module_resolve_update keeps the walk sound.
LEMMA UpdateOK ==
  ASSUME NEW c \in Programs, NEW fa, NEW p \in Refs, NEW w, WalkSound(c, fa, p, w), ~ w.done,
         NEW ref \in Meaning(c, p), NEW t, t = ResolveUpdate(w, ref)
  PROVE  /\ WalkSound(c, fa, p, t) /\ t.set = w.set /\ t.at = w.at
         /\ t.type # "ambiguous" => Found(t) = {ref} /\ Found(w) \subseteq Found(t) /\ ~ t.done
         /\ t.type # "error"
<1>1. w \in Walks /\ w.type \in {"not_found", "circular", "found"} /\ ref \in Refs
  <2>1. w.type \notin {"ambiguous", "error"}
    BY DEF WalkSound
  <2>2. w \in Walks
    BY DEF WalkSound
  <2>. QED
    BY <2>1, <2>2, WalkFields, MeaningFacts
<1>2. CASE w.type \in {"not_found", "circular"}
  <2>1. t = [w EXCEPT !.type = "found", !.result = ref]
    BY <1>2 DEF ResolveUpdate
  <2>2. t \in Walks /\ t.type = "found" /\ t.result = ref /\ t.set = w.set /\ t.at = w.at /\ t.done = w.done
    BY <1>1, <2>1 DEF Walks
  <2>3. Found(t) = {ref} /\ Found(w) = {}
    BY <1>2, <2>2 DEF Found
  <2>4. WalkSound(c, fa, p, t)
    <3>. HIDE DEF Walks
    <3>. QED
      BY <2>2 DEF WalkSound
  <2>. QED
    BY <2>2, <2>3, <2>4
<1>3. CASE w.type = "found" /\ w.result = ref
  <2>1. t = w
    BY <1>3 DEF ResolveUpdate
  <2>. QED
    BY <1>3, <2>1 DEF Found
<1>4. CASE w.type = "found" /\ w.result # ref
  <2>1. t = [w EXCEPT !.type = "ambiguous", !.done = TRUE]
    BY <1>4 DEF ResolveUpdate
  <2>2. t \in Walks /\ t.type = "ambiguous" /\ t.result = w.result /\ t.set = w.set /\ t.at = w.at /\ t.done
    BY <1>1, <2>1 DEF Walks
  <2>3. w.result \in Meaning(c, p)
    BY <1>4 DEF WalkSound
  <2>4. WalkSound(c, fa, p, t)
    BY <1>4, <2>2, <2>3 DEF WalkSound
  <2>. QED
    BY <2>2, <2>4
<1>. QED
  BY <1>1, <1>2, <1>3, <1>4

\* ecma_module_resolve_set_append keeps the walk sound.
LEMMA AppendOK ==
  ASSUME NEW c \in Programs, NEW fa, NEW p \in Refs, NEW w, WalkSound(c, fa, p, w), ~ w.done,
         NEW q \in Named, Met(c, p, q), AllSolid(c, p[1]) => Backed(c, q),
         NEW t, t = ResolveSetAppend(w, q)
  PROVE  WalkSound(c, fa, p, t) /\ Extended(w, t) /\ q \in ToSet(t.set)
<1>1. w \in Walks /\ w.type \in {"not_found", "circular", "found"}
  <2>1. w.type \notin {"ambiguous", "error"}
    BY DEF WalkSound
  <2>2. w \in Walks
    BY DEF WalkSound
  <2>. QED
    BY <2>1, <2>2, WalkFields
<1>2. CASE q \in ToSet(w.set)
  <2>1. t = [w EXCEPT !.type = IF w.type = "not_found" THEN "circular" ELSE w.type]
    BY <1>2 DEF ResolveSetAppend
  <2>2. /\ t \in Walks /\ t.type = IF w.type = "not_found" THEN "circular" ELSE w.type
        /\ t.result = w.result /\ t.set = w.set /\ t.at = w.at /\ t.done = w.done
    BY <1>1, <2>1 DEF Walks
  <2>3. Found(t) = Found(w) /\ t.type \notin {"ambiguous", "error"}
        /\ (t.type = "found" <=> w.type = "found")
    BY <1>1, <2>2 DEF Found
  <2>4. Len(w.set) <= Len(t.set)
    BY <1>1, <2>2, WalkFields
  <2>5. WalkSound(c, fa, p, t)
    BY <2>2, <2>3 DEF WalkSound
  <2>. QED
    BY <1>2, <2>2, <2>3, <2>4, <2>5 DEF Extended
<1>3. CASE q \notin ToSet(w.set)
  <2> DEFINE n == Len(w.set)
             s == Append(w.set, q)
  <2>0. w.set \in Seq(Named) /\ n \in Nat /\ \A i \in 1..n : w.set[i] \in Named
    BY <1>1, WalkFields
  <2>1. t = [w EXCEPT !.set = s]
    BY <1>3 DEF ResolveSetAppend
  <2>2. s \in Seq(Named) /\ Len(s) = n + 1 /\ s[n + 1] = q /\ \A i \in 1..n : s[i] = w.set[i]
    BY <2>0
  <2>. HIDE DEF s
  <2>3. t \in Walks /\ t.type = w.type /\ t.result = w.result /\ t.set = s /\ t.at = w.at /\ t.done = w.done
    BY <1>1, <2>1, <2>2 DEF Walks
  <2>4. \A i \in 1..n : w.set[i] # q
    BY <1>1, <1>3, WalkFields
  <2>. HIDE DEF n
  <2>5. \A i \in 1..Len(s) : i \in 1..n \/ (i = n + 1 /\ i \notin 1..n)
    BY <2>0, <2>2
  <2>6. s # <<>> /\ s[1] = p /\ 1 \in 1..n
    <3>1. w.set # <<>> /\ w.set[1] = p
      BY DEF WalkSound
    <3>2. 1 \in 1..n
      BY <2>0, <3>1 DEF n
    <3>3. s # <<>>
      BY <2>0, <2>2
    <3>. QED
      BY <2>2, <3>1, <3>2, <3>3
  <2>7. \A i, j \in 1..Len(s) : s[i] = s[j] => i = j
    <3>1. \A i, j \in 1..n : w.set[i] = w.set[j] => i = j
      BY DEF WalkSound, n
    <3>. QED
      BY <2>2, <2>4, <2>5, <3>1
  <2>8. \A i \in 1..Len(s) : Met(c, p, s[i])
    <3>1. \A i \in 1..n : Met(c, p, w.set[i])
      BY DEF WalkSound, n
    <3>. QED
      BY <2>2, <2>5, <3>1
  <2>9. AllSolid(c, p[1]) => \A i \in 1..Len(s) : i # 1 => Backed(c, s[i])
    <3>1. AllSolid(c, p[1]) => \A i \in 1..n : i # 1 => Backed(c, w.set[i])
      BY DEF WalkSound, n
    <3>. QED
      BY <2>2, <2>5, <3>1
  <2>10. WalkSound(c, fa, p, t)
    BY <2>3, <2>6, <2>7, <2>8, <2>9 DEF WalkSound
  <2>11. q \in ToSet(s)
    <3>1. n + 1 \in DOMAIN s
      BY <2>0, <2>2
    <3>. QED
      BY <2>2, <3>1 DEF ToSet
  <2>12. Found(t) = Found(w)
    BY <2>3 DEF Found
  <2>13. Len(w.set) <= Len(s)
    BY <2>0, <2>2 DEF n
  <2>14. \A i \in 1..Len(w.set) : s[i] = w.set[i]
    BY <2>2 DEF n
  <2>. QED
    BY <1>1, <2>3, <2>10, <2>11, <2>12, <2>13, <2>14 DEF Extended
<1>. QED
  BY <1>2, <1>3

\* What t extends keeps its pairs.
LEMMA ExtendedOn ==
  ASSUME NEW w \in Walks, NEW t \in Walks, NEW u \in Walks, Extended(w, t), Extended(t, u)
  PROVE  Extended(w, u) /\ ToSet(t.set) \subseteq ToSet(u.set)
<1>1. /\ Len(w.set) \in Nat /\ Len(t.set) \in Nat /\ Len(u.set) \in Nat
      /\ Len(w.set) <= Len(t.set) /\ Len(t.set) <= Len(u.set)
  BY WalkFields DEF Extended
<1>2. \A i \in 1..Len(w.set) : i \in 1..Len(t.set)
  BY <1>1
<1>3. \A i \in 1..Len(t.set) : i \in 1..Len(u.set) /\ u.set[i] = t.set[i]
  BY <1>1 DEF Extended
<1>4. \A i \in 1..Len(w.set) : u.set[i] = w.set[i]
  BY <1>2, <1>3 DEF Extended
<1>5. ToSet(t.set) \subseteq ToSet(u.set)
  <2>1. /\ ToSet(t.set) = {t.set[i] : i \in 1..Len(t.set)}
        /\ ToSet(u.set) = {u.set[i] : i \in 1..Len(u.set)}
    BY WalkFields
  <2>. QED
    BY <1>3, <2>1
<1>6. Len(w.set) <= Len(u.set)
  BY <1>1
<1>. QED
  BY <1>4, <1>5, <1>6 DEF Extended

\* A walk appends the pairs of all star exports.
LEMMA StarsOK ==
  ASSUME NEW c \in Programs, NEW fa, NEW p \in Refs, NEW w, WalkSound(c, fa, p, w), ~ w.done,
         NEW star \in Seq(Modules), NEW n \in Names, n # Default,
         \A x \in ToSet(star) : Met(c, p, <<x, n>>),
         NEW t, t = ResolveStars(w, star, n)
  PROVE  /\ WalkSound(c, fa, p, t) /\ Extended(w, t)
         /\ \A x \in ToSet(star) : <<x, n>> \in ToSet(t.set)
<1> DEFINE N == Len(star)
           E(f) == f = [i \in 0..N |-> IF i = 0 THEN w ELSE ResolveSetAppend(f[i - 1], <<star[i], n>>)]
<1>1. N \in Nat /\ DOMAIN star = 1..N /\ \A i \in 1..N : star[i] \in Modules /\ star[i] \in ToSet(star)
  BY DEF ToSet
<1>2. t = (CHOOSE f : E(f))[N]
  BY DEF ResolveStars
<1>. HIDE DEF N
<1>3. ASSUME NEW i \in 1..N, NEW s, WalkSound(c, fa, p, s), ~ s.done
      PROVE  LET r == ResolveSetAppend(s, <<star[i], n>>)
             IN WalkSound(c, fa, p, r) /\ Extended(s, r) /\ <<star[i], n>> \in ToSet(r.set)
  <2> DEFINE q == <<star[i], n>>
             r == ResolveSetAppend(s, q)
  <2>1. q \in Named /\ Met(c, p, q) /\ Backed(c, q)
    BY <1>1 DEF Named, Backed
  <2>. HIDE DEF q
  <2>2. WalkSound(c, fa, p, r) /\ Extended(s, r) /\ q \in ToSet(r.set)
    <3>. HIDE DEF r
    <3>1. r = ResolveSetAppend(s, q)
      BY DEF r
    <3>. QED
      BY <1>3, <2>1, <3>1, AppendOK
  <2>. QED
    BY <2>2 DEF q
<1>4. \E f : E(f)
  <2> DEFINE U == {s \in Walks : WalkSound(c, fa, p, s) /\ ~ s.done}
             h == [i \in 1..N |-> [s \in U |-> ResolveSetAppend(s, <<star[i], n>>)]]
  <2>1. w \in U
    BY DEF WalkSound
  <2>2. \A i \in 1..N : \A s \in U : ResolveSetAppend(s, <<star[i], n>>) \in U
    <3>. SUFFICES ASSUME NEW i \in 1..N, NEW s \in U PROVE ResolveSetAppend(s, <<star[i], n>>) \in U
      OBVIOUS
    <3> DEFINE r == ResolveSetAppend(s, <<star[i], n>>)
    <3>1. WalkSound(c, fa, p, r) /\ Extended(s, r)
      BY <1>3
    <3>. HIDE DEF r
    <3>2. r \in Walks /\ ~ r.done
      BY <3>1 DEF WalkSound, Extended
    <3>. QED
      BY <3>1, <3>2 DEF r
  <2>3. h \in [1..N -> [U -> U]]
    BY <2>2
  <2>4. \E f : Repeats(U, h, w, N, f)
    <3>. HIDE DEF U, h
    <3>. QED
      BY <1>1, <2>1, <2>3, RepeatExists
  <2>5. PICK f : f \in [0..N -> U] /\ f[0] = w /\ \A i \in 1..N : f[i] = h[i][f[i - 1]]
    BY <2>4 DEF Repeats
  <2>6. ASSUME NEW i \in 0..N
        PROVE  f[i] = IF i = 0 THEN w ELSE ResolveSetAppend(f[i - 1], <<star[i], n>>)
    <3>1. CASE i = 0
      BY <2>5, <3>1
    <3>2. CASE i # 0
      <4>1. i \in 1..N /\ i - 1 \in 0..N
        BY <1>1, <3>2
      <4>2. f[i] = h[i][f[i - 1]] /\ f[i - 1] \in U
        BY <2>5, <4>1
      <4>. HIDE DEF U
      <4>. QED
        BY <3>2, <4>1, <4>2
    <3>. QED
      BY <3>1, <3>2
  <2>7. E(f)
    <3>. HIDE DEF U, h
    <3>. QED
      BY <2>5, <2>6
  <2>. QED
    BY <2>7
<1>5. PICK f : E(f) /\ t = f[N]
  <2>. HIDE DEF E
  <2>. QED
    BY <1>2, <1>4
<1>6. f[0] = w /\ \A i \in 1..N : f[i] = ResolveSetAppend(f[i - 1], <<star[i], n>>)
  <2>1. \A i \in 0..N : f[i] = IF i = 0 THEN w ELSE ResolveSetAppend(f[i - 1], <<star[i], n>>)
    BY <1>5
  <2>2. \A i \in 1..N : i \in 0..N /\ i # 0
    BY <1>1
  <2>3. 0 \in 0..N
    BY <1>1
  <2>. QED
    BY <2>1, <2>2, <2>3
<1>. HIDE DEF E
<1> DEFINE Good(i) == /\ WalkSound(c, fa, p, f[i]) /\ Extended(w, f[i])
                      /\ \A j \in 1..N : j <= i => <<star[j], n>> \in ToSet(f[i].set)
<1>7. \A i \in 0..N : Good(i)
  <2> DEFINE T == {i \in 0..N : ~ Good(i)}
  <2>. SUFFICES ASSUME T # {} PROVE FALSE
    OBVIOUS
  <2>1. T \in SUBSET Nat
    OBVIOUS
  <2>2. PICK i \in T : \A k \in T : i <= k
    BY <2>1, LeastNumber
  <2>3. i # 0
    <3>1. Extended(w, w)
      <4>1. w \in Walks /\ w.type \notin {"ambiguous", "error"}
        BY DEF WalkSound
      <4>2. Len(w.set) <= Len(w.set)
        BY <4>1, WalkFields
      <4>. QED
        BY <4>1, <4>2 DEF Extended
    <3>2. \A j \in 1..N : ~ (j <= 0)
      BY <1>1
    <3>3. Good(0)
      BY <1>6, <3>1, <3>2
    <3>. QED
      BY <2>2, <3>3
  <2>4. i \in 1..N /\ i - 1 \in 0..N /\ i - 1 \notin T
    BY <1>1, <2>2, <2>3
  <2>5. Good(i - 1)
    BY <2>4
  <2>6. ~ f[i - 1].done /\ f[i - 1] \in Walks /\ w \in Walks
    BY <2>5 DEF Extended, WalkSound
  <2> DEFINE r == ResolveSetAppend(f[i - 1], <<star[i], n>>)
  <2>7. f[i] = r
    BY <1>6, <2>4
  <2>8. WalkSound(c, fa, p, r) /\ Extended(f[i - 1], r) /\ <<star[i], n>> \in ToSet(r.set)
    <3>. HIDE DEF Good
    <3>1. WalkSound(c, fa, p, f[i - 1])
      BY <2>5 DEF Good
    <3>. QED
      BY <1>3, <2>4, <2>6, <3>1
  <2>. HIDE DEF r
  <2>9. r \in Walks
    BY <2>8 DEF WalkSound
  <2>10. Extended(w, r) /\ ToSet(f[i - 1].set) \subseteq ToSet(r.set)
    <3> DEFINE g == f[i - 1]
    <3>1. g \in Walks /\ Extended(w, g) /\ Extended(g, r)
      BY <2>5, <2>6, <2>8
    <3>. HIDE DEF g
    <3>2. Extended(w, r) /\ ToSet(g.set) \subseteq ToSet(r.set)
      BY <2>6, <2>9, <3>1, ExtendedOn
    <3>. QED
      BY <3>2 DEF g
  <2>11. \A j \in 1..N : j <= i => j <= i - 1 \/ j = i
    BY <1>1, <2>4
  <2>12. Good(i)
    BY <2>5, <2>7, <2>8, <2>10, <2>11
  <2>. QED
    BY <2>2, <2>12
<1>8. N \in 0..N /\ \A j \in 1..N : j <= N
  BY <1>1
<1>9. Good(N)
  BY <1>7, <1>8
<1>10. \A x \in ToSet(star) : \E j \in 1..N : x = star[j]
  BY <1>1 DEF ToSet
<1>. QED
  BY <1>5, <1>8, <1>9, <1>10

\* The state of the walk before the loop goes on to the next pair.
WalkTurned(c, fa, p, t, at) ==
  /\ WalkSound(c, fa, p, t) /\ WalkCovers(c, p, t, at)
  /\ t.at = at /\ at <= Len(t.set)
  /\ AllSolid(c, p[1]) /\ t.type \notin {"ambiguous", "error"} /\ t.done => at = Len(t.set)

\* The loop goes on to the next pair.
NextPair(t) == [t EXCEPT !.at = @ + 1, !.done = @ \/ t.at = Len(t.set)]

\* What the walk keeps, it keeps then.
LEMMA TurnEnd ==
  ASSUME NEW c \in Programs, NEW fa, NEW p \in Refs, NEW t, NEW at \in Nat \ {0}, WalkTurned(c, fa, p, t, at),
         NEW u, u = NextPair(t)
  PROVE  WalkInv(c, fa, p, u) /\ u.at = at + 1
<1>1. t \in Walks /\ t.at = at /\ at <= Len(t.set)
  BY DEF WalkTurned, WalkSound
<1>2. /\ u \in Walks /\ u.set = t.set /\ u.at = at + 1 /\ u.type = t.type /\ u.result = t.result
      /\ (u.done <=> t.done \/ at = Len(t.set))
  <2> DEFINE b == t.done \/ t.at = Len(t.set)
  <2>1. u = [t EXCEPT !.at = t.at + 1, !.done = b] /\ b \in BOOLEAN
    BY DEF NextPair
  <2>2. b <=> t.done \/ at = Len(t.set)
    BY <1>1
  <2>. HIDE DEF b
  <2> DEFINE a == t.at + 1
  <2>3. a \in Nat \ {0} /\ u = [t EXCEPT !.at = a, !.done = b]
    BY <1>1, <2>1
  <2>. HIDE DEF a
  <2>4. /\ u.set = t.set /\ u.at = a /\ u.type = t.type /\ u.result = t.result /\ u.done = b
        /\ u \in Walks
    BY <1>1, <2>1, <2>3 DEF Walks
  <2>. QED
    BY <1>1, <2>2, <2>4 DEF a
<1>3. Len(t.set) \in Nat
  BY <1>1, WalkFields
<1>4. WalkSound(c, fa, p, u)
  <2>1. WalkSound(c, fa, p, t)
    BY DEF WalkTurned
  <2>. QED
    BY <1>2, <2>1 DEF WalkSound
<1>5. WalkCovers(c, p, u, at)
  <2>1. WalkCovers(c, p, t, at)
    BY DEF WalkTurned
  <2>2. Found(u) = Found(t)
    BY <1>2 DEF Found
  <2>. QED
    BY <1>2, <2>1, <2>2 DEF WalkCovers
<1>6. ~ u.done => u.at <= Len(u.set)
  BY <1>1, <1>2, <1>3
<1>7. u.at # 1 /\ u.at - 1 = at
  BY <1>2
<1>8. AllSolid(c, p[1]) /\ u.type \notin {"ambiguous", "error"} /\ u.done => u.at > Len(u.set)
  <2>1. AllSolid(c, p[1]) /\ t.type \notin {"ambiguous", "error"} /\ t.done => at = Len(t.set)
    BY DEF WalkTurned
  <2>. QED
    BY <1>2, <1>3, <2>1
<1>. QED
  BY <1>2, <1>4, <1>5, <1>6, <1>7, <1>8 DEF WalkInv

\* What covers a pair more.
LEMMA CoverStep ==
  ASSUME NEW c, NEW p, NEW w \in Walks, NEW t \in Walks, WalkCovers(c, p, w, w.at - 1),
         w.type \notin {"ambiguous", "error"}, w.at <= Len(w.set), Len(w.set) <= Len(t.set),
         \A i \in 1..Len(w.set) : t.set[i] = w.set[i],
         ToSet(w.set) \subseteq ToSet(t.set),
         AllSolid(c, p[1]) /\ t.type \notin {"ambiguous", "error"} =>
           /\ Found(w) \subseteq Found(t)
           /\ \/ Meaning(c, w.set[w.at]) \subseteq Found(t)
              \/ ~ Bound(c, w.set[w.at]) /\ LeadsTo(c, w.set[w.at]) \subseteq ToSet(t.set)
  PROVE  WalkCovers(c, p, t, w.at)
<1>1. Len(w.set) \in Nat /\ Len(t.set) \in Nat /\ w.at \in Nat \ {0}
  BY WalkFields
<1>. SUFFICES ASSUME AllSolid(c, p[1]), t.type \notin {"ambiguous", "error"},
                     NEW i \in 1..Len(t.set), i <= w.at
              PROVE  \/ Meaning(c, t.set[i]) \subseteq Found(t)
                     \/ ~ Bound(c, t.set[i]) /\ LeadsTo(c, t.set[i]) \subseteq ToSet(t.set)
  BY DEF WalkCovers
<1>2. i \in 1..Len(w.set) /\ t.set[i] = w.set[i]
  BY <1>1
<1>3. CASE i = w.at
  BY <1>2, <1>3
<1>4. CASE i # w.at
  <2>1. i <= w.at - 1
    BY <1>1, <1>4
  <2>2. \/ Meaning(c, w.set[i]) \subseteq Found(w)
        \/ ~ Bound(c, w.set[i]) /\ LeadsTo(c, w.set[i]) \subseteq ToSet(w.set)
    BY <1>2, <2>1 DEF WalkCovers
  <2>. QED
    BY <1>2, <2>2
<1>. QED
  BY <1>3, <1>4

\* A pair that the walk meets leads it on to pairs that it may meet.
LEMMA MetOn ==
  ASSUME NEW c \in Programs, NEW p \in Refs, NEW q \in Refs, Met(c, p, q), NEW r \in LeadsTo(c, q)
  PROVE  r \in Refs /\ Met(c, p, r)
<1>1. r \in Refs /\ Meaning(c, r) \subseteq Meaning(c, q) /\ r[1] \in Succ(c, q[1]) /\ q[1] \in Modules
  BY LeadsToFacts, MeaningFacts
<1>2. r[1] \in Modules
  BY <1>1, GoalFacts
<1>3. Leads(c, p[1], r[1], Modules)
  BY <1>1, <1>2, LeadsStep, LeadsOn DEF Met
<1>. QED
  BY <1>1, <1>3 DEF Met

\* A reference that is found in one turn.
LEMMA FoundOK ==
  ASSUME NEW c \in Programs, NEW fa, NEW p \in Refs, NEW w, WalkInv(c, fa, p, w), ~ w.done,
         NEW ref \in Meaning(c, w.set[w.at]),
         AllSolid(c, p[1]) => Meaning(c, w.set[w.at]) = {ref},
         NEW t, t = ResolveUpdate(w, ref)
  PROVE  WalkTurned(c, fa, p, t, w.at)
<1>1. WalkSound(c, fa, p, w) /\ w \in Walks /\ w.at <= Len(w.set) /\ WalkCovers(c, p, w, w.at - 1)
      /\ w.type \notin {"ambiguous", "error"}
  BY DEF WalkInv, WalkSound
<1>2. w.at \in 1..Len(w.set) /\ Len(w.set) \in Nat
  BY <1>1, WalkFields
<1>3. ref \in Meaning(c, p)
  BY <1>1, <1>2 DEF WalkSound, Met
<1>4. /\ WalkSound(c, fa, p, t) /\ t.set = w.set /\ t.at = w.at
      /\ t.type # "ambiguous" => Found(t) = {ref} /\ Found(w) \subseteq Found(t) /\ ~ t.done
      /\ t.type # "error"
  <2>1. WalkSound(c, fa, p, w) /\ ref \in Meaning(c, p) /\ ~ w.done /\ t = ResolveUpdate(w, ref)
    BY <1>1, <1>3
  <2>. QED
    BY ONLY c \in Programs, p \in Refs, <2>1, UpdateOK
<1>5. t \in Walks
  BY <1>4 DEF WalkSound
<1>6. WalkCovers(c, p, t, w.at)
  <2>1. Len(w.set) <= Len(t.set) /\ (\A i \in 1..Len(w.set) : t.set[i] = w.set[i])
        /\ ToSet(w.set) \subseteq ToSet(t.set)
    BY <1>2, <1>4
  <2>2. AllSolid(c, p[1]) /\ t.type \notin {"ambiguous", "error"} =>
           Found(w) \subseteq Found(t) /\ Meaning(c, w.set[w.at]) \subseteq Found(t)
    BY <1>4
  <2>. QED
    BY <1>1, <1>5, <2>1, <2>2, CoverStep
<1>. QED
  BY <1>1, <1>4, <1>6 DEF WalkTurned

\* The pairs that a pair leads to are appended in one turn.
LEMMA LedOK ==
  ASSUME NEW c \in Programs, NEW fa, NEW p \in Refs, NEW w, WalkInv(c, fa, p, w), ~ w.done,
         NEW t, WalkSound(c, fa, p, t), Extended(w, t),
         ~ Bound(c, w.set[w.at]), LeadsTo(c, w.set[w.at]) \subseteq ToSet(t.set)
  PROVE  WalkTurned(c, fa, p, t, w.at)
<1>1. WalkSound(c, fa, p, w) /\ w \in Walks /\ w.at <= Len(w.set) /\ WalkCovers(c, p, w, w.at - 1)
      /\ w.type \notin {"ambiguous", "error"}
  BY DEF WalkInv, WalkSound
<1>2. t \in Walks
  BY DEF WalkSound
<1>3. /\ t.at = w.at /\ t.done = w.done /\ Found(t) = Found(w) /\ Len(w.set) <= Len(t.set)
      /\ \A i \in 1..Len(w.set) : t.set[i] = w.set[i]
  BY DEF Extended
<1>4. Len(w.set) \in Nat /\ Len(t.set) \in Nat /\ w.at \in Nat
  BY <1>1, <1>2, WalkFields
<1>5. ToSet(w.set) \subseteq ToSet(t.set)
  <2>1. \A i \in 1..Len(w.set) : i \in 1..Len(t.set)
    BY <1>3, <1>4
  <2>2. /\ ToSet(t.set) = {t.set[i] : i \in 1..Len(t.set)}
        /\ ToSet(w.set) = {w.set[i] : i \in 1..Len(w.set)}
    BY <1>1, <1>2, WalkFields
  <2>. QED
    BY <1>3, <2>1, <2>2
<1>6. WalkCovers(c, p, t, w.at)
  BY <1>1, <1>2, <1>3, <1>5, CoverStep
<1>7. w.at <= Len(t.set)
  BY <1>1, <1>3, <1>4
<1>. QED
  BY <1>3, <1>6, <1>7 DEF WalkTurned

\* One turn of the loop of ecma_module_resolve_export.
LEMMA TurnOK ==
  ASSUME NEW c \in Programs, Plain(c), NEW fa, NEW hn, NEW x, NsOK(c, hn, x),
         NEW p \in Refs, NEW w, WalkInv(c, fa, p, w), ~ w.done
  PROVE  LET u == ResolveTurn(c, fa, hn, x, w)
         IN WalkInv(c, fa, p, u) /\ u.at = w.at + 1
<1> DEFINE q == w.set[w.at]
           m == q[1]
           n == q[2]
           exports == {e \in c[m].indirect : e.name = n}
           e == CHOOSE y \in exports : TRUE
           t == CASE m \in fa -> [w EXCEPT !.type = "error", !.done = TRUE]
                  [] m \notin fa /\ m \in hn /\ n \in DOMAIN x[m] -> ResolveUpdate(w, x[m][n])
                  [] m \notin fa \cup hn /\ n \in c[m].local -> ResolveUpdate(w, <<m, n>>)
                  [] m \notin fa \cup hn /\ n \notin c[m].local /\ exports # {} ->
                       IF e.as = Star THEN ResolveUpdate(w, <<e.to, Star>>)
                                      ELSE ResolveSetAppend(w, <<e.to, e.as>>)
                  [] OTHER -> IF n = Default THEN [w EXCEPT !.done = TRUE] ELSE ResolveStars(w, c[m].star, n)
           u == ResolveTurn(c, fa, hn, x, w)
<1>1. u = NextPair(t)
  BY DEF ResolveTurn, NextPair
<1>2. WalkSound(c, fa, p, w) /\ w \in Walks /\ w.at <= Len(w.set) /\ WalkCovers(c, p, w, w.at - 1)
      /\ w.type \notin {"ambiguous", "error"} /\ (w.at = 1 => Len(w.set) = 1)
  BY DEF WalkInv, WalkSound
<1>3. w.at \in 1..Len(w.set) /\ Len(w.set) \in Nat /\ w.at \in Nat \ {0}
  BY <1>2, WalkFields
<1>4. q \in Named /\ q \in Refs /\ Met(c, p, q)
  BY <1>2, <1>3, WalkFields DEF WalkSound
<1>5. m \in Modules /\ n \in Names /\ q = <<m, n>> /\ n # Star
  <2>1. m \in Modules /\ n \in Names /\ q = <<m, n>>
    BY <1>4 DEF Named
  <2>. QED
    BY <2>1, NamesAssumption
<1>6. Leads(c, p[1], m, Modules) /\ Meaning(c, q) \subseteq Meaning(c, p)
  BY <1>4 DEF Met
<1>7. AllSolid(c, p[1]) => AllSolid(c, m) /\ Solid(c, m)
  <2>1. AllSolid(c, p[1]) => AllSolid(c, m)
    BY <1>6, SolidOn
  <2>2. AllSolid(c, p[1]) => Solid(c, m)
    BY <1>5, <1>6 DEF AllSolid
  <2>. QED
    BY <2>1, <2>2
<1>8. q = w.set[w.at]
  OBVIOUS
<1>. SUFFICES WalkTurned(c, fa, p, t, w.at)
  <2> DEFINE at == w.at
  <2>1. at \in Nat \ {0} /\ (WalkTurned(c, fa, p, t, at) => WalkTurned(c, fa, p, t, w.at))
    BY <1>3, ZenonT(60)
  <2>. HIDE DEF t, u
  <2>. HIDE DEF at
  <2>2. ASSUME WalkTurned(c, fa, p, t, at) PROVE WalkInv(c, fa, p, u) /\ u.at = at + 1
    BY ONLY c \in Programs, p \in Refs, <1>1, <2>1, <2>2, TurnEnd
  <2>. QED
    BY <2>2, SMTT(60) DEF u, at
<1>. HIDE DEF q, m, n
<1>9. CASE m \in fa
  <2>1. t = [w EXCEPT !.type = "error", !.done = TRUE]
    BY <1>9
  <2>. HIDE DEF t
  <2>2. /\ t \in Walks /\ t.type = "error" /\ t.done = TRUE /\ t.set = w.set /\ t.at = w.at /\ t.result = w.result
    BY <1>2, <2>1 DEF Walks
  <2>3. WalkSound(c, fa, p, t)
    BY <1>2, <1>6, <1>9, <2>2 DEF WalkSound
  <2>4. WalkCovers(c, p, t, w.at)
    BY <2>2 DEF WalkCovers
  <2>5. WalkTurned(c, fa, p, t, w.at)
    BY <1>2, <2>2, <2>3, <2>4 DEF WalkTurned
  <2>. QED
    BY <2>5
<1>10. CASE m \notin fa /\ m \in hn /\ n \in DOMAIN x[m]
  <2> DEFINE ref == x[m][n]
  <2>1. t = ResolveUpdate(w, ref)
    BY <1>10
  <2>2. NsRight(c, m, x[m])
    BY <1>10 DEF NsOK
  <2>3. ref \in Meaning(c, q)
    BY <1>5, <1>10, <2>2 DEF NsRight
  <2>4. ASSUME AllSolid(c, p[1]) PROVE Meaning(c, q) = {ref}
    <3>1. \E y : Meaning(c, q) = {y}
      BY <1>5, <1>7, <1>10, <2>2, <2>4 DEF NsRight
    <3>. QED
      BY <2>3, <3>1
  <2>. HIDE DEF t, ref
  <2>5. WalkTurned(c, fa, p, t, w.at)
    BY <1>8, <2>1, <2>3, <2>4, FoundOK
  <2>. QED
    BY <2>5
<1>11. CASE m \notin fa \cup hn /\ n \in c[m].local
  <2>1. t = ResolveUpdate(w, q)
    BY <1>5, <1>11
  <2>2. n \in OwnNames(c[m])
    BY <1>11 DEF OwnNames
  <2>3. Meaning(c, q) = {q}
    BY <1>5, <1>11, <2>2, OwnMeaning
  <2>. HIDE DEF t
  <2>4. q \in Meaning(c, q)
    BY <2>3
  <2>5. WalkTurned(c, fa, p, t, w.at)
    BY <1>8, <2>1, <2>3, <2>4, FoundOK
  <2>. QED
    BY <2>5
<1>12. CASE m \notin fa \cup hn /\ n \notin c[m].local /\ exports # {}
  <2>1. t = IF e.as = Star THEN ResolveUpdate(w, <<e.to, Star>>) ELSE ResolveSetAppend(w, <<e.to, e.as>>)
    BY <1>12
  <2>2. e \in c[m].indirect /\ e.name = n
    BY <1>12
  <2>. HIDE DEF t, exports, e
  <2>3. n \in OwnNames(c[m])
    BY <2>2 DEF OwnNames
  <2> DEFINE r == <<e.to, e.as>>
  <2>4. ~ Bound(c, q) /\ LeadsTo(c, q) = {r} /\ Meaning(c, q) = Meaning(c, r)
    <3>1. ~ Bound(c, <<m, n>>) /\ LeadsTo(c, <<m, n>>) = {<<e.to, e.as>>}
          /\ Meaning(c, <<m, n>>) = Meaning(c, <<e.to, e.as>>)
      BY <1>5, <1>12, <2>2, <2>3, OwnMeaning
    <3>. QED
      BY <1>5, <3>1
  <2>5. e.to \in Modules /\ e.as \in Names \cup {Star}
    <3>1. e \in [name : Names, to : Modules, as : Names \cup {Star}]
      BY <1>5, <2>2, BodyFacts
    <3>. QED
      BY <3>1
  <2>6. r[2] = e.as
    OBVIOUS
  <2>7. r = <<e.to, e.as>>
    OBVIOUS
  <2>. HIDE DEF r
  <2>8. r \in Refs /\ Met(c, p, r)
    BY <1>4, <2>4, MetOn
  <2>9. CASE e.as = Star
    <3>1. t = ResolveUpdate(w, r)
      BY <2>1, <2>7, <2>9
    <3>2. Meaning(c, r) = {r}
      BY <2>6, <2>8, <2>9, MeaningFacts DEF Bound
    <3>3. r \in Meaning(c, q) /\ Meaning(c, q) = {r}
      BY <2>4, <3>2
    <3>4. WalkTurned(c, fa, p, t, w.at)
      BY <1>8, <3>1, <3>3, FoundOK
    <3>. QED
      BY <3>4
  <2>10. CASE e.as # Star
    <3>1. t = ResolveSetAppend(w, r)
      BY <2>1, <2>7, <2>10
    <3>2. r \in Named
      BY <2>5, <2>7, <2>10 DEF Named
    <3>3. AllSolid(c, p[1]) => Backed(c, r)
      <4>1. AllSolid(c, p[1]) => Meaning(c, <<m, n>>) # {}
        BY <1>7, <2>3 DEF Solid
      <4>. QED
        BY <1>5, <2>4, <4>1 DEF Backed
    <3>4. WalkSound(c, fa, p, t) /\ Extended(w, t) /\ r \in ToSet(t.set)
      BY <1>2, <2>8, <3>1, <3>2, <3>3, AppendOK
    <3>5. LeadsTo(c, q) \subseteq ToSet(t.set)
      BY <2>4, <3>4
    <3>6. WalkTurned(c, fa, p, t, w.at)
      BY <1>8, <2>4, <3>4, <3>5, LedOK
    <3>. QED
      BY <3>6
  <2>. QED
    BY <2>9, <2>10
<1>13. CASE /\ m \notin fa /\ ~ (m \in hn /\ n \in DOMAIN x[m])
            /\ m \notin hn => n \notin c[m].local /\ exports = {}
  <2>1. t = IF n = Default THEN [w EXCEPT !.done = TRUE] ELSE ResolveStars(w, c[m].star, n)
    BY <1>13
  <2>2. n \notin OwnNames(c[m])
    <3>1. CASE m \in hn
      <4>1. NsRight(c, m, x[m])
        BY <3>1 DEF NsOK
      <4>. QED
        BY <1>13, <3>1, <4>1 DEF NsRight
    <3>2. CASE m \notin hn
      BY <1>13, <3>2 DEF OwnNames
    <3>. QED
      BY <3>1, <3>2
  <2>. HIDE DEF t, exports
  <2>3. /\ ~ Bound(c, q)
        /\ n = Default => LeadsTo(c, q) = {} /\ Meaning(c, q) = {}
        /\ n # Default => LeadsTo(c, q) = {<<y, n>> : y \in ToSet(c[m].star)}
    BY <1>5, <2>2, OtherMeaning
  <2>4. CASE n = Default
    <3>1. t = [w EXCEPT !.done = TRUE]
      BY <2>1, <2>4
    <3>2. /\ t \in Walks /\ t.type = w.type /\ t.done = TRUE /\ t.set = w.set /\ t.at = w.at /\ t.result = w.result
      BY <1>2, <3>1 DEF Walks
    <3>3. WalkSound(c, fa, p, t)
      BY <1>2, <3>2 DEF WalkSound
    <3>4. Found(t) = Found(w)
      BY <3>2 DEF Found
    <3>5. WalkCovers(c, p, t, w.at)
      <4>1. Len(w.set) <= Len(t.set) /\ (\A i \in 1..Len(w.set) : t.set[i] = w.set[i])
            /\ ToSet(w.set) \subseteq ToSet(t.set)
        BY <1>3, <3>2
      <4>2. Found(w) \subseteq Found(t) /\ Meaning(c, w.set[w.at]) \subseteq Found(t)
        BY <1>8, <2>3, <2>4, <3>4
      <4>. QED
        BY <1>2, <3>2, <4>1, <4>2, CoverStep
    <3>6. AllSolid(c, p[1]) => w.at = 1
      <4>1. AllSolid(c, p[1]) /\ w.at # 1 => Backed(c, q)
        BY <1>2, <1>3, <1>8 DEF WalkSound
      <4>2. ~ Backed(c, q)
        BY <2>3, <2>4 DEF Backed, n
      <4>. QED
        BY <4>1, <4>2
    <3>7. WalkTurned(c, fa, p, t, w.at)
      BY <1>2, <3>2, <3>3, <3>5, <3>6 DEF WalkTurned
    <3>. QED
      BY <3>7
  <2>5. CASE n # Default
    <3>1. t = ResolveStars(w, c[m].star, n)
      BY <2>1, <2>5
    <3>2. c[m].star \in Seq(Modules)
      BY <1>5, BodyFacts
    <3>3. \A y \in ToSet(c[m].star) : Met(c, p, <<y, n>>)
      <4>. SUFFICES ASSUME NEW y \in ToSet(c[m].star) PROVE Met(c, p, <<y, n>>)
        OBVIOUS
      <4>1. <<y, n>> \in LeadsTo(c, q)
        BY <2>3, <2>5
      <4>. QED
        BY <1>4, <4>1, MetOn
    <3>4. WalkSound(c, fa, p, t) /\ Extended(w, t) /\ \A y \in ToSet(c[m].star) : <<y, n>> \in ToSet(t.set)
      <4> DEFINE star == c[m].star
      <4>1. t = ResolveStars(w, star, n) /\ star \in Seq(Modules) /\ \A y \in ToSet(star) : Met(c, p, <<y, n>>)
        BY <3>1, <3>2, <3>3
      <4>. HIDE DEF star
      <4>2. WalkSound(c, fa, p, t) /\ Extended(w, t) /\ \A y \in ToSet(star) : <<y, n>> \in ToSet(t.set)
        BY <1>2, <1>5, <2>5, <4>1, StarsOK
      <4>. QED
        BY <4>2 DEF star
    <3>5. LeadsTo(c, q) \subseteq ToSet(t.set)
      BY <2>3, <2>5, <3>4
    <3>6. WalkTurned(c, fa, p, t, w.at)
      BY <1>8, <2>3, <3>4, <3>5, LedOK
    <3>. QED
      BY <3>6
  <2>. QED
    BY <2>4, <2>5
<1>. HIDE DEF t, exports, e
<1>. QED
  BY <1>9, <1>10, <1>11, <1>12, <1>13

\* The walk begins.
LEMMA WalkBegins ==
  ASSUME NEW c \in Programs, NEW fa, NEW p \in Named
  PROVE  LET w == [set |-> <<p>>, at |-> 1, type |-> "not_found", result |-> <<>>, done |-> FALSE]
         IN WalkInv(c, fa, p, w) /\ w.at = 1 /\ ~ w.done
<1> DEFINE w == [set |-> <<p>>, at |-> 1, type |-> "not_found", result |-> <<>>, done |-> FALSE]
<1>1. w \in Walks
  BY DEF Walks
<1>2. w.set = <<p>> /\ Len(w.set) = 1 /\ w.set[1] = p /\ w.set # <<>> /\ w.at = 1 /\ w.type = "not_found" /\ ~ w.done
  OBVIOUS
<1>. HIDE DEF w
<1>3. \A i \in 1..Len(w.set) : i = 1 /\ ~ (i <= w.at - 1)
  BY <1>2
<1>4. Met(c, p, p)
  BY LeadsSelf DEF Met
<1>5. WalkSound(c, fa, p, w)
  BY <1>1, <1>2, <1>3, <1>4 DEF WalkSound
<1>6. WalkCovers(c, p, w, w.at - 1)
  BY <1>3 DEF WalkCovers
<1>7. w.at <= Len(w.set)
  BY <1>2
<1>8. WalkInv(c, fa, p, w)
  BY <1>2, <1>5, <1>6, <1>7 DEF WalkInv
<1>. QED
  BY <1>2, <1>8 DEF w

\* No pair is met twice, so there are not more than there are pairs.
LEMMA WalkShort ==
  ASSUME NEW c, NEW fa, NEW p, NEW w, WalkSound(c, fa, p, w)
  PROVE  Len(w.set) <= Cardinality(Modules) * Cardinality(Names)
<1>1. IsFiniteSet(Named) /\ Cardinality(Named) = Cardinality(Modules) * Cardinality(Names)
  BY NamesAssumption, FS_Product DEF Named
<1>2. w.set \in Seq(Named) /\ Len(w.set) \in Nat /\ \A i, j \in 1..Len(w.set) : w.set[i] = w.set[j] => i = j
  BY WalkFields DEF WalkSound
<1>3. w.set \in [1..Len(w.set) -> Named]
  BY <1>2
<1>4. IsFiniteSet(1..Len(w.set)) /\ Cardinality(1..Len(w.set)) = Len(w.set)
  <2> DEFINE N == Len(w.set)
  <2>1. N \in Int /\ N \in Nat
    BY <1>2
  <2>. HIDE DEF N
  <2>2. IsFiniteSet(1..N) /\ Cardinality(1..N) = IF 1 > N THEN 0 ELSE N - 1 + 1
    BY <2>1, FS_Interval
  <2>3. (IF 1 > N THEN 0 ELSE N - 1 + 1) = N
    BY <2>1
  <2>. QED
    BY <2>2, <2>3 DEF N
<1>5. CASE Cardinality(Named) < Len(w.set)
  <2> DEFINE s == w.set
             S == 1..Len(w.set)
  <2>1. s \in [S -> Named] /\ IsFiniteSet(S) /\ Cardinality(Named) < Cardinality(S)
    BY <1>3, <1>4, <1>5
  <2>2. \E i, j \in S : i # j /\ s[i] = s[j]
    <3>. HIDE DEF s, S
    <3>. QED
      BY <1>1, <2>1, FS_PigeonHole
  <2>. QED
    BY <1>2, <2>2
<1>6. Cardinality(Named) \in Nat
  BY <1>1, FS_CardinalityType
<1>. QED
  BY <1>1, <1>2, <1>5, <1>6

\* The walk comes to its end.
LEMMA ResolveEnds ==
  ASSUME NEW c \in Programs, Plain(c), NEW fa, NEW hn, NEW x, NsOK(c, hn, x),
         NEW m \in Modules, NEW n \in Names
  PROVE  LET s == ResolveExport(c, fa, hn, x, m, n)
         IN WalkInv(c, fa, <<m, n>>, s) /\ s.done
<1> DEFINE N == Cardinality(Modules) * Cardinality(Names)
           p == <<m, n>>
           w0 == [set |-> <<p>>, at |-> 1, type |-> "not_found", result |-> <<>>, done |-> FALSE]
           turn(s) == IF s.done THEN s ELSE ResolveTurn(c, fa, hn, x, s)
           E(g) == g = [k \in 0..N |-> IF k = 0 THEN {w0} ELSE {turn(s) : s \in g[k - 1]}]
<1>1. N \in Nat
  BY NamesAssumption, FS_CardinalityType
<1>2. p \in Named /\ p \in Refs
  BY DEF Named, Refs
<1>3. ResolveExport(c, fa, hn, x, m, n) = CHOOSE s \in (CHOOSE g : E(g))[N] : TRUE
  BY DEF ResolveExport
<1>. HIDE DEF p
<1>4. WalkInv(c, fa, p, w0) /\ w0.at = 1 /\ ~ w0.done
  BY <1>2, WalkBegins
<1>. HIDE DEF w0, N
<1>5. ASSUME NEW s, WalkInv(c, fa, p, s), ~ s.done
      PROVE  turn(s) = ResolveTurn(c, fa, hn, x, s) /\ WalkInv(c, fa, p, turn(s)) /\ turn(s).at = s.at + 1
  BY <1>2, <1>5, TurnOK
<1>6. \A s : s.done => turn(s) = s
  OBVIOUS
<1>. HIDE DEF turn
<1>7. \E g : E(g)
  <2> DEFINE U == {s \in Walks : WalkInv(c, fa, p, s)}
             h == [i \in 1..N |-> [s \in U |-> turn(s)]]
  <2>1. \A s : WalkInv(c, fa, p, s) => s \in U
    BY DEF WalkInv, WalkSound
  <2>2. \A s \in U : turn(s) \in U
    BY <1>5, <1>6, <2>1
  <2>3. w0 \in U /\ h \in [1..N -> [U -> U]]
    BY <1>4, <2>1, <2>2
  <2>4. \E f : Repeats(U, h, w0, N, f)
    <3>. HIDE DEF U, h
    <3>. QED
      BY <1>1, <2>3, RepeatExists
  <2>5. PICK f : f \in [0..N -> U] /\ f[0] = w0 /\ \A i \in 1..N : f[i] = h[i][f[i - 1]]
    BY <2>4 DEF Repeats
  <2> DEFINE g == [k \in 0..N |-> {f[k]}]
  <2>6. ASSUME NEW k \in 0..N PROVE g[k] = IF k = 0 THEN {w0} ELSE {turn(s) : s \in g[k - 1]}
    <3>1. CASE k = 0
      BY <2>5, <3>1
    <3>2. CASE k # 0
      <4>1. k \in 1..N /\ k - 1 \in 0..N
        BY <1>1, <3>2
      <4>2. f[k] = turn(f[k - 1])
        BY <2>5, <4>1
      <4>3. g[k - 1] = {f[k - 1]} /\ g[k] = {turn(f[k - 1])}
        BY <4>1, <4>2
      <4>. HIDE DEF g
      <4>. QED
        BY <3>2, <4>3
    <3>. QED
      BY <3>1, <3>2
  <2>7. E(g)
    <3>1. g = [k \in 0..N |-> g[k]]
      OBVIOUS
    <3>. HIDE DEF g
    <3>. QED
      BY <2>6, <3>1
  <2>. QED
    BY <2>7
<1>8. PICK g : E(g) /\ ResolveExport(c, fa, hn, x, m, n) = CHOOSE s \in g[N] : TRUE
  <2>. HIDE DEF E
  <2>. QED
    BY <1>3, <1>7
<1>9. g[0] = {w0} /\ \A k \in 1..N : g[k] = {turn(s) : s \in g[k - 1]}
  <2>1. \A k \in 0..N : g[k] = IF k = 0 THEN {w0} ELSE {turn(s) : s \in g[k - 1]}
    BY <1>8
  <2>2. \A k \in 1..N : k \in 0..N /\ k # 0
    BY <1>1
  <2>3. 0 \in 0..N
    BY <1>1
  <2>. QED
    BY <2>1, <2>2, <2>3
<1>. HIDE DEF E
<1> DEFINE Good(k) == \E s : g[k] = {s} /\ WalkInv(c, fa, p, s) /\ (s.done \/ s.at = k + 1)
<1>10. \A k \in 0..N : Good(k)
  <2> DEFINE T == {k \in 0..N : ~ Good(k)}
  <2>. SUFFICES ASSUME T # {} PROVE FALSE
    OBVIOUS
  <2>1. T \in SUBSET Nat
    OBVIOUS
  <2>2. PICK k \in T : \A i \in T : k <= i
    BY <2>1, LeastNumber
  <2>3. Good(0)
    BY <1>4, <1>9
  <2>4. k \in 1..N /\ k - 1 \in 0..N /\ k - 1 \notin T
    BY <1>1, <2>2, <2>3
  <2>5. PICK s : g[k - 1] = {s} /\ WalkInv(c, fa, p, s) /\ (s.done \/ s.at = k - 1 + 1)
    BY <2>4
  <2>6. g[k] = {turn(s)}
    BY <1>9, <2>4, <2>5
  <2>7. CASE s.done
    <3>1. Good(k)
      BY <1>6, <2>5, <2>6, <2>7
    <3>. QED
      BY <2>2, <3>1
  <2>8. CASE ~ s.done
    <3>1. WalkInv(c, fa, p, turn(s)) /\ turn(s).at = s.at + 1
      BY <1>5, <2>5, <2>8
    <3>2. turn(s).at = k + 1
      BY <2>4, <2>5, <2>8, <3>1
    <3>3. Good(k)
      BY <2>6, <3>1, <3>2
    <3>. QED
      BY <2>2, <3>3
  <2>. QED
    BY <2>7, <2>8
<1>11. N \in 0..N
  BY <1>1
<1>12. PICK s : g[N] = {s} /\ WalkInv(c, fa, p, s) /\ (s.done \/ s.at = N + 1)
  BY <1>10, <1>11
<1>13. s.done
  <2>1. Len(s.set) <= N
    BY <1>12, WalkShort DEF WalkInv, N
  <2>2. Len(s.set) \in Nat
    BY <1>12, WalkFields DEF WalkInv, WalkSound
  <2>3. ~ s.done => s.at <= Len(s.set)
    BY <1>12 DEF WalkInv
  <2>. QED
    BY <1>1, <1>12, <2>1, <2>2, <2>3
<1>14. ResolveExport(c, fa, hn, x, m, n) = s
  BY <1>8, <1>12
<1>. QED
  BY <1>12, <1>13, <1>14 DEF p

\* A result of the search for n in m is right: what was found is meant, what
\* is ambiguous has two meanings, and where all is solid there is no other one.
ResultRight(c, fa, m, n, s) ==
  /\ s.type \in {"not_found", "circular", "found", "ambiguous", "error"}
  /\ s.type = "found" => s.result \in Meaning(c, <<m, n>>)
  /\ s.type = "ambiguous" => \E a, b \in Meaning(c, <<m, n>>) : a # b
  /\ s.type = "error" => \E k \in fa : Leads(c, m, k, Modules)
  /\ AllSolid(c, m) =>
       /\ s.type = "found" => Meaning(c, <<m, n>>) = {s.result}
       /\ s.type \in {"not_found", "circular"} => Meaning(c, <<m, n>>) = {}

\* What ecma_module_resolve_export returns is right.
LEMMA ResolveRight ==
  ASSUME NEW c \in Programs, Plain(c), NEW fa, NEW hn, NEW x, NsOK(c, hn, x),
         NEW m \in Modules, NEW n \in Names, NEW s, s = ResolveExport(c, fa, hn, x, m, n)
  PROVE  ResultRight(c, fa, m, n, s)
<1> DEFINE p == <<m, n>>
<1>1. WalkInv(c, fa, p, s) /\ s.done
  BY ResolveEnds
<1>2. p \in Refs /\ p[1] = m
  BY DEF Refs
<1>. HIDE DEF p
<1>3. WalkSound(c, fa, p, s) /\ s \in Walks
  BY <1>1 DEF WalkInv, WalkSound
<1>4. s.type \in {"not_found", "circular", "found", "ambiguous", "error"}
  BY <1>3, WalkFields
<1>5. s.type = "found" => s.result \in Meaning(c, p)
  BY <1>3 DEF WalkSound
<1>6. s.type = "ambiguous" => \E a, b \in Meaning(c, p) : a # b
  BY <1>3 DEF WalkSound
<1>7. s.type = "error" => \E k \in fa : Leads(c, m, k, Modules)
  BY <1>2, <1>3 DEF WalkSound
<1>8. ASSUME AllSolid(c, m), s.type \in {"not_found", "circular", "found"}
      PROVE  Meaning(c, p) \subseteq Found(s)
  <2> DEFINE D == ToSet(s.set)
  <2>1. s.at > Len(s.set) /\ WalkCovers(c, p, s, s.at - 1)
    BY <1>1, <1>2, <1>8 DEF WalkInv
  <2>2. Len(s.set) \in Nat /\ s.at \in Nat /\ D = {s.set[i] : i \in 1..Len(s.set)}
        /\ \A i \in 1..Len(s.set) : s.set[i] \in Refs
    BY <1>3, WalkFields
  <2>3. \A i \in 1..Len(s.set) : i <= s.at - 1
    BY <2>1, <2>2
  <2>4. \A i \in 1..Len(s.set) :
           \/ Meaning(c, s.set[i]) \subseteq Found(s)
           \/ ~ Bound(c, s.set[i]) /\ LeadsTo(c, s.set[i]) \subseteq D
    BY <1>2, <1>8, <2>1, <2>3 DEF WalkCovers
  <2>5. D \in SUBSET Refs
    BY <2>2
  <2>6. \A q \in D : Meaning(c, q) \subseteq Found(s) \/ (~ Bound(c, q) /\ LeadsTo(c, q) \subseteq D)
    BY <2>2, <2>4
  <2>7. p \in D
    <3>1. s.set # <<>> /\ s.set[1] = p
      BY <1>3 DEF WalkSound
    <3>2. 1 \in 1..Len(s.set)
      <4>1. s.set \in Seq(Named)
        BY <1>3, WalkFields
      <4>. QED
        BY <2>2, <3>1, <4>1
    <3>. QED
      BY <2>2, <3>1, <3>2
  <2>. HIDE DEF D
  <2>. QED
    BY <2>5, <2>6, <2>7, MeaningCover
<1>9. ASSUME AllSolid(c, m), s.type = "found" PROVE Meaning(c, p) = {s.result}
  BY <1>5, <1>8, <1>9 DEF Found
<1>10. ASSUME AllSolid(c, m), s.type \in {"not_found", "circular"} PROVE Meaning(c, p) = {}
  BY <1>8, <1>10 DEF Found
<1>. QED
  BY <1>4, <1>5, <1>6, <1>7, <1>9, <1>10 DEF p, ResultRight

-----------------------------------------------------------------------------
(* Namespaces and imports                                                  *)

\* The modules around m that "export *" leads to.
LEMMA StarFacts ==
  ASSUME NEW c \in Programs, NEW m \in Modules
  PROVE  /\ m \in StarReach(c, m) /\ StarReach(c, m) \in SUBSET Modules
         /\ \A k \in StarReach(c, m) : ToSet(c[k].star) \subseteq StarReach(c, m)
         /\ \A C \in SUBSET Modules :
              m \in C /\ (\A k \in C : ToSet(c[k].star) \subseteq C) => StarReach(c, m) \subseteq C
         /\ \A k \in StarReach(c, m) : Leads(c, m, k, Modules)
<1> DEFINE R == [k \in Modules |-> ToSet(c[k].star)]
<1>1. LeastShut(Modules, R, {m}, StarReach(c, m))
  BY StarReachLeast
<1>2. m \in StarReach(c, m) /\ StarReach(c, m) \in SUBSET Modules
  BY <1>1 DEF LeastShut
<1>3. \A k \in StarReach(c, m) : ToSet(c[k].star) \subseteq StarReach(c, m)
  BY <1>1, <1>2 DEF LeastShut
<1>4. ASSUME NEW C \in SUBSET Modules, m \in C, \A k \in C : ToSet(c[k].star) \subseteq C
      PROVE  StarReach(c, m) \subseteq C
  <2>1. \A k \in C : R[k] \subseteq C
    BY <1>4
  <2>2. {m} \subseteq C
    BY <1>4
  <2>. QED
    BY <1>1, <2>1, <2>2 DEF LeastShut
<1> DEFINE L == {k \in Modules : Leads(c, m, k, Modules)}
<1>5. m \in L
  BY LeadsSelf
<1>6. ASSUME NEW k \in L, NEW t \in ToSet(c[k].star) PROVE t \in L
  <2>1. t \in Modules /\ t \in Succ(c, k)
    BY BodyFacts
  <2>2. Leads(c, k, t, Modules)
    BY <2>1, LeadsStep
  <2>. QED
    BY <2>1, <2>2, LeadsOn
<1>7. StarReach(c, m) \subseteq L
  BY <1>4, <1>5, <1>6
<1>. QED
  BY <1>2, <1>3, <1>4, <1>7

\* Where all is solid, a name of the star exports of m that means something in
\* one of the modules means something in m,
LEMMA StarMeaning ==
  ASSUME NEW c \in Programs, NEW m \in Modules, AllSolid(c, m), NEW n \in Names, n # Default,
         NEW k \in StarReach(c, m), Meaning(c, <<k, n>>) # {}
  PROVE  Meaning(c, <<m, n>>) # {}
<1>. SUFFICES ASSUME Meaning(c, <<m, n>>) = {} PROVE FALSE
  OBVIOUS
<1> DEFINE C == {j \in StarReach(c, m) : Meaning(c, <<j, n>>) = {}}
<1>1. m \in C /\ C \in SUBSET Modules
  BY StarFacts
<1>2. ASSUME NEW j \in C, NEW t \in ToSet(c[j].star) PROVE t \in C
  <2>1. j \in Modules /\ Solid(c, j)
    BY <1>1, StarFacts DEF AllSolid
  <2>2. n \notin OwnNames(c[j])
    BY <2>1 DEF Solid
  <2>3. <<j, n>> \in Refs /\ <<t, n>> \in LeadsTo(c, <<j, n>>)
    BY <2>1, <2>2, OtherMeaning
  <2>4. Meaning(c, <<t, n>>) \subseteq Meaning(c, <<j, n>>)
    BY <2>3, MeaningFacts
  <2>5. t \in StarReach(c, m)
    BY StarFacts
  <2>. QED
    BY <2>4, <2>5
<1>3. StarReach(c, m) \subseteq C
  BY <1>1, <1>2, StarFacts
<1>. QED
  BY <1>3

\* and a name that none of them exports by itself means nothing.
LEMMA StarNothing ==
  ASSUME NEW c \in Programs, NEW m \in Modules, NEW n \in Names,
         \A k \in StarReach(c, m) : n \notin OwnNames(c[k])
  PROVE  Meaning(c, <<m, n>>) = {}
<1>1. CASE n = Default
  BY <1>1, StarFacts, OtherMeaning
<1>2. CASE n # Default
  <2> DEFINE D == {<<k, n>> : k \in StarReach(c, m)}
             p == <<m, n>>
             X == {}
  <2>1. p \in D /\ D \in SUBSET Refs
    BY StarFacts DEF Refs
  <2>2. ASSUME NEW q \in D PROVE ~ Bound(c, q) /\ LeadsTo(c, q) \subseteq D
    <3>1. PICK k \in StarReach(c, m) : q = <<k, n>>
      OBVIOUS
    <3>2. k \in Modules /\ ToSet(c[k].star) \subseteq StarReach(c, m)
      BY StarFacts
    <3>3. ~ Bound(c, q) /\ LeadsTo(c, q) = {<<t, n>> : t \in ToSet(c[k].star)}
      BY <1>2, <3>1, <3>2, OtherMeaning
    <3>. QED
      BY <3>2, <3>3
  <2>. HIDE DEF D, p
  <2>3. Meaning(c, p) \subseteq X
    <3>. HIDE DEF X
    <3>. QED
      BY <2>1, <2>2, MeaningCover
  <2>. QED
    BY <2>3 DEF p
<1>. QED
  BY <1>1, <1>2

\* ecma_module_create_namespace_object makes a namespace that is right, or
\* there is a reason why it cannot.
LEMMA CreateNamespaceRight ==
  ASSUME NEW c \in Programs, Plain(c), NEW fa, NEW hn, NEW x, NsOK(c, hn, x),
         NEW m \in Modules, m \notin hn, NEW r, r = CreateNamespace(c, fa, hn, x, m)
  PROVE  /\ r.ok => NsRight(c, m, r.exports)
         /\ ~ r.ok => \E k \in Modules : Leads(c, m, k, Modules) /\ (k \in fa \/ ~ Solid(c, k))
<1> DEFINE offered(k) == IF k = m THEN OwnNames(c[m])
                         ELSE (IF k \in hn THEN DOMAIN x[k] ELSE OwnNames(c[k])) \ {Default}
           names == UNION {offered(k) : k \in StarReach(c, m)}
           result == [n \in names |-> ResolveExport(c, fa, hn, x, m, n)]
           found == {n \in names : result[n].type = "found"}
<1>1. r = [ok |-> \A n \in names : result[n].type \in {"found", "ambiguous"},
           exports |-> [n \in found |-> result[n].result]]
  BY DEF CreateNamespace
<1>2. /\ r.ok <=> \A n \in names : result[n].type \in {"found", "ambiguous"}
      /\ r.exports = [n \in found |-> result[n].result]
  <2>. HIDE DEF names, result, found
  <2>. QED
    BY <1>1
<1>3. ASSUME NEW k \in StarReach(c, m)
      PROVE  /\ k \in Modules /\ offered(k) \subseteq Names
             /\ \A n \in Names : n \in OwnNames(c[k]) /\ n # Default => n \in offered(k)
  <2>1. k \in Modules /\ OwnNames(c[k]) \subseteq Names /\ OwnNames(c[m]) \subseteq Names
    BY StarFacts, GoalFacts
  <2>2. k \in hn => DOMAIN x[k] \subseteq Names /\ OwnNames(c[k]) \subseteq DOMAIN x[k]
    BY DEF NsOK, NsRight
  <2>. QED
    BY <2>1, <2>2
<1>4. names \subseteq Names
  BY <1>3
<1>5. \A n \in OwnNames(c[m]) : n \in names
  BY StarFacts
<1>6. ASSUME AllSolid(c, m), NEW n \in names PROVE Meaning(c, <<m, n>>) # {}
  <2>1. PICK k \in StarReach(c, m) : n \in offered(k)
    BY <1>6
  <2>2. n \in Names /\ k \in Modules /\ Leads(c, m, k, Modules)
    BY <1>3, <1>4, <1>6, StarFacts
  <2>3. Solid(c, k) /\ Solid(c, m)
    BY <1>6, <2>2, LeadsSelf DEF AllSolid
  <2>4. CASE k = m
    BY <2>1, <2>3, <2>4 DEF Solid
  <2>5. CASE k # m
    <3>1. n # Default /\ n \in IF k \in hn THEN DOMAIN x[k] ELSE OwnNames(c[k])
      BY <2>1, <2>5
    <3>2. Meaning(c, <<k, n>>) # {}
      <4>1. CASE k \in hn
        <5>1. NsRight(c, k, x[k])
          BY <4>1 DEF NsOK
        <5>. QED
          BY <3>1, <4>1, <5>1 DEF NsRight
      <4>2. CASE k \notin hn
        BY <2>3, <3>1, <4>2 DEF Solid
      <4>. QED
        BY <4>1, <4>2
    <3>. QED
      BY <1>6, <2>2, <3>1, <3>2, StarMeaning
  <2>. QED
    BY <2>4, <2>5
<1>7. ASSUME NEW n \in Names, n \notin names PROVE Meaning(c, <<m, n>>) = {}
  <2>1. n \notin OwnNames(c[m])
    BY <1>5, <1>7
  <2>2. CASE n = Default
    BY <2>1, <2>2, OtherMeaning
  <2>3. CASE n # Default
    <3>1. \A k \in StarReach(c, m) : n \notin OwnNames(c[k])
      BY <1>3, <1>7, <2>3
    <3>. QED
      BY <3>1, StarNothing
  <2>. QED
    BY <2>2, <2>3
<1>8. ASSUME NEW n \in names PROVE ResultRight(c, fa, m, n, result[n])
  <2>1. result[n] = ResolveExport(c, fa, hn, x, m, n) /\ n \in Names
    BY <1>4, <1>8
  <2>. HIDE DEF result
  <2>. QED
    BY <2>1, ResolveRight
<1>9. DOMAIN r.exports = found /\ \A n \in found : r.exports[n] = result[n].result
  <2>. HIDE DEF found, result
  <2>. QED
    BY <1>2
<1>10. \A n : n \in found <=> n \in names /\ result[n].type = "found"
  <2>. HIDE DEF names, result
  <2>. QED
    OBVIOUS
<1>. HIDE DEF names, result, found, offered
<1>11. ASSUME r.ok PROVE NsRight(c, m, r.exports)
  <2> DEFINE y == r.exports
  <2>0. DOMAIN y = found /\ \A n \in found : y[n] = result[n].result
    BY <1>9
  <2>. HIDE DEF y
  <2>1. \A n \in names : result[n].type \in {"found", "ambiguous"}
    BY <1>2, <1>11
  <2>2. DOMAIN y \subseteq Names
    BY <1>4, <1>10, <2>0
  <2>3. ASSUME NEW a \in names, Meaning(c, <<m, a>>) = {} \/ \E z : Meaning(c, <<m, a>>) = {z}
        PROVE  a \in DOMAIN y
    <3>1. result[a].type # "ambiguous"
      BY <1>8, <2>3 DEF ResultRight
    <3>. QED
      BY <1>10, <2>0, <2>1, <2>3, <3>1
  <2>4. ASSUME NEW a \in OwnNames(c[m]) PROVE a \in DOMAIN y
    <3>1. Meaning(c, <<m, a>>) = {} \/ \E z : Meaning(c, <<m, a>>) = {z}
      BY <2>4, OwnMeaning
    <3>. QED
      BY <1>5, <2>3, <3>1
  <2>5. \A a \in DOMAIN y : y[a] \in Meaning(c, <<m, a>>)
    BY <1>8, <1>10, <2>0 DEF ResultRight
  <2>6. ASSUME AllSolid(c, m), NEW a \in Names
        PROVE  a \in DOMAIN y <=> \E z : Meaning(c, <<m, a>>) = {z}
    <3>1. ASSUME a \in DOMAIN y PROVE \E z : Meaning(c, <<m, a>>) = {z}
      BY <1>8, <1>10, <2>0, <2>6, <3>1 DEF ResultRight
    <3>2. ASSUME NEW z, Meaning(c, <<m, a>>) = {z} PROVE a \in DOMAIN y
      <4>1. a \in names
        BY <1>7, <3>2
      <4>. QED
        BY <2>3, <3>2, <4>1
    <3>. QED
      BY <3>1, <3>2
  <2>7. NsRight(c, m, y)
    BY <2>2, <2>4, <2>5, <2>6 DEF NsRight
  <2>. QED
    BY <2>7 DEF y
<1>12. ASSUME ~ r.ok PROVE \E k \in Modules : Leads(c, m, k, Modules) /\ (k \in fa \/ ~ Solid(c, k))
  <2>1. PICK n \in names : result[n].type \notin {"found", "ambiguous"}
    BY <1>2, <1>12
  <2>2. result[n].type \in {"not_found", "circular", "error"}
    BY <1>8, <2>1 DEF ResultRight
  <2>3. CASE result[n].type = "error"
    <3>1. PICK k \in fa : Leads(c, m, k, Modules)
      BY <1>8, <2>3 DEF ResultRight
    <3>2. k \in Modules
      <4>1. Closed(c, Modules, Modules)
        BY GoalFacts DEF Closed
      <4>. QED
        BY <3>1, <4>1 DEF Leads
    <3>. QED
      BY <3>1, <3>2
  <2>4. CASE result[n].type \in {"not_found", "circular"}
    <3>1. ~ AllSolid(c, m)
      BY <1>6, <1>8, <2>4 DEF ResultRight
    <3>. QED
      BY <3>1 DEF AllSolid
  <2>. QED
    BY <2>2, <2>3, <2>4
<1>. QED
  BY <1>11, <1>12

\* What a module asks for are references to modules that it imports.
LEMMA RequestFacts ==
  ASSUME NEW c \in Programs, NEW m \in Modules, NEW r \in Requests(c[m])
  PROVE  r \in Refs /\ r[1] \in Modules /\ (r[2] # Star => r[2] \in Names) /\ r = <<r[1], r[2]>>
         /\ Leads(c, m, r[1], Modules)
<1>1. PICK i \in 1..Arity(c, m) : \E n \in c[m].imports[i].names : r = <<c[m].imports[i].to, n>>
  BY DEF Requests, Arity
<1>2. PICK n \in c[m].imports[i].names : r = <<c[m].imports[i].to, n>>
  BY <1>1
<1>3. c[m].imports \in Seq([to : Modules, names : SUBSET (Names \cup {Star})])
  BY BodyFacts
<1>4. c[m].imports[i] \in [to : Modules, names : SUBSET (Names \cup {Star})]
  <2>1. i \in 1..Len(c[m].imports)
    BY DEF Arity
  <2> DEFINE N == [to : Modules, names : SUBSET (Names \cup {Star})]
  <2>2. c[m].imports \in Seq(N)
    BY <1>3
  <2>. HIDE DEF N
  <2>3. c[m].imports[i] \in N
    BY <2>1, <2>2
  <2>. QED
    BY <2>3 DEF N
<1>5. c[m].imports[i].to \in Modules /\ n \in Names \cup {Star}
  BY <1>4
<1>6. r[1] = c[m].imports[i].to /\ r[2] = n
  BY <1>2
<1>7. r[1] \in Succ(c, m)
  <2>1. Goals(c, m)[i] = r[1]
    BY <1>6 DEF Goals
  <2>. QED
    BY <2>1 DEF Succ
<1>8. Leads(c, m, r[1], Modules)
  BY <1>5, <1>6, <1>7, LeadsStep
<1>. QED
  BY <1>2, <1>5, <1>6, <1>8 DEF Refs

\* ecma_module_connect_imports finds the imports, or there is a reason why it
\* cannot.
LEMMA ConnectRight ==
  ASSUME NEW c \in Programs, Plain(c), NEW fa, NEW hn, NEW x, NsOK(c, hn, x),
         NEW m \in Modules, AllSolid(c, m), NEW r, r = ConnectImports(c, fa, hn, x, m)
  PROVE  /\ r.ok => EnvRight(c, m, r.imports)
         /\ ~ r.ok => \E k \in Modules : Leads(c, m, k, Modules) /\ (k \in fa \/ Broken(c, k))
<1> DEFINE Q == Requests(c[m])
           result == [q \in Q |-> IF q[2] = Star THEN [type |-> "found", result |-> q]
                                  ELSE ResolveExport(c, fa, hn, x, q[1], q[2])]
<1>1. r = [ok |-> ~ c[m].shadows /\ \A q \in DOMAIN result : result[q].type = "found",
           imports |-> [q \in DOMAIN result |-> result[q].result]]
  BY DEF ConnectImports
<1>2. DOMAIN result = Q
  OBVIOUS
<1>3. ASSUME NEW q \in Q, q[2] = Star
      PROVE  result[q].type = "found" /\ Meaning(c, q) = {result[q].result}
  <2>1. result[q].type = "found" /\ result[q].result = q
    BY <1>3
  <2>2. q \in Refs
    BY RequestFacts
  <2>3. Meaning(c, q) = {q}
    BY <1>3, <2>2, MeaningFacts DEF Bound
  <2>. QED
    BY <2>1, <2>3
<1>4. ASSUME NEW q \in Q, q[2] # Star
      PROVE  ResultRight(c, fa, q[1], q[2], result[q])
  <2>1. result[q] = ResolveExport(c, fa, hn, x, q[1], q[2])
    BY <1>4
  <2>2. q[1] \in Modules /\ q[2] \in Names
    BY <1>4, RequestFacts
  <2>. HIDE DEF result
  <2>. QED
    BY <2>1, <2>2, ResolveRight
<1>. HIDE DEF result
<1>5. /\ r.ok <=> ~ c[m].shadows /\ \A q \in Q : result[q].type = "found"
      /\ r.imports = [q \in Q |-> result[q].result]
  <2> DEFINE ok == ~ c[m].shadows /\ \A q \in DOMAIN result : result[q].type = "found"
             imports == [q \in DOMAIN result |-> result[q].result]
  <2>1. r = [ok |-> ok, imports |-> imports]
    BY <1>1
  <2>2. r.ok = ok /\ r.imports = imports
    <3>. HIDE DEF ok, imports
    <3>. QED
      BY <2>1
  <2>3. r.ok <=> ~ c[m].shadows /\ \A q \in Q : result[q].type = "found"
    BY <1>2, <2>2
  <2>4. imports = [q \in Q |-> result[q].result]
    BY <1>2
  <2>. QED
    BY <2>2, <2>3, <2>4
<1>. HIDE DEF Q
<1>6. \A q \in Q : /\ q \in Refs /\ q = <<q[1], q[2]>> /\ AllSolid(c, q[1]) /\ Leads(c, m, q[1], Modules)
  <2>1. \A q \in Q : q \in Refs /\ q = <<q[1], q[2]>> /\ Leads(c, m, q[1], Modules)
    BY RequestFacts DEF Q
  <2>. QED
    BY <2>1, SolidOn
<1>7. ASSUME r.ok PROVE EnvRight(c, m, r.imports)
  <2>1. \A q \in Q : result[q].type = "found"
    BY <1>5, <1>7
  <2>2. ASSUME NEW q \in Q PROVE Meaning(c, q) = {result[q].result}
    <3>1. CASE q[2] = Star
      BY <1>3, <3>1
    <3>2. CASE q[2] # Star
      <4>1. Meaning(c, <<q[1], q[2]>>) = {result[q].result}
        BY <1>4, <1>6, <2>1, <3>2 DEF ResultRight
      <4>. QED
        BY <1>6, <4>1
    <3>. QED
      BY <3>1, <3>2
  <2> DEFINE y == r.imports
  <2>3. DOMAIN y = Q /\ \A q \in Q : y[q] = result[q].result
    BY <1>5
  <2>. HIDE DEF y
  <2>4. EnvRight(c, m, y)
    BY <2>2, <2>3 DEF EnvRight, Q
  <2>. QED
    BY <2>4 DEF y
<1>8. ASSUME ~ r.ok
      PROVE \E k \in Modules : Leads(c, m, k, Modules) /\ (k \in fa \/ Broken(c, k))
  <2>1. CASE c[m].shadows
    <3>1. Broken(c, m)
      BY <2>1 DEF Broken
    <3>. QED
      BY <3>1, LeadsSelf
  <2>2. CASE ~ c[m].shadows
    <3>1. PICK q \in Q : result[q].type # "found"
      BY <1>5, <1>8, <2>2
    <3>2. q[2] # Star
      BY <1>3, <3>1
    <3>3. ResultRight(c, fa, q[1], q[2], result[q])
      BY <1>4, <3>2
    <3>4. CASE result[q].type = "error"
      <4>1. PICK k \in fa : Leads(c, q[1], k, Modules)
        BY <3>3, <3>4 DEF ResultRight
      <4>2. Leads(c, m, k, Modules)
        BY <1>6, <4>1, LeadsOn
      <4>3. k \in Modules
        <5>1. Closed(c, Modules, Modules)
          BY GoalFacts DEF Closed
        <5>. QED
          BY <4>2, <5>1 DEF Leads
      <4>. QED
        BY <4>1, <4>2, <4>3
    <3>5. CASE result[q].type # "error"
      <4>1. result[q].type \in {"not_found", "circular", "ambiguous"}
        BY <3>1, <3>3, <3>5 DEF ResultRight
      <4>2. ~ \E y : Meaning(c, <<q[1], q[2]>>) = {y}
        BY <1>6, <3>3, <4>1 DEF ResultRight
      <4>3. Cardinality(Meaning(c, q)) # 1
        BY <1>6, <4>2, MeaningCount
      <4>4. Broken(c, m)
        BY <4>3 DEF Broken, Meaning, Q
      <4>. QED
        BY <4>4, LeadsSelf
    <3>. QED
      BY <3>4, <3>5
  <2>. QED
    BY <2>1, <2>2
<1>. QED
  BY <1>7, <1>8

\* A module that is not solid is broken.
LEMMA BrokenIfNot ==
  ASSUME NEW c, NEW k, ~ Solid(c, k)
  PROVE  Broken(c, k)
BY DEF Solid, Broken, Meaning

-----------------------------------------------------------------------------
(* What linking comes to                                                   *)

\* No module is between getting its namespace and being linked.
Idle(fs) == PendingIn(fs) = {} /\ GrantedIn(fs) = {} /\ ConnectedIn(fs) = {}

\* The states of before and after a step that links nothing.
SameLinked(st, th, st1, th1) ==
  /\ th \subseteq th1 /\ \A m \in Modules : WasLinked(st1, th1, m) <=> WasLinked(st, th, m)
  /\ \A m \in Modules : st1[m] = "error" => st[m] = "error" \/ m \in th1
  /\ \A m \in th1 : st1[m] = "error"

\* More modules that threw are more reasons.
LEMMA SpoiledMore ==
  ASSUME NEW c, NEW th, NEW th1, th \subseteq th1, NEW m, Spoiled(c, th, m)
  PROVE  Spoiled(c, th1, m)
BY DEF Spoiled

\* A step that links nothing.
LEMMA QuietOutcome ==
  ASSUME NEW c, NEW P, NEW G, NEW K, NEW st, NEW hn, NEW x, NEW e, NEW th, NEW st1, NEW th1,
         OutcomeOK(c, P, G, K, st, hn, x, e, th), SameLinked(st, th, st1, th1), c \in Programs,
         NEW P1, NEW G1, NEW K1, P \subseteq P1, G1 \subseteq hn, K1 \subseteq K
  PROVE  OutcomeOK(c, P1, G1, K1, st1, hn, x, e, th1)
<1>1. \A m \in Modules : LinkedRight(c, P1, st1, hn, e, th1, m)
  <2>. SUFFICES ASSUME NEW m \in Modules, WasLinked(st1, th1, m)
                PROVE  /\ m \in hn /\ EnvRight(c, m, e[m])
                       /\ \A t \in Succ(c, m) : WasLinked(st1, th1, t) \/ t \in P1
    BY DEF LinkedRight
  <2>1. WasLinked(st, th, m) /\ LinkedRight(c, P, st, hn, e, th, m)
    BY DEF SameLinked, OutcomeOK
  <2>2. /\ m \in hn /\ EnvRight(c, m, e[m])
        /\ \A t \in Succ(c, m) : WasLinked(st, th, t) \/ t \in P
    BY <2>1 DEF LinkedRight
  <2>3. Succ(c, m) \subseteq Modules
    BY GoalFacts
  <2>4. \A t \in Modules : WasLinked(st, th, t) => WasLinked(st1, th1, t)
    BY DEF SameLinked
  <2>. QED
    BY <2>2, <2>3, <2>4
<1>2. \A m \in Modules : st1[m] = "error" => Spoiled(c, th1, m)
  <2>. SUFFICES ASSUME NEW m \in Modules, st1[m] = "error" PROVE Spoiled(c, th1, m)
    OBVIOUS
  <2>1. CASE m \in th1
    BY <2>1, LeadsSelf DEF Spoiled
  <2>2. CASE st[m] = "error"
    <3>1. Spoiled(c, th, m) /\ th \subseteq th1
      BY <2>2 DEF OutcomeOK, SameLinked
    <3>. QED
      BY <3>1, SpoiledMore
  <2>. QED
    BY <2>1, <2>2 DEF SameLinked
<1>3. /\ NsOK(c, hn, x) /\ Modules \subseteq DOMAIN e
      /\ \A m \in Modules : DOMAIN e[m] \subseteq Requests(c[m])
      /\ \A m \in K1 : EnvRight(c, m, e[m])
  BY DEF OutcomeOK
<1>. QED
  BY <1>1, <1>2, <1>3 DEF OutcomeOK, SameLinked

\* When the innermost call is no link, or a link that still searches.
LEMMA IdleFrames ==
  ASSUME NEW fs, LinkTop(fs) => Last(fs).pc \in Searching
  PROVE  Idle(fs)
<1>1. CASE ~ LinkTop(fs)
  BY <1>1 DEF Idle, PendingIn, GrantedIn, ConnectedIn
<1>2. CASE LinkTop(fs)
  <2>1. Last(fs).pc # "connect" /\ Last(fs).pc # "linked"
    BY <1>2 DEF Searching
  <2>2. Connected(Last(fs)) = {}
    BY <2>1 DEF Connected
  <2>3. Pending(Last(fs)) = {} /\ Granted(Last(fs)) = {}
    BY <1>2, SearchingFrame
  <2>. QED
    BY <1>2, <2>2, <2>3 DEF Idle, PendingIn, GrantedIn, ConnectedIn
<1>. QED
  BY <1>1, <1>2

\* When no module is LINKING, no link is in progress.
LEMMA NoLinkThen ==
  ASSUME NEW c, NEW fs, NEW ca, NEW st, NEW anc, NEW res, NEW hn,
         ModuleOK(c, fs, ca, st, anc, res, hn), \A k \in Modules : st[k] # "linking"
  PROVE  Idle(fs)
<1>1. ASSUME LinkTop(fs) PROVE FALSE
  <2>1. LinkOK(c, Last(fs), st, anc, res) /\ Last(fs) \in LinkFrames
    BY <1>1, LinkInProgress
  <2>2. Last(fs).stack # <<>> /\ Last(fs).stack \in Seq(StackItems)
    BY <2>1, LinkFields DEF LinkOK, PlaceInv
  <2>3. 1 \in 1..Len(Last(fs).stack)
    BY <2>2, EmptySeq
  <2>4. Last(fs).stack[1].m \in Modules
    BY <2>2, <2>3, ItemFields
  <2>. QED
    BY <2>1, <2>3, <2>4 DEF LinkOK, StackInv
<1>. QED
  BY <1>1, IdleFrames

\* A step that links nothing and leaves nothing in between.
LEMMA QuietIdle ==
  ASSUME ModuleInv, Outcome, Idle(frames), Idle(frames'),
         SameLinked(state, threw, state', threw'),
         code' = code, hasNs' = hasNs, ns' = ns, env' = env
  PROVE  Outcome'
<1>1. code \in Programs
  BY InvParts DEF ModuleOK, TypesOK
<1>2. OutcomeOK(code, {}, {}, {}, state, hasNs, ns, env, threw)
  BY DEF Outcome, Idle
<1>3. {} \subseteq hasNs /\ {} \subseteq {}
  OBVIOUS
<1>4. OutcomeOK(code, {}, {}, {}, state', hasNs, ns, env, threw')
  BY <1>1, <1>2, <1>3, QuietOutcome
<1>. QED
  BY <1>4 DEF Outcome, Idle

\* The states of a step that puts no module into LINKED.
LEMMA OneMoves ==
  ASSUME NEW st \in [Modules -> States], NEW th, \A k \in th : k \in Modules /\ st[k] = "error",
         NEW m \in Modules, NEW v, NEW st1, Put(st, m, v, st1), NEW th1,
         \/ st[m] \in Complete /\ v \in Complete /\ th1 = th
         \/ st[m] \in Complete /\ v = "error" /\ th1 = th \cup {m}
         \/ st[m] = "unlinked" /\ v = "linking" /\ th1 = th
  PROVE  SameLinked(st, th, st1, th1)
<1>1. st1[m] = v /\ \A k \in Modules : k # m => st1[k] = st[k]
  BY DEF Put
<1>2. m \notin th /\ th \subseteq th1
  BY DEF Complete
<1>3. \A k \in Modules : WasLinked(st1, th1, k) <=> WasLinked(st, th, k)
  BY <1>1, <1>2 DEF WasLinked, Complete
<1>4. \A k \in Modules : st1[k] = "error" => st[k] = "error" \/ k \in th1
  BY <1>1 DEF Complete
<1>5. \A k \in th1 : st1[k] = "error"
  BY <1>1, <1>2
<1>. QED
  BY <1>2, <1>3, <1>4, <1>5 DEF SameLinked

\* The states of a step that does not touch them.
LEMMA NoneMoves ==
  ASSUME NEW st, NEW th, \A k \in th : st[k] = "error"
  PROVE  SameLinked(st, th, st, th)
BY DEF SameLinked

\* What threw has failed.
LEMMA ThrewFailed ==
  ASSUME ModuleInv, Outcome
  PROVE  \A k \in threw : k \in Modules /\ state[k] = "error"
BY InvParts DEF RestOK, Outcome, OutcomeOK

\* A step outside of a link that leaves the states alone,
LEMMA NothingMoves ==
  ASSUME ModuleInv, Outcome, ModuleInv', ~ LinkTop(frames),
         code' = code, hasNs' = hasNs, ns' = ns, env' = env, state' = state, threw' = threw
  PROVE  Outcome'
<1>1. \A k \in Modules : state'[k] # "linking"
  BY InvParts, NoLinkNow
<1>2. Idle(frames) /\ Idle(frames')
  BY <1>1, InvPartsNext, IdleFrames, NoLinkThen
<1>3. SameLinked(state, threw, state', threw')
  BY ThrewFailed, NoneMoves
<1>. QED
  BY <1>2, <1>3, QuietIdle

\* or begins or ends an evaluation,
LEMMA EvaluationMoves ==
  ASSUME ModuleInv, Outcome, ModuleInv', ~ LinkTop(frames),
         code' = code, hasNs' = hasNs, ns' = ns, env' = env,
         NEW m \in Modules, NEW v, Put(state, m, v, state'), state[m] \in Complete,
         \/ v \in Complete /\ threw' = threw
         \/ v = "error" /\ threw' = threw \cup {m}
  PROVE  Outcome'
<1>1. state \in [Modules -> States] /\ \A k \in Modules : state[k] # "linking"
  BY InvParts, NoLinkNow
<1>2. \A k \in Modules : state'[k] # "linking"
  BY <1>1 DEF Put, Complete
<1>3. Idle(frames) /\ Idle(frames')
  BY <1>2, InvPartsNext, IdleFrames, NoLinkThen
<1>4. SameLinked(state, threw, state', threw')
  BY <1>1, ThrewFailed, OneMoves
<1>. QED
  BY <1>3, <1>4, QuietIdle

\* or begins a link.
LEMMA LinkMoves ==
  ASSUME ModuleInv, Outcome, ModuleInv', ~ LinkTop(frames),
         code' = code, hasNs' = hasNs, ns' = ns, env' = env, threw' = threw,
         NEW m \in Modules, state[m] = "unlinked", BeginLink(m, frames)
  PROVE  Outcome'
<1>1. state \in [Modules -> States] /\ ancestor \in [Modules -> Nat] /\ frames \in Seq(Frames) /\ code \in Programs
      /\ \A k \in Modules : state[k] # "linking"
  BY InvParts, NoLinkNow
<1>2. Put(state, m, "linking", state') /\ Called(frames, NewLink(m), frames')
  BY DEF BeginLink, Put, Called
<1>3. NewLink(m).pc = "resolve"
  BY DEF NewLink
<1>4. NewLink(m) \in Frames
  <2>1. NewLink(m).stack \in Seq(StackItems)
    BY DEF NewLink, StackItems
  <2>. QED
    BY <2>1 DEF NewLink, Frames, LinkFrames, Searching
<1>5. Last(frames') = NewLink(m)
  BY <1>1, <1>2, <1>4, CalledFrames
<1>6. Idle(frames) /\ Idle(frames')
  BY <1>3, <1>5, IdleFrames DEF Searching
<1>7. SameLinked(state, threw, state', threw')
  BY <1>1, <1>2, ThrewFailed, OneMoves
<1>. QED
  BY <1>6, <1>7, QuietIdle

\* The calls of the program and of esm_link_and_evaluate.
LEMMA CallsOutcome ==
  ASSUME ModuleInv, Outcome, ModuleInv',
         ImportLink \/ ImportEvaluate \/ \E m \in Modules : Link(m) \/ Evaluate(m)
  PROVE  Outcome'
<1>1. ASSUME NEW m \in Modules, Link(m) PROVE Outcome'
  <2>1. ~ LinkTop(frames)
    BY <1>1, UserCodeCalls DEF Link
  <2>. QED
    BY <1>1, <2>1, LinkMoves DEF Link
<1>2. ASSUME NEW m \in Modules, Evaluate(m) PROVE Outcome'
  <2>1. ~ LinkTop(frames)
    BY <1>2, UserCodeCalls DEF Evaluate
  <2>2. /\ code' = code /\ hasNs' = hasNs /\ ns' = ns /\ env' = env /\ threw' = threw
        /\ Put(state, m, "evaluating", state') /\ state[m] \in Complete /\ "evaluating" \in Complete
    BY <1>2 DEF Evaluate, BeginEvaluate, Put, link, Complete
  <2>. QED
    BY <2>1, <2>2, EvaluationMoves
<1>3. ASSUME NEW pc, Running("import", pc)
      PROVE  ~ LinkTop(frames) /\ Top.m \in Modules
  BY <1>3, RunningFrame, FrameKinds
<1>4. CASE ImportLink
  <2>1. Running("import", "link")
    BY <1>4 DEF ImportLink
  <2>2. ~ LinkTop(frames) /\ Top.m \in Modules
    BY <1>3, <2>1
  <2>3. code' = code /\ hasNs' = hasNs /\ ns' = ns /\ env' = env /\ threw' = threw
    BY <1>4 DEF ImportLink
  <2>4. CASE state[Top.m] = "unlinked"
    <3>1. BeginLink(Top.m, frames)
      BY <1>4, <2>4 DEF ImportLink
    <3>. QED
      BY <2>2, <2>3, <2>4, <3>1, LinkMoves
  <2>5. CASE state[Top.m] # "unlinked"
    <3>1. state' = state
      BY <1>4, <2>5 DEF ImportLink
    <3>. QED
      BY <2>2, <2>3, <3>1, NothingMoves
  <2>. QED
    BY <2>4, <2>5
<1>5. CASE ImportEvaluate
  <2>1. Running("import", "evaluate")
    BY <1>5 DEF ImportEvaluate
  <2>2. ~ LinkTop(frames) /\ Top.m \in Modules
    BY <1>3, <2>1
  <2>3. code' = code /\ hasNs' = hasNs /\ ns' = ns /\ env' = env /\ threw' = threw
    BY <1>5 DEF ImportEvaluate, link
  <2>4. CASE state[Top.m] = "linked"
    <3>1. Put(state, Top.m, "evaluating", state') /\ "evaluating" \in Complete /\ state[Top.m] \in Complete
      BY <1>5, <2>4 DEF ImportEvaluate, BeginEvaluate, Put, Complete
    <3>. QED
      BY <2>2, <2>3, <3>1, EvaluationMoves
  <2>5. CASE state[Top.m] # "linked"
    <3>1. state' = state
      BY <1>5, <2>5 DEF ImportEvaluate
    <3>. QED
      BY <2>2, <2>3, <3>1, NothingMoves
  <2>. QED
    BY <2>4, <2>5
<1>. QED
  BY <1>1, <1>2, <1>4, <1>5

\* The steps of an evaluation.
LEMMA EvaluationOutcome ==
  ASSUME ModuleInv, Outcome, ModuleInv',
         EvaluateImport \/ RunCode \/ ImportFailed \/ CodeReturns \/ CodeThrows
  PROVE  Outcome'
<1>1. PICK pc : Running("evaluate", pc)
  BY DEF EvaluateImport, RunCode, ImportFailed, CodeReturns, CodeThrows
<1> DEFINE m == Top.m
<1>2. /\ frames # <<>> /\ Top = Last(frames) /\ Last(frames).op = "evaluate" /\ Last(frames) \in Frames
      /\ Len(frames) \in 1..Len(frames) /\ Last(frames) = frames[Len(frames)]
      /\ ~ LinkTop(frames) /\ code \in Programs
  BY <1>1, RunningFrame
<1>3. m \in Modules /\ Top.node \in Nat \ {0}
  BY <1>2, FrameKinds
<1>4. EvalsOK(code, frames, state) /\ ClosedUp(code, state, resolved, {})
  BY <1>2, InvParts, NoLinkNow
<1>5. state[m] = "evaluating"
  BY <1>2, <1>3, <1>4 DEF EvalsOK, EvalAt
<1>6. code' = code /\ hasNs' = hasNs /\ ns' = ns /\ env' = env
  BY DEF EvaluateImport, RunCode, ImportFailed, CodeReturns, CodeThrows, link
<1>. HIDE DEF m
<1>7. state[m] \in Complete
  BY <1>5 DEF Complete
<1>8. CASE RunCode
  BY <1>2, <1>6, <1>8, NothingMoves DEF RunCode
<1>9. CASE CodeReturns
  <2>1. Put(state, m, "evaluated", state') /\ "evaluated" \in Complete /\ threw' = threw
    BY <1>9 DEF CodeReturns, Put, Complete, m
  <2>. QED
    BY <1>2, <1>3, <1>6, <1>7, <2>1, EvaluationMoves
<1>10. CASE CodeThrows \/ ImportFailed
  <2>1. Put(state, m, "error", state') /\ threw' = threw \cup {m}
    BY <1>10 DEF CodeThrows, ImportFailed, Put, m
  <2>. QED
    BY <1>2, <1>3, <1>6, <1>7, <2>1, EvaluationMoves
<1>11. CASE EvaluateImport
  <2> DEFINE t == Targets(m)[Top.node]
  <2>1. Top.node <= Arity(code, m) /\ threw' = threw
    BY <1>11 DEF EvaluateImport, Arity, m
  <2>2. Arity(code, m) \in Nat /\ Goals(code, m) \in [1..Arity(code, m) -> Modules] /\ Targets(m) = Goals(code, m)
    BY <1>2, <1>3, GoalFacts, TargetFacts
  <2>3. Top.node \in 1..Arity(code, m)
    BY <1>3, <2>1, <2>2
  <2>4. t \in Modules /\ t \in Succ(code, m)
    BY <2>2, <2>3 DEF Succ
  <2>5. state[t] \in Complete \cup {"error"}
    BY <1>3, <1>4, <1>7, <2>4 DEF ClosedUp
  <2>6. state' = state \/ (state[t] # "error" /\ Put(state, t, "evaluating", state'))
    BY <1>11 DEF EvaluateImport, BeginEvaluate, Put, m
  <2>. HIDE DEF t
  <2>7. CASE state' = state
    BY <1>2, <1>6, <2>1, <2>7, NothingMoves
  <2>8. CASE state[t] # "error" /\ Put(state, t, "evaluating", state')
    <3>1. state[t] \in Complete /\ "evaluating" \in Complete
      BY <2>5, <2>8 DEF Complete
    <3>. QED
      BY <1>2, <1>6, <2>1, <2>4, <2>8, <3>1, EvaluationMoves
  <2>. QED
    BY <2>6, <2>7, <2>8
<1>. QED
  BY <1>8, <1>9, <1>10, <1>11

\* A virtual module imports nothing and exports only its own bindings.
LEMMA VmodFacts ==
  ASSUME NEW c \in Programs, NEW m \in Modules, c[m].kind = "vmod"
  PROVE  /\ Succ(c, m) = {} /\ Requests(c[m]) = {} /\ Solid(c, m)
         /\ \A k : Leads(c, m, k, Modules) => k = m
<1>1. Arity(c, m) = 0
  BY GoalFacts
<1>2. Succ(c, m) = {} /\ Requests(c[m]) = {}
  BY <1>1 DEF Succ, Requests, Arity
<1>3. c[m].indirect = {}
  BY <1>2, BodyFacts
<1>4. OwnNames(c[m]) = c[m].local
  BY <1>3 DEF OwnNames
<1>5. Solid(c, m)
  BY <1>4, OwnMeaning DEF Solid
<1>6. Closed(c, {m}, Modules)
  BY <1>2 DEF Closed
<1>. QED
  BY <1>2, <1>5, <1>6 DEF Leads

\* Its namespace is right.
LEMMA VmodNamespace ==
  ASSUME NEW c \in Programs, Plain(c), NEW m \in Modules, c[m].kind = "vmod", NEW x
  PROVE  NsRight(c, m, CreateNamespace(c, {}, {}, x, m).exports)
<1> DEFINE r == CreateNamespace(c, {}, {}, x, m)
<1>1. NsOK(c, {}, x) /\ m \notin {}
  BY DEF NsOK
<1>2. /\ r.ok => NsRight(c, m, r.exports)
      /\ ~ r.ok => \E k \in Modules : Leads(c, m, k, Modules) /\ (k \in {} \/ ~ Solid(c, k))
  <2>. HIDE DEF r
  <2>1. r = CreateNamespace(c, {}, {}, x, m)
    BY DEF r
  <2>. QED
    BY <1>1, <2>1, CreateNamespaceRight
<1>3. Solid(c, m) /\ \A k : Leads(c, m, k, Modules) => k = m
  BY VmodFacts
<1>. HIDE DEF r
<1>4. r.ok
  BY <1>2, <1>3
<1>. QED
  BY <1>2, <1>4 DEF r

\* A module gets its namespace.
LEMMA NamespaceAdded ==
  ASSUME NEW c, NEW hn \in SUBSET Modules, NEW x, NsOK(c, hn, x),
         NEW m \in Modules, Modules \subseteq DOMAIN x,
         NEW v, NsRight(c, m, v)
  PROVE  NsOK(c, hn \cup {m}, [x EXCEPT ![m] = v])
<1> DEFINE y == [x EXCEPT ![m] = v]
<1>1. y[m] = v /\ \A k \in hn : k # m => y[k] = x[k]
  OBVIOUS
<1>. HIDE DEF y
<1>2. \A k \in hn : NsRight(c, k, x[k])
  BY DEF NsOK
<1>3. \A k \in hn \cup {m} : NsRight(c, k, y[k])
  BY <1>1, <1>2
<1>. QED
  BY <1>3 DEF NsOK, y

\* Reading a module.
LEMMA ReadOutcome ==
  ASSUME ModuleInv, Plain(code), OutcomeOK(code, {}, {}, {}, state, hasNs, ns, env, threw),
         NEW m \in Modules, Read(m)
  PROVE  OutcomeOK(code, {}, {}, {}, state', hasNs', ns', env, threw)
<1>1. /\ ModuleOK(code, frames, cache, state, ancestor, resolved, hasNs) /\ RestOK(threw, owner, ns)
      /\ code \in Programs /\ state \in [Modules -> States] /\ hasNs \in SUBSET Modules
      /\ CacheOK(code, cache, state, resolved)
  BY InvParts DEF ModuleOK, TypesOK
<1>2. CASE ~ (m \notin cache /\ code[m].kind = "vmod")
  BY <1>2 DEF Read
<1>3. CASE m \notin cache /\ code[m].kind = "vmod"
  <2> DEFINE v == CreateNamespace(code, {}, {}, ns, m).exports
  <2>1. /\ state' = [state EXCEPT ![m] = "linked"] /\ hasNs' = hasNs \cup {m}
        /\ ns' = [ns EXCEPT ![m] = v]
    BY <1>3 DEF Read
  <2>2. NsRight(code, m, v)
    BY <1>1, <1>3, VmodNamespace
  <2>. HIDE DEF v
  <2>3. /\ NsOK(code, hasNs, ns) /\ Modules \subseteq DOMAIN env
        /\ \A k \in Modules : DOMAIN env[k] \subseteq Requests(code[k])
        /\ \A k \in Modules : LinkedRight(code, {}, state, hasNs, env, threw, k)
        /\ \A k \in Modules : state[k] = "error" => Spoiled(code, threw, k)
        /\ \A k \in threw : state[k] = "error"
    BY DEF OutcomeOK
  <2>4. NsOK(code, hasNs', ns')
    <3>1. Modules \subseteq DOMAIN ns
      BY <1>1 DEF RestOK
    <3>. QED
      BY <1>1, <2>1, <2>2, <2>3, <3>1, NamespaceAdded
  <2>5. state[m] = "unlinked"
    BY <1>1, <1>3 DEF CacheOK
  <2>6. state'[m] = "linked" /\ \A k \in Modules : k # m => state'[k] = state[k]
    BY <1>1, <2>1
  <2>7. \A k \in Modules : WasLinked(state, threw, k) => WasLinked(state', threw, k)
    BY <2>5, <2>6 DEF WasLinked, Complete
  <2>8. ASSUME NEW k \in Modules, WasLinked(state', threw, k)
        PROVE  /\ k \in hasNs' /\ EnvRight(code, k, env[k])
               /\ \A t \in Succ(code, k) : WasLinked(state', threw, t)
    <3>1. CASE k = m
      <4>1. Succ(code, m) = {} /\ Requests(code[m]) = {}
        BY <1>1, <1>3, VmodFacts
      <4>2. DOMAIN env[m] = {}
        BY <2>3, <4>1
      <4>3. EnvRight(code, m, env[m])
        BY <4>1, <4>2 DEF EnvRight
      <4>. QED
        BY <2>1, <3>1, <4>1, <4>3
    <3>2. CASE k # m
      <4>1. WasLinked(state, threw, k) /\ LinkedRight(code, {}, state, hasNs, env, threw, k)
        BY <2>3, <2>6, <2>8, <3>2 DEF WasLinked
      <4>2. /\ k \in hasNs /\ EnvRight(code, k, env[k])
            /\ \A t \in Succ(code, k) : WasLinked(state, threw, t)
        BY <4>1 DEF LinkedRight
      <4>3. Succ(code, k) \subseteq Modules
        BY <1>1, GoalFacts
      <4>. QED
        BY <2>1, <2>7, <4>2, <4>3
    <3>. QED
      BY <3>1, <3>2
  <2>9. \A k \in Modules : LinkedRight(code, {}, state', hasNs', env, threw, k)
    BY <2>8 DEF LinkedRight
  <2>10. \A k \in Modules : state'[k] = "error" => Spoiled(code, threw, k)
    BY <2>3, <2>6
  <2>11. \A k \in threw : state'[k] = "error"
    <3>1. threw \subseteq Modules
      BY <1>1 DEF RestOK
    <3>. QED
      BY <2>3, <2>5, <2>6, <3>1
  <2>. QED
    BY <2>3, <2>4, <2>9, <2>10, <2>11 DEF OutcomeOK
<1>. QED
  BY <1>2, <1>3

\* The innermost frame after a change.
LEMMA ChangedLast ==
  ASSUME NEW fs \in Seq(Frames), fs # <<>>, NEW g, NEW fs1, Changed(fs, g, fs1)
  PROVE  Last(fs1) = g
<1>1. Len(fs) \in Nat \ {0} /\ Len(fs) \in 1..Len(fs)
  BY LastFrame
<1>2. Len(fs1) = Len(fs) /\ fs1[Len(fs)] = g
  BY <1>1 DEF Changed
<1>. QED
  BY <1>2 DEF Last

\* An import reads a module.
LEMMA ImportOutcome ==
  ASSUME ModuleInv, Plain(code), Outcome, ModuleInv', NEW m \in Modules, Import(m)
  PROVE  Outcome'
<1>1. ~ LinkTop(frames) /\ Read(m) /\ code' = code /\ env' = env /\ threw' = threw
  BY UserCodeCalls DEF Import
<1>2. frames \in Seq(Frames)
  BY <1>1, InvParts, NoLinkNow
<1> DEFINE g == [op |-> "import", m |-> m, pc |-> "link"]
<1>3. g \in Frames /\ g.op = "import" /\ Called(frames, g, frames')
  BY DEF Import, Called, Frames, ImportFrames
<1>. HIDE DEF g
<1>4. ~ LinkTop(frames')
  BY <1>2, <1>3, CalledFrames DEF LinkTop
<1>5. Idle(frames) /\ Idle(frames')
  BY <1>1, <1>4, IdleFrames
<1>6. OutcomeOK(code, {}, {}, {}, state, hasNs, ns, env, threw)
  BY <1>5 DEF Outcome, Idle
<1>7. OutcomeOK(code, {}, {}, {}, state', hasNs', ns', env, threw)
  BY <1>1, <1>6, ReadOutcome
<1>. QED
  BY <1>1, <1>5, <1>7 DEF Outcome, Idle

\* A link that searches for the component.
LEMMA SearchIdle ==
  ASSUME NEW pc \in Searching, ModuleInv, Running("link", pc)
  PROVE  /\ Idle(frames) /\ frames \in Seq(Frames) /\ frames # <<>> /\ Last(frames) \in LinkFrames
         /\ Top = Last(frames) /\ Last(frames).pc = pc /\ code \in Programs
         /\ Len(frames) \in 1..Len(frames) /\ Last(frames) = frames[Len(frames)]
<1>1. /\ frames \in Seq(Frames) /\ frames # <<>> /\ Last(frames) \in LinkFrames /\ Last(frames).pc = pc
      /\ Top = Last(frames) /\ TypesOK(code, cache, state, ancestor, resolved, hasNs)
      /\ Len(frames) \in 1..Len(frames) /\ Last(frames) = frames[Len(frames)]
  BY LinkRuns
<1>2. Idle(frames)
  BY <1>1, IdleFrames
<1>. QED
  BY <1>1, <1>2 DEF TypesOK

\* A module request is resolved.
LEMMA ResolveNodeOutcome ==
  ASSUME ModuleInv, Plain(code), Outcome, ResolveNode
  PROVE  Outcome'
<1> DEFINE f == Last(frames)
           g == [f EXCEPT !.it = @ + 1]
<1>0. Running("link", "resolve") /\ "resolve" \in Searching
  BY DEF ResolveNode, Searching
<1>1. /\ Idle(frames) /\ frames \in Seq(Frames) /\ frames # <<>> /\ f \in LinkFrames
      /\ Top = f /\ f.pc = "resolve" /\ code \in Programs
      /\ Len(frames) \in 1..Len(frames) /\ f = frames[Len(frames)]
  BY <1>0, SearchIdle
<1>2. Changed(frames, g, frames') /\ code' = code /\ env' = env /\ threw' = threw
  BY <1>1 DEF ResolveNode, Changed
<1>3. g.pc = "resolve"
  BY <1>1 DEF LinkFrames
<1>4. Idle(frames')
  <2>. HIDE DEF g
  <2>1. Last(frames') = g
    BY <1>1, <1>2, ChangedLast
  <2>. QED
    BY <1>3, <2>1, IdleFrames DEF Searching
<1>5. OutcomeOK(code, {}, {}, {}, state, hasNs, ns, env, threw)
  BY <1>1 DEF Outcome, Idle
<1>6. OutcomeOK(code, {}, {}, {}, state', hasNs', ns', env, threw)
  <2> DEFINE m == f.stack[f.cur].m
             t == Goals(code, m)[f.it]
  <2>1. LinkTypes(code, f, state, ancestor) /\ LinkOK(code, f, state, ancestor, resolved) /\ f.pc \in Searching
    BY <1>0, <1>1, LinkRuns DEF Searching
  <2>2. /\ m \in Modules /\ f.it \in 1..(Arity(code, m) + 1)
        /\ Arity(code, m) \in Nat /\ Goals(code, m) \in [1..Arity(code, m) -> Modules]
    <3>. HIDE DEF f
    <3>. QED
      BY <1>1, <2>1, CurrentItem
  <2>3. Targets(m) = Goals(code, m) /\ Item.m = m /\ Top.it = f.it
    BY <1>1, <2>2, TargetFacts DEF Item
  <2>4. /\ f.it <= Arity(code, m)
        /\ Read(t) \/ UNCHANGED <<state, hasNs, ns>>
    BY <2>3 DEF ResolveNode, Arity
  <2>5. t \in Modules
    BY <2>2, <2>4
  <2>. HIDE DEF t
  <2>6. CASE Read(t)
    BY <1>5, <2>5, <2>6, ReadOutcome
  <2>7. CASE UNCHANGED <<state, hasNs, ns>>
    BY <1>5, <2>7
  <2>. QED
    BY <2>4, <2>6, <2>7
<1>. QED
  BY <1>2, <1>4, <1>6 DEF Outcome, Idle

\* The states of a step after which more modules are LINKING.
LEMMA LinkingMoves ==
  ASSUME NEW st, NEW st1, NEW th, \A k \in th : k \in Modules /\ st[k] = "error", Forward(st, st1),
         \A k \in Modules : st1[k] = st[k] \/ st1[k] = "linking"
  PROVE  SameLinked(st, th, st1, th)
<1>1. \A k \in Modules : st1[k] \in Complete <=> st[k] \in Complete
  BY DEF Forward, Complete
<1>2. \A k \in Modules : st1[k] = "error" <=> st[k] = "error"
  BY DEF Forward
<1>. QED
  BY <1>1, <1>2 DEF SameLinked, WasLinked

\* Where the loops over a component begin nothing is in between.
LEMMA IdleCloses ==
  ASSUME NEW fs, Last(fs).pc = "namespace", NEW n \in Nat, Last(fs).it = n, Len(Last(fs).stack) = n
  PROVE  Idle(fs)
<1>1. ~ \E k \in 1..n : k > n
  OBVIOUS
<1>2. Granted(Last(fs)) = {}
  BY <1>1 DEF Granted
<1>3. Pending(Last(fs)) = {} /\ Connected(Last(fs)) = {}
  BY DEF Pending, Connected
<1>. QED
  BY <1>2, <1>3 DEF Idle, PendingIn, GrantedIn, ConnectedIn

\* The frames of a search: they stay in it, or begin to close a component.
Searches(f, g) ==
  \/ g.pc \in Searching
  \/ g.pc = "namespace" /\ g.it = Len(f.stack) /\ g.stack = f.stack

\* The frame that a visit leaves.
LEMMA VisitSearches ==
  ASSUME NEW f \in LinkFrames, NEW s, NEW k, NEW d, NEW m,
         NEW g, g = [f EXCEPT !.stack = s, !.cur = k, !.dfs = d, !.module = m, !.it = 1, !.pc = "resolve"]
  PROVE  Searches(f, g)
BY DEF LinkFrames, Searches, Searching

\* The frame that goes back to the parent or closes a component.
LEMMA LeaveSearches ==
  ASSUME NEW f \in LinkFrames, f.pc = "find", NEW x, NEW p, NEW b, NEW n, n = Len(f.stack),
         NEW g, \/ g = [f EXCEPT !.module = x, !.cur = p]
                \/ g = [f EXCEPT !.module = x, !.cur = p, !.base = b, !.it = n, !.pc = "namespace"]
  PROVE  Searches(f, g)
BY DEF LinkFrames, Searches, Searching

\* The search for a component.
LEMMA SearchOutcome ==
  ASSUME ModuleInv, Outcome, Forward(state, state'), ResolveEnd \/ Visit \/ Leave
  PROVE  Outcome'
<1> DEFINE f == Last(frames)
<1>1. PICK pc \in Searching : Running("link", pc)
  BY DEF ResolveEnd, Visit, Leave, Searching
<1>2. /\ Idle(frames) /\ frames \in Seq(Frames) /\ frames # <<>> /\ f \in LinkFrames
      /\ Top = f /\ f.pc = pc /\ code \in Programs
      /\ Len(frames) \in 1..Len(frames) /\ f = frames[Len(frames)]
  BY <1>1, SearchIdle
<1>3. \E g : Changed(frames, g, frames') /\ Searches(f, g)
  <2>1. CASE ResolveEnd
    <3> DEFINE g == [f EXCEPT !.pc = "find"]
    <3>1. Changed(frames, g, frames')
      BY <1>2, <2>1 DEF ResolveEnd, Goto, Changed
    <3>2. Searches(f, g)
      BY <1>2 DEF LinkFrames, Searches, Searching
    <3>. QED
      BY <3>1, <3>2
  <2>2. CASE Visit
    <3> DEFINE i == CHOOSE x \in Unlinked(Item.node) : \A y \in Unlinked(Item.node) : x <= y
               m == Targets(Item.m)[i]
               d == f.dfs + 1
               s == Append([f.stack EXCEPT ![f.cur].node = i + 1],
                           [m |-> m, node |-> 1, dfs |-> d, parent |-> f.cur])
               k == Len(f.stack) + 1
               g == [f EXCEPT !.stack = s, !.cur = k, !.dfs = d, !.module = m, !.it = 1, !.pc = "resolve"]
    <3>1. Changed(frames, g, frames')
      BY <1>2, <2>2 DEF Visit, GoOn, Changed
    <3>. HIDE DEF f, i, m, d, s, k
    <3>2. Searches(f, g)
      BY <1>2, VisitSearches
    <3>. QED
      BY <3>1, <3>2
  <2>3. CASE Leave
    <3> DEFINE passed == {Targets(Item.m)[x] : x \in Item.node..Len(code[Item.m].imports)}
               module == IF passed = {} THEN f.module ELSE Last(Targets(Item.m))
               p == Item.parent
               b == f.cur
               n == Len(f.stack)
               g1 == [f EXCEPT !.module = module, !.cur = p]
               g2 == [f EXCEPT !.module = module, !.cur = p, !.base = b, !.it = n, !.pc = "namespace"]
    <3>1. Changed(frames, g1, frames') \/ Changed(frames, g2, frames')
      <4>1. CASE Lowest(passed) # Item.dfs
        BY <1>2, <2>3, <4>1, ZenonT(60) DEF Leave, GoOn, Changed
      <4>2. CASE Lowest(passed) = Item.dfs
        BY <1>2, <2>3, <4>2, ZenonT(60) DEF Leave, GoOn, Changed
      <4>. QED
        BY <4>1, <4>2, SMTT(60)
    <3>2. Last(frames).pc = "find" /\ n = Len(f.stack)
      BY <1>2, <2>3, ZenonT(60) DEF Leave, Running
    <3>3. f \in LinkFrames /\ f.pc = "find"
      BY <1>2, <3>2
    <3>. HIDE DEF f, module, p, b, n
    <3>4. Searches(f, g1) /\ Searches(f, g2)
      BY <3>2, <3>3, LeaveSearches
    <3>. QED
      BY <3>1, <3>4
  <2>. QED
    BY <2>1, <2>2, <2>3
<1>4. Idle(frames')
  <2>1. PICK g : Changed(frames, g, frames') /\ Searches(f, g)
    BY <1>3
  <2>2. Last(frames') = g
    BY <1>2, <2>1, ChangedLast
  <2>3. CASE g.pc \in Searching
    BY <2>2, <2>3, IdleFrames
  <2>4. CASE g.pc = "namespace" /\ g.it = Len(f.stack) /\ g.stack = f.stack
    <3>1. Len(f.stack) \in Nat
      BY <1>2, LinkFields
    <3>. HIDE DEF f
    <3>. QED
      BY <2>2, <2>4, <3>1, IdleCloses
  <2>. QED
    BY <2>1, <2>3, <2>4 DEF Searches
<1>5. code' = code /\ hasNs' = hasNs /\ ns' = ns /\ env' = env /\ threw' = threw
  BY DEF ResolveEnd, Visit, Leave, link
<1>6. \A k \in Modules : state'[k] = state[k] \/ state'[k] = "linking"
  <2>1. state \in [Modules -> States]
    BY <1>1, LinkRuns DEF TypesOK
  <2>2. state' = state \/ \E m : state' = [state EXCEPT ![m] = "linking"]
    BY DEF ResolveEnd, Visit, Leave
  <2>. QED
    BY <2>1, <2>2
<1>7. SameLinked(state, threw, state', threw')
  BY <1>5, <1>6, ThrewFailed, LinkingMoves
<1>. QED
  BY <1>2, <1>4, <1>5, <1>7, QuietIdle

\* The label error fails only what has failed.
LEMMA LinkErrorOnly ==
  ASSUME NEW st, LinkError(st)
  PROVE  \A k \in Modules : state'[k] = "error" => st[k] = "error"
BY DEF LinkError

\* A link fails: the modules that have failed have a reason to.
LEMMA ErrorOutcome ==
  ASSUME ModuleInv, Outcome, ModuleInv', NEW pc, Running("link", pc), pc # "linked",
         NEW st \in [Modules -> States],
         \A k \in Modules : st[k] = state[k] \/ (state[k] = "linking" /\ st[k] = "error"),
         \A k \in Modules : st[k] = "error" => Spoiled(code, threw, k), LinkError(st),
         code' = code, hasNs' = hasNs, ns' = ns, env' = env, threw' = threw
  PROVE  Outcome'
<1>1. /\ \A k \in Modules : state[k] = "linking" => state'[k] \in {"unlinked", "error"}
      /\ \A k \in Modules : state[k] # "linking" => state'[k] = state[k]
      /\ \A k \in Modules : state'[k] = "error" => st[k] = "error"
  BY LinkErrorStates, LinkErrorOnly
<1>2. Idle(frames')
  BY <1>1, InvPartsNext, NoLinkThen
<1>3. PendingIn(frames) = {}
  <2>1. Last(frames).pc = pc /\ LinkTop(frames)
    BY LinkRuns
  <2>. QED
    BY <2>1 DEF PendingIn, Pending
<1>4. \A k \in Modules : WasLinked(state', threw, k) <=> WasLinked(state, threw, k)
  BY <1>1 DEF WasLinked, Complete
<1>5. /\ NsOK(code, hasNs, ns) /\ Modules \subseteq DOMAIN env
      /\ \A k \in Modules : DOMAIN env[k] \subseteq Requests(code[k])
      /\ \A k \in Modules : LinkedRight(code, {}, state, hasNs, env, threw, k)
      /\ \A k \in threw : state[k] = "error"
  BY <1>3 DEF Outcome, OutcomeOK
<1>6. \A k \in Modules : LinkedRight(code, {}, state', hasNs, env, threw, k)
  <2>1. code \in Programs
    BY InvParts DEF ModuleOK, TypesOK
  <2>2. \A k \in Modules : Succ(code, k) \subseteq Modules
    BY <2>1, GoalFacts
  <2>. QED
    BY <1>4, <1>5, <2>2 DEF LinkedRight
<1>7. \A k \in threw : state'[k] = "error"
  BY <1>1, <1>5, ThrewFailed
<1>8. \A k \in Modules : state'[k] = "error" => Spoiled(code, threw, k)
  BY <1>1
<1>9. OutcomeOK(code, {}, {}, {}, state', hasNs, ns, env, threw)
  BY <1>5, <1>6, <1>7, <1>8 DEF OutcomeOK
<1>. QED
  BY <1>2, <1>9 DEF Outcome, Idle

\* A module request cannot be resolved.
LEMMA ResolveNodeFailsOutcome ==
  ASSUME ModuleInv, Outcome, ModuleInv', ResolveNodeFails
  PROVE  Outcome'
<1>1. /\ Running("link", "resolve") /\ LinkError(state)
      /\ code' = code /\ hasNs' = hasNs /\ ns' = ns /\ env' = env /\ threw' = threw
  BY DEF ResolveNodeFails
<1>2. state \in [Modules -> States]
  BY <1>1, LinkRuns DEF TypesOK
<1>3. \A k \in Modules : state[k] = "error" => Spoiled(code, threw, k)
  BY DEF Outcome, OutcomeOK
<1>. QED
  BY <1>1, <1>2, <1>3, ErrorOutcome

\* A module of a component fails.
LEMMA CloseFailsOutcome ==
  ASSUME ModuleInv, Outcome, ModuleInv', NEW pc \in {"namespace", "connect"}, Running("link", pc),
         LinkError([state EXCEPT ![Top.stack[Top.it].m] = "error"]),
         Spoiled(code, threw, Top.stack[Top.it].m),
         code' = code, hasNs' = hasNs, ns' = ns, env' = env, threw' = threw
  PROVE  Outcome'
<1> DEFINE m == Top.stack[Top.it].m
           st == [state EXCEPT ![m] = "error"]
<1>1. /\ Last(frames).pc = pc /\ Top = Last(frames)
      /\ LinkTypes(code, Last(frames), state, ancestor)
      /\ LinkOK(code, Last(frames), state, ancestor, resolved)
  BY LinkRuns
<1>2. m \in Modules /\ state[m] = "linking" /\ state \in [Modules -> States]
  BY <1>1, ClosingItem DEF LinkTypes
<1>3. LinkError(st) /\ Spoiled(code, threw, m)
  OBVIOUS
<1>. HIDE DEF m
<1>4. /\ st \in [Modules -> States]
      /\ \A k \in Modules : st[k] = state[k] \/ (state[k] = "linking" /\ st[k] = "error")
      /\ \A k \in Modules : st[k] = "error" => state[k] = "error" \/ k = m
  BY <1>2 DEF States
<1>. HIDE DEF st
<1>5. \A k \in Modules : st[k] = "error" => Spoiled(code, threw, k)
  BY <1>3, <1>4 DEF Outcome, OutcomeOK
<1>. QED
  BY <1>3, <1>4, <1>5, ErrorOutcome

\* Why a module fails.
LEMMA FailReason ==
  ASSUME Outcome, NEW m \in Modules, NEW k \in Modules, Leads(code, m, k, Modules),
         k \in Failed \/ Broken(code, k)
  PROVE  Spoiled(code, threw, m)
<1>1. CASE Broken(code, k)
  BY <1>1 DEF Spoiled
<1>2. CASE k \in Failed
  <2>1. Spoiled(code, threw, k)
    BY <1>2 DEF Failed, Outcome, OutcomeOK
  <2>2. PICK j \in Modules : Leads(code, k, j, Modules) /\ (j \in threw \/ Broken(code, j))
    BY <2>1 DEF Spoiled
  <2>3. Leads(code, m, j, Modules)
    BY <2>2, LeadsOn
  <2>. QED
    BY <2>2, <2>3 DEF Spoiled
<1>. QED
  BY <1>1, <1>2

\* Everything is solid in a closed set of modules with namespaces.
LEMMA SolidSet ==
  ASSUME NEW c, NEW hn, NEW x, NsOK(c, hn, x), NEW C \in SUBSET Modules, C \subseteq hn,
         Closed(c, C, Modules), NEW m \in C
  PROVE  AllSolid(c, m)
<1>. SUFFICES ASSUME NEW k \in Modules, Leads(c, m, k, Modules) PROVE Solid(c, k)
  BY DEF AllSolid
<1>1. k \in C
  BY DEF Leads
<1>2. NsRight(c, k, x[k])
  BY <1>1 DEF NsOK
<1>. QED
  BY <1>2 DEF NsRight, Solid

\* What was linked is solid, and so is a component that has its namespaces.
LEMMA LinkedSolid ==
  ASSUME ModuleInv, Outcome, NEW Q \in SUBSET Modules, Q \subseteq hasNs, PendingIn(frames) \subseteq Q,
         \A k \in Q : \A t \in Succ(code, k) : state[t] \in Complete \/ t \in Q,
         NEW m \in Modules, m \in Q \/ WasLinked(state, threw, m)
  PROVE  AllSolid(code, m)
<1> DEFINE C == {k \in Modules : WasLinked(state, threw, k)} \cup Q
<1>1. /\ NsOK(code, hasNs, ns)
      /\ \A k \in Modules : LinkedRight(code, PendingIn(frames), state, hasNs, env, threw, k)
  BY DEF Outcome, OutcomeOK
<1>2. code \in Programs
  BY InvParts DEF ModuleOK, TypesOK
<1>3. \A k \in Modules : Succ(code, k) \subseteq Modules
  BY <1>2, GoalFacts
<1>4. C \in SUBSET Modules /\ C \subseteq hasNs /\ m \in C
  BY <1>1 DEF LinkedRight
<1>5. Closed(code, C, Modules)
  <2>. SUFFICES ASSUME NEW k \in C, NEW t \in Succ(code, k), t \in Modules PROVE t \in C
    BY DEF Closed
  <2>1. CASE k \in Q
    BY <2>1 DEF WasLinked
  <2>2. CASE k \in Modules /\ WasLinked(state, threw, k)
    BY <1>1, <2>2 DEF LinkedRight
  <2>. QED
    BY <2>1, <2>2
<1>. QED
  BY <1>1, <1>4, <1>5, SolidSet

\* The loops over the component: what has been granted and connected.
LEMMA AdvancedSets ==
  ASSUME NEW f \in LinkFrames, f.it \in f.base..Len(f.stack), f.base # 0,
         NEW g, \/ f.pc = "namespace" /\ Advanced(f, "connect", g)
                \/ f.pc = "connect" /\ Advanced(f, "linked", g)
  PROVE  /\ g \in LinkFrames
         /\ f.pc = "namespace" =>
              /\ Granted(g) \subseteq Granted(f) \cup {f.stack[f.it].m}
              /\ Connected(g) = {} /\ Pending(g) = {} /\ Pending(f) = {} /\ Connected(f) = {}
         /\ f.pc = "connect" =>
              /\ Connected(g) \subseteq Connected(f) \cup {f.stack[f.it].m}
              /\ Granted(g) = Granted(f) /\ Pending(f) = {} /\ Granted(f) = Component(f)
<1>1. f.it \in Nat /\ f.base \in Nat /\ Len(f.stack) \in Nat /\ f.base <= f.it /\ f.it <= Len(f.stack)
  BY LinkFields
<1> DEFINE n == Len(f.stack)
<1>2. \A k \in 1..n : k \in Nat /\ k <= n
  BY <1>1
<1>3. CASE f.pc = "namespace" /\ Advanced(f, "connect", g)
  <2>1. /\ g \in LinkFrames /\ g.stack = f.stack /\ g.base = f.base
        /\ \/ f.it > f.base /\ g.pc = "namespace" /\ g.it = f.it - 1
           \/ f.it = f.base /\ g.pc = "connect" /\ g.it = Len(f.stack)
    BY <1>3, AdvancedFrame DEF Closing
  <2>. HIDE DEF n
  <2>2. \A k \in 1..n :
           (g.pc = "namespace" /\ k > g.it) \/ (g.pc \in {"connect", "linked"} /\ k >= g.base) =>
             k > f.it \/ k = f.it
    BY <1>1, <1>2, <2>1
  <2>3. Granted(g) \subseteq Granted(f) \cup {f.stack[f.it].m}
    <3>. SUFFICES ASSUME NEW y \in Granted(g) PROVE y \in Granted(f) \/ y = f.stack[f.it].m
      OBVIOUS
    <3>1. PICK k \in 1..n : /\ y = f.stack[k].m
                            /\ (g.pc = "namespace" /\ k > g.it) \/ (g.pc \in {"connect", "linked"} /\ k >= g.base)
      BY <2>1 DEF Granted, n
    <3>2. k > f.it \/ k = f.it
      BY <2>2, <3>1
    <3>3. CASE k > f.it
      BY <1>3, <3>1, <3>3 DEF Granted, n
    <3>4. CASE k = f.it
      BY <3>1, <3>4
    <3>. QED
      BY <3>2, <3>3, <3>4
  <2>4. \A k \in 1..n : ~ (g.pc = "connect" /\ k > g.it) /\ g.pc # "linked" /\ f.pc # "connect" /\ f.pc # "linked"
    BY <1>1, <1>2, <1>3, <2>1 DEF n
  <2>5. Connected(g) = {} /\ Connected(f) = {}
    BY <2>1, <2>4 DEF Connected, n
  <2>6. Pending(g) = {} /\ Pending(f) = {}
    BY <1>3, <2>1 DEF Pending
  <2>. QED
    BY <1>3, <2>1, <2>3, <2>5, <2>6
<1>4. CASE f.pc = "connect" /\ Advanced(f, "linked", g)
  <2>1. /\ g \in LinkFrames /\ g.stack = f.stack /\ g.base = f.base
        /\ \/ f.it > f.base /\ g.pc = "connect" /\ g.it = f.it - 1
           \/ f.it = f.base /\ g.pc = "linked" /\ g.it = Len(f.stack)
    BY <1>4, AdvancedFrame DEF Closing
  <2>. HIDE DEF n
  <2>2. \A k \in 1..n :
           (g.pc = "connect" /\ k > g.it) \/ (g.pc = "linked" /\ k >= g.base) => k > f.it \/ k = f.it
    BY <1>1, <1>2, <2>1
  <2>3. Connected(g) \subseteq Connected(f) \cup {f.stack[f.it].m}
    <3>. SUFFICES ASSUME NEW y \in Connected(g) PROVE y \in Connected(f) \/ y = f.stack[f.it].m
      OBVIOUS
    <3>1. PICK k \in 1..n : /\ y = f.stack[k].m
                            /\ (g.pc = "connect" /\ k > g.it) \/ (g.pc = "linked" /\ k >= g.base)
      BY <2>1 DEF Connected, n
    <3>2. k > f.it \/ k = f.it
      BY <2>2, <3>1
    <3>3. CASE k > f.it
      BY <1>4, <3>1, <3>3 DEF Connected, n
    <3>4. CASE k = f.it
      BY <3>1, <3>4
    <3>. QED
      BY <3>2, <3>3, <3>4
  <2>4. Granted(g) = Granted(f)
    BY <1>4, <2>1 DEF Granted
  <2>5. \A k : k \in f.base..n <=> k \in 1..n /\ k >= f.base
    BY <1>1 DEF n
  <2>6. Granted(f) = Component(f)
    BY <1>4, <2>5 DEF Granted, Component, n
  <2>7. Pending(f) = {}
    BY <1>4 DEF Pending
  <2>. QED
    BY <1>4, <2>1, <2>3, <2>4, <2>6, <2>7
<1>. QED
  BY <1>3, <1>4

\* The state of a closing link.
LEMMA CloseRuns ==
  ASSUME ModuleInv, NEW pc \in {"namespace", "connect"}, Running("link", pc)
  PROVE  LET f == Last(frames)
         IN /\ f.pc = pc /\ Top = f /\ f \in LinkFrames /\ frames \in Seq(Frames) /\ frames # <<>>
            /\ LinkTop(frames) /\ code \in Programs /\ hasNs \in SUBSET Modules
            /\ f.it \in f.base..Len(f.stack) /\ f.base # 0 /\ f.stack[f.it].m \in Modules
            /\ state[f.stack[f.it].m] = "linking" /\ NamespaceFirst(f, hasNs)
            /\ Component(f) \in SUBSET Modules /\ f.stack[f.it].m \in Component(f)
            /\ \A k \in Component(f) : \A t \in Succ(code, k) : state[t] \in Complete \/ t \in Component(f)
            /\ RestOK(threw, owner, ns)
<1> DEFINE f == Last(frames)
<1>1. /\ f.pc = pc /\ Top = f /\ f \in LinkFrames /\ frames \in Seq(Frames) /\ frames # <<>> /\ LinkTop(frames)
      /\ LinkTypes(code, f, state, ancestor) /\ LinkOK(code, f, state, ancestor, resolved)
      /\ TypesOK(code, cache, state, ancestor, resolved, hasNs) /\ NamespaceFirst(f, hasNs)
      /\ RestOK(threw, owner, ns)
  BY LinkRuns
<1>. HIDE DEF f
<1>2. /\ f.base \in Nat \ {0} /\ f.it \in f.base..Len(f.stack)
      /\ f.stack[f.it].m \in Modules /\ state[f.stack[f.it].m] = "linking"
  BY <1>1, ClosingItem
<1>3. /\ Component(f) \in SUBSET Modules
      /\ \A k \in Component(f) : \A t \in Succ(code, k) : state[t] \in Complete \/ t \in Component(f)
  BY <1>1, ComponentClosed DEF Closing
<1>4. f.stack[f.it].m \in Component(f)
  BY <1>2 DEF Component
<1>. QED
  BY <1>1, <1>2, <1>3, <1>4 DEF f, TypesOK

\* The sets of a link whose innermost frame changes.
LEMMA ChangedSets ==
  ASSUME NEW fs \in Seq(Frames), fs # <<>>, NEW g \in LinkFrames, NEW fs1, Changed(fs, g, fs1)
  PROVE  PendingIn(fs1) = Pending(g) /\ GrantedIn(fs1) = Granted(g) /\ ConnectedIn(fs1) = Connected(g)
<1>1. g \in Frames /\ g.op = "link"
  BY LinkFields DEF Frames
<1>2. fs1 # <<>> /\ Last(fs1) = g
  BY <1>1, ChangedFrames
<1>. QED
  BY <1>1, <1>2 DEF PendingIn, GrantedIn, ConnectedIn, LinkTop

\* The namespace of a module of the component is created.
LEMMA NamespaceOutcome ==
  ASSUME ModuleInv, Plain(code), Outcome, ModuleInv', CreateNamespaceObject
  PROVE  Outcome'
<1> DEFINE f == Last(frames)
           m == f.stack[f.it].m
           r == CreateNamespace(code, Failed, hasNs, ns, m)
           g == IF f.it > f.base THEN [f EXCEPT !.it = @ - 1] ELSE [f EXCEPT !.it = Len(f.stack), !.pc = "connect"]
<1>0. Running("link", "namespace")
  BY DEF CreateNamespaceObject
<1>1. /\ f.pc = "namespace" /\ Top = f /\ f \in LinkFrames /\ frames \in Seq(Frames) /\ frames # <<>>
      /\ LinkTop(frames) /\ code \in Programs /\ hasNs \in SUBSET Modules
      /\ f.it \in f.base..Len(f.stack) /\ f.base # 0 /\ m \in Modules /\ NamespaceFirst(f, hasNs)
      /\ RestOK(threw, owner, ns)
  BY <1>0, CloseRuns
<1>2. m \notin hasNs
  <2>1. f.it \in f.base..f.it
    <3>1. f.it \in Nat /\ f.base \in Nat /\ f.base <= f.it
      BY <1>1, LinkFields
    <3>. HIDE DEF f
    <3>. QED
      BY <3>1
  <2>. QED
    BY <1>1, <2>1 DEF NamespaceFirst
<1>3. NsOK(code, hasNs, ns)
  BY DEF Outcome, OutcomeOK
<1>4. /\ r.ok => NsRight(code, m, r.exports)
      /\ ~ r.ok => \E k \in Modules : Leads(code, m, k, Modules) /\ (k \in Failed \/ ~ Solid(code, k))
  <2>1. r = CreateNamespace(code, Failed, hasNs, ns, m)
    OBVIOUS
  <2>. HIDE DEF r, m
  <2>. QED
    BY <1>1, <1>2, <1>3, <2>1, CreateNamespaceRight
<1>5. CASE ~ r.ok
  <2>1. /\ LinkError([state EXCEPT ![Top.stack[Top.it].m] = "error"])
        /\ code' = code /\ hasNs' = hasNs /\ ns' = ns /\ env' = env /\ threw' = threw
    BY <1>1, <1>5 DEF CreateNamespaceObject
  <2>2. PICK k \in Modules : Leads(code, m, k, Modules) /\ (k \in Failed \/ Broken(code, k))
    BY <1>4, <1>5, BrokenIfNot
  <2>3. Spoiled(code, threw, m)
    <3>. HIDE DEF m
    <3>. QED
      BY <1>1, <2>2, FailReason
  <2>4. Spoiled(code, threw, Top.stack[Top.it].m)
    BY <1>1, <2>3
  <2>. QED
    BY <1>0, <2>1, <2>4, CloseFailsOutcome
<1>6. CASE r.ok
  <2>1. /\ ns' = [ns EXCEPT ![m] = r.exports] /\ hasNs' = hasNs \cup {m} /\ Advance("connect")
        /\ code' = code /\ env' = env /\ state' = state /\ threw' = threw
    BY <1>1, <1>6 DEF CreateNamespaceObject
  <2>2. Changed(frames, g, frames') /\ Advanced(f, "connect", g)
    BY <1>1, <2>1 DEF Advance, GoOn, Changed, Advanced
  <2>3. NsRight(code, m, r.exports) /\ Modules \subseteq DOMAIN ns
    BY <1>1, <1>4, <1>6 DEF RestOK
  <2>. HIDE DEF g, r
  <2>4. NsOK(code, hasNs', ns')
    <3>. HIDE DEF m
    <3>. QED
      BY <1>1, <1>3, <2>1, <2>3, NamespaceAdded
  <2>5. /\ g \in LinkFrames /\ Granted(g) \subseteq Granted(f) \cup {m}
        /\ Connected(g) = {} /\ Pending(g) = {} /\ Pending(f) = {}
    <3>. HIDE DEF f
    <3>. QED
      BY <1>1, <2>2, AdvancedSets
  <2>6. /\ PendingIn(frames') = {} /\ GrantedIn(frames') = Granted(g) /\ ConnectedIn(frames') = {}
        /\ PendingIn(frames) = {} /\ GrantedIn(frames) = Granted(f)
    BY <1>1, <2>2, <2>5, ChangedSets DEF PendingIn, GrantedIn
  <2>7. /\ Modules \subseteq DOMAIN env
        /\ \A k \in Modules : DOMAIN env[k] \subseteq Requests(code[k])
        /\ \A k \in Modules : LinkedRight(code, {}, state, hasNs, env, threw, k)
        /\ Granted(f) \subseteq hasNs
        /\ \A k \in Modules : state[k] = "error" => Spoiled(code, threw, k)
        /\ \A k \in threw : state[k] = "error"
    BY <2>6 DEF Outcome, OutcomeOK
  <2>. HIDE DEF f, m
  <2>8. Granted(g) \subseteq hasNs'
    BY <2>1, <2>5, <2>7
  <2>9. \A k \in Modules : LinkedRight(code, {}, state, hasNs', env, threw, k)
    BY <2>1, <2>7 DEF LinkedRight
  <2>10. OutcomeOK(code, {}, Granted(g), {}, state, hasNs', ns', env, threw)
    BY <2>4, <2>7, <2>8, <2>9 DEF OutcomeOK
  <2>. QED
    BY <2>1, <2>6, <2>10 DEF Outcome
<1>. QED
  BY <1>5, <1>6

\* The imports of a module of the component are connected.
LEMMA ConnectOutcome ==
  ASSUME ModuleInv, Plain(code), Outcome, ModuleInv', Connect
  PROVE  Outcome'
<1> DEFINE f == Last(frames)
           m == f.stack[f.it].m
           r == ConnectImports(code, Failed, hasNs, ns, m)
           g == IF f.it > f.base THEN [f EXCEPT !.it = @ - 1] ELSE [f EXCEPT !.it = Len(f.stack), !.pc = "linked"]
<1>0. Running("link", "connect")
  BY DEF Connect
<1>1. /\ f.pc = "connect" /\ Top = f /\ f \in LinkFrames /\ frames \in Seq(Frames) /\ frames # <<>>
      /\ LinkTop(frames) /\ code \in Programs /\ hasNs \in SUBSET Modules
      /\ f.it \in f.base..Len(f.stack) /\ f.base # 0 /\ m \in Modules /\ state[m] = "linking"
      /\ Component(f) \in SUBSET Modules /\ m \in Component(f)
      /\ \A k \in Component(f) : \A t \in Succ(code, k) : state[t] \in Complete \/ t \in Component(f)
  BY <1>0, CloseRuns
<1>2. Advanced(f, "linked", g)
  BY DEF Advanced
<1>3. /\ g \in LinkFrames /\ Connected(g) \subseteq Connected(f) \cup {m}
      /\ Granted(g) = Granted(f) /\ Pending(f) = {} /\ Granted(f) = Component(f)
  <2>. HIDE DEF f, g
  <2>. QED
    BY <1>1, <1>2, AdvancedSets
<1>4. PendingIn(frames) = {} /\ GrantedIn(frames) = Granted(f) /\ ConnectedIn(frames) = Connected(f)
  BY <1>1, <1>3 DEF PendingIn, GrantedIn, ConnectedIn
<1>5. /\ NsOK(code, hasNs, ns) /\ Modules \subseteq DOMAIN env
      /\ \A k \in Modules : DOMAIN env[k] \subseteq Requests(code[k])
      /\ \A k \in Modules : LinkedRight(code, {}, state, hasNs, env, threw, k)
      /\ Granted(f) \subseteq hasNs /\ \A k \in Connected(f) : EnvRight(code, k, env[k])
      /\ \A k \in Modules : state[k] = "error" => Spoiled(code, threw, k)
      /\ \A k \in threw : state[k] = "error"
  BY <1>4 DEF Outcome, OutcomeOK
<1>6. AllSolid(code, m)
  <2>1. Component(f) \subseteq hasNs /\ PendingIn(frames) \subseteq Component(f)
    BY <1>3, <1>4, <1>5
  <2>. HIDE DEF f, m
  <2>. QED
    BY <1>1, <2>1, LinkedSolid
<1>7. /\ r.ok => EnvRight(code, m, r.imports)
      /\ ~ r.ok => \E k \in Modules : Leads(code, m, k, Modules) /\ (k \in Failed \/ Broken(code, k))
  <2>1. r = ConnectImports(code, Failed, hasNs, ns, m)
    OBVIOUS
  <2>. HIDE DEF r, m
  <2>. QED
    BY <1>1, <1>5, <1>6, <2>1, ConnectRight
<1>8. CASE ~ r.ok
  <2>1. /\ LinkError([state EXCEPT ![Top.stack[Top.it].m] = "error"])
        /\ code' = code /\ hasNs' = hasNs /\ ns' = ns /\ env' = env /\ threw' = threw
    BY <1>1, <1>8 DEF Connect
  <2>2. PICK k \in Modules : Leads(code, m, k, Modules) /\ (k \in Failed \/ Broken(code, k))
    BY <1>7, <1>8
  <2>3. Spoiled(code, threw, m)
    <3>. HIDE DEF m
    <3>. QED
      BY <1>1, <2>2, FailReason
  <2>4. Spoiled(code, threw, Top.stack[Top.it].m)
    BY <1>1, <2>3
  <2>. QED
    BY <1>0, <2>1, <2>4, CloseFailsOutcome
<1>9. CASE r.ok
  <2> DEFINE v == r.imports
  <2>1. /\ env' = [env EXCEPT ![m] = v] /\ Advance("linked")
        /\ code' = code /\ hasNs' = hasNs /\ ns' = ns /\ state' = state /\ threw' = threw
    BY <1>1, <1>9 DEF Connect
  <2>2. Changed(frames, g, frames')
    BY <1>1, <2>1 DEF Advance, GoOn, Changed
  <2>3. EnvRight(code, m, v)
    BY <1>7, <1>9
  <2>. HIDE DEF g, r, f, m, v
  <2>4. PendingIn(frames') = Pending(g) /\ GrantedIn(frames') = Granted(g) /\ ConnectedIn(frames') = Connected(g)
    BY <1>1, <1>3, <2>2, ChangedSets
  <2>5. env'[m] = v /\ Modules \subseteq DOMAIN env' /\ \A k \in Modules : k # m => env'[k] = env[k]
    BY <1>1, <1>5, <2>1
  <2>6. ~ WasLinked(state, threw, m)
    BY <1>1, <1>5 DEF WasLinked, Complete
  <2>7. \A k \in Modules : DOMAIN env'[k] \subseteq Requests(code[k])
    <3>1. DOMAIN v \subseteq Requests(code[m])
      BY <2>3 DEF EnvRight
    <3>. QED
      BY <1>5, <2>5, <3>1
  <2>8. \A k \in Modules : LinkedRight(code, Pending(g), state, hasNs, env', threw, k)
    BY <1>5, <2>5, <2>6 DEF LinkedRight
  <2>9. \A k \in Connected(g) : EnvRight(code, k, env'[k])
    <3>. SUFFICES ASSUME NEW k \in Connected(g) PROVE EnvRight(code, k, env'[k])
      OBVIOUS
    <3>1. CASE k = m
      BY <2>3, <2>5, <3>1
    <3>2. CASE k # m
      <4>1. k \in Connected(f)
        BY <1>3, <3>2
      <4>2. k \in Modules
        <5>1. \A i \in 1..Len(f.stack) : f.stack[i].m \in Modules
          BY <1>1, LinkFields, ItemFields
        <5>. QED
          BY <4>1, <5>1 DEF Connected
      <4>. QED
        BY <1>5, <2>5, <3>2, <4>1, <4>2
    <3>. QED
      BY <3>1, <3>2
  <2>10. Granted(g) \subseteq hasNs
    BY <1>3, <1>5
  <2>11. OutcomeOK(code, Pending(g), Granted(g), Connected(g), state, hasNs, ns, env', threw)
    BY <1>5, <2>5, <2>7, <2>8, <2>9, <2>10 DEF OutcomeOK
  <2>. QED
    BY <2>1, <2>4, <2>11 DEF Outcome
<1>. QED
  BY <1>8, <1>9

\* What is left of the component when a module is linked.
LEMMA PoppedSets ==
  ASSUME NEW c, NEW f, NEW st, NEW anc, NEW res, LinkTypes(c, f, st, anc), LinkOK(c, f, st, anc, res),
         f.pc = "linked", NEW g, Popped(f, g)
  PROVE  Granted(g) \subseteq Granted(f) /\ Connected(g) \subseteq Connected(f)
<1> DEFINE n == Len(f.stack)
<1>1. n \in Nat \ {0} /\ f.base \in 1..n /\ f.base \in Nat \ {0} /\ f.stack # <<>>
  BY LastItem
<1>2. f.stack \in Seq(StackItems)
  BY LinkFields DEF LinkTypes
<1>3. Len(g.stack) = n - 1 /\ \A i \in 1..(n - 1) : g.stack[i] = f.stack[i]
  BY <1>1, <1>2, FrontFacts DEF Popped
<1>4. CASE n > f.base
  <2>1. g.pc = "linked" /\ g.base = f.base
    BY <1>1, <1>4 DEF Popped
  <2>2. \A k \in 1..(n - 1) : k \in 1..n
    BY <1>1
  <2>. HIDE DEF n
  <2>3. \A k \in 1..(n - 1) : k >= f.base => f.stack[k].m \in Granted(f) /\ f.stack[k].m \in Connected(f)
    BY <2>2 DEF Granted, Connected, n
  <2>4. Granted(g) \subseteq Granted(f)
    <3>. SUFFICES ASSUME NEW y \in Granted(g)
                  PROVE  y \in Granted(f)
      OBVIOUS
    <3>1. PICK k \in 1..(n - 1) : y = g.stack[k].m /\ k >= f.base
      BY <1>3, <2>1 DEF Granted
    <3>. QED
      BY <1>3, <2>3, <3>1
  <2>5. Connected(g) \subseteq Connected(f)
    <3>. SUFFICES ASSUME NEW y \in Connected(g)
                  PROVE  y \in Connected(f)
      OBVIOUS
    <3>1. PICK k \in 1..(n - 1) : y = g.stack[k].m /\ k >= f.base
      BY <1>3, <2>1 DEF Connected
    <3>. QED
      BY <1>3, <2>3, <3>1
  <2>. QED
    BY <2>4, <2>5
<1>5. CASE ~ (n > f.base)
  <2>1. g.pc = "find"
    BY <1>1, <1>5 DEF Popped
  <2>. QED
    BY <2>1 DEF Granted, Connected
<1>. QED
  BY <1>4, <1>5

\* A module of the component becomes linked; P1, G1 and K1 are what is left.
LEMMA ItemOutcome ==
  ASSUME ModuleInv, Outcome, Running("link", "linked"),
         NEW y, y = Last(frames).stack[Len(Last(frames).stack)].m, Put(state, y, "linked", state'),
         NEW P1, NEW G1, NEW K1, \A k \in Component(Last(frames)) : k = y \/ k \in P1,
         G1 \subseteq Granted(Last(frames)), K1 \subseteq Connected(Last(frames))
  PROVE  OutcomeOK(code, P1, G1, K1, state', hasNs, ns, env, threw)
<1> DEFINE f == Last(frames)
<1>1. /\ f.pc = "linked" /\ Top = f /\ f \in LinkFrames /\ LinkTop(frames)
      /\ LinkTypes(code, f, state, ancestor) /\ LinkOK(code, f, state, ancestor, resolved)
      /\ TypesOK(code, cache, state, ancestor, resolved, hasNs) /\ RestOK(threw, owner, ns)
  BY LinkRuns
<1>2. PendingIn(frames) = Pending(f) /\ GrantedIn(frames) = Granted(f) /\ ConnectedIn(frames) = Connected(f)
  BY <1>1 DEF PendingIn, GrantedIn, ConnectedIn
<1>. HIDE DEF f
<1>3. /\ Len(f.stack) \in Nat \ {0} /\ f.base \in 1..Len(f.stack)
      /\ y \in Modules /\ state[y] = "linking" /\ y \in Component(f)
      /\ Granted(f) = Component(f) /\ Pending(f) = Component(f)
  BY <1>1, LastItem DEF f
<1>4. /\ Component(f) \in SUBSET Modules
      /\ \A k \in Component(f) : \A t \in Succ(code, k) : state[t] \in Complete \/ t \in Component(f)
  BY <1>1, ComponentClosed DEF Closing
<1>5. y \in Connected(f)
  <2>1. Len(f.stack) \in 1..Len(f.stack) /\ Len(f.stack) >= f.base
    BY <1>3
  <2>. QED
    BY <1>1, <2>1 DEF Connected, f
<1>6. /\ NsOK(code, hasNs, ns) /\ Modules \subseteq DOMAIN env
      /\ \A k \in Modules : DOMAIN env[k] \subseteq Requests(code[k])
      /\ \A k \in Modules : LinkedRight(code, Component(f), state, hasNs, env, threw, k)
      /\ Granted(f) \subseteq hasNs /\ \A k \in Connected(f) : EnvRight(code, k, env[k])
      /\ \A k \in Modules : state[k] = "error" => Spoiled(code, threw, k)
      /\ \A k \in threw : state[k] = "error"
  BY <1>2, <1>3 DEF Outcome, OutcomeOK
<1>7. state'[y] = "linked" /\ \A k \in Modules : k # y => state'[k] = state[k]
  BY <1>1, <1>3 DEF Put, TypesOK
<1>8. \A k \in Modules : WasLinked(state', threw, k) <=> WasLinked(state, threw, k) \/ k = y
  BY <1>3, <1>7 DEF WasLinked, Complete
<1>9. ASSUME NEW k \in Modules, WasLinked(state', threw, k)
      PROVE  /\ k \in hasNs /\ EnvRight(code, k, env[k])
             /\ \A t \in Succ(code, k) : WasLinked(state', threw, t) \/ t \in P1
  <2>1. Succ(code, k) \subseteq Modules
    BY <1>1, GoalFacts DEF TypesOK
  <2>2. \A t \in Modules : WasLinked(state, threw, t) \/ t \in Component(f) =>
                             WasLinked(state', threw, t) \/ t \in P1
    BY <1>8 DEF f
  <2>3. CASE k = y
    <3>1. k \in hasNs /\ EnvRight(code, k, env[k])
      BY <1>3, <1>5, <1>6, <2>3
    <3>2. \A t \in Succ(code, k) : WasLinked(state, threw, t) \/ t \in Component(f)
      BY <1>3, <1>4, <2>3 DEF WasLinked
    <3>. QED
      BY <2>1, <2>2, <3>1, <3>2
  <2>4. CASE k # y
    <3>1. WasLinked(state, threw, k) /\ LinkedRight(code, Component(f), state, hasNs, env, threw, k)
      BY <1>6, <1>8, <1>9, <2>4
    <3>2. /\ k \in hasNs /\ EnvRight(code, k, env[k])
          /\ \A t \in Succ(code, k) : WasLinked(state, threw, t) \/ t \in Component(f)
      BY <3>1 DEF LinkedRight
    <3>. QED
      BY <2>1, <2>2, <3>2
  <2>. QED
    BY <2>3, <2>4
<1>10. \A k \in Modules : LinkedRight(code, P1, state', hasNs, env, threw, k)
  BY <1>9 DEF LinkedRight
<1>11. \A k \in Modules : state'[k] = "error" => Spoiled(code, threw, k)
  BY <1>6, <1>7
<1>12. \A k \in threw : state'[k] = "error"
  BY <1>1, <1>3, <1>6, <1>7 DEF RestOK
<1>13. G1 \subseteq hasNs /\ \A k \in K1 : EnvRight(code, k, env[k])
  BY <1>6 DEF f
<1>. QED
  BY <1>6, <1>10, <1>11, <1>12, <1>13 DEF OutcomeOK

\* The link announces a module.
LEMMA LinkedOutcome ==
  ASSUME ModuleInv, Outcome, Linked
  PROVE  Outcome'
<1> DEFINE f == Last(frames)
           y == f.stack[Len(f.stack)].m
<1>0. Running("link", "linked")
  BY DEF Linked
<1>1. /\ f.pc = "linked" /\ Top = f /\ frames \in Seq(Frames) /\ frames # <<>>
      /\ LinkTypes(code, f, state, ancestor) /\ LinkOK(code, f, state, ancestor, resolved)
      /\ LinkTop(frames) /\ f \in LinkFrames
      /\ ModuleOK(code, frames, cache, state, ancestor, resolved, hasNs)
  BY <1>0, LinkRuns
<1>2. Len(f.stack) \in Nat \ {0} /\ f.base \in 1..Len(f.stack) /\ f.stack # <<>>
  <2>. HIDE DEF f
  <2>. QED
    BY <1>1, LastItem
<1>3. Put(state, y, "linked", state')
  <2>1. Last(f.stack).m = y
    <3>. HIDE DEF f
    <3>. QED
      BY <1>2 DEF Last
  <2>. QED
    BY <1>1, <2>1 DEF Linked, Put
<1>4. code' = code /\ hasNs' = hasNs /\ ns' = ns /\ env' = env /\ threw' = threw
  BY DEF Linked, link
<1>5. ASSUME NEW g, g \in LinkFrames, Popped(f, g), Changed(frames, g, frames') PROVE Outcome'
  <2>. HIDE DEF f, y
  <2>1. \A k \in Component(f) : k = y \/ k \in Pending(g)
    BY <1>1, <1>5, PoppedRest DEF y
  <2>2. Granted(g) \subseteq Granted(f) /\ Connected(g) \subseteq Connected(f)
    BY <1>1, <1>5, PoppedSets
  <2>3. OutcomeOK(code, Pending(g), Granted(g), Connected(g), state', hasNs, ns, env, threw)
    BY <1>0, <1>3, <2>1, <2>2, ItemOutcome DEF f, y
  <2>4. PendingIn(frames') = Pending(g) /\ GrantedIn(frames') = Granted(g) /\ ConnectedIn(frames') = Connected(g)
    BY <1>1, <1>5, ChangedSets
  <2>. QED
    BY <1>4, <2>3, <2>4 DEF Outcome
<1>6. CASE Len(f.stack) > f.base
  <2> DEFINE g == [f EXCEPT !.stack = Front(@)]
  <2>1. Changed(frames, g, frames') /\ TookOff(f, g)
    BY <1>1, <1>6 DEF Linked, GoOn, Changed, TookOff
  <2>. HIDE DEF g, f, y
  <2>2. g \in LinkFrames /\ Popped(f, g)
    BY <1>1, <1>2, <1>6, <2>1, FramePops
  <2>. QED
    BY <1>5, <2>1, <2>2
<1>7. CASE ~ (Len(f.stack) > f.base) /\ f.cur # 0
  <2> DEFINE g == [f EXCEPT !.stack = Front(@), !.pc = "find"]
  <2>1. Changed(frames, g, frames') /\ WentOn(f, g)
    BY <1>1, <1>7 DEF Linked, GoOn, Changed, WentOn
  <2>. HIDE DEF g, f, y
  <2>2. Len(f.stack) = f.base
    BY <1>2, <1>7
  <2>3. g \in LinkFrames /\ Popped(f, g)
    BY <1>1, <1>2, <1>7, <2>1, <2>2, FramePops
  <2>. QED
    BY <1>5, <2>1, <2>3
<1>8. CASE ~ (Len(f.stack) > f.base) /\ f.cur = 0
  <2>1. frames' = Returned(frames, TRUE)
    BY <1>1, <1>8 DEF Linked, Return, Returned
  <2>. HIDE DEF f, y
  <2>2. Len(f.stack) = f.base
    BY <1>2, <1>8
  <2>3. \A k \in Component(f) : k = y \/ k \in {}
    <3>1. \A i \in f.base..Len(f.stack) : i = Len(f.stack)
      BY <1>2, <2>2
    <3>. QED
      BY <3>1 DEF Component, y
  <2>4. code \in Programs /\ CallsOK(code, frames, cache) /\ EvalsOK(code, frames, state)
    BY <1>1 DEF ModuleOK, TypesOK
  <2>5. ~ LinkTop(frames')
    <3>1. \A ok : ~ LinkTop(Returned(frames, ok))
      BY <1>1, <2>4, SameStates, LinkReturns
    <3>. QED
      BY <2>1, <3>1, Zenon
  <2>6. Idle(frames')
    BY <2>5, IdleFrames
  <2>7. {} \subseteq Granted(f) /\ {} \subseteq Connected(f)
    OBVIOUS
  <2>8. OutcomeOK(code, {}, {}, {}, state', hasNs, ns, env, threw)
    BY <1>0, <1>3, <2>3, <2>7, ItemOutcome DEF f, y
  <2>. QED
    BY <1>4, <2>6, <2>8 DEF Outcome, Idle
<1>. QED
  BY <1>6, <1>7, <1>8

\* The program has linked nothing at the start.
LEMMA InitOutcome ==
  ASSUME Init
  PROVE  Outcome
<1>1. /\ threw = {} /\ hasNs = {} /\ frames = <<>>
      /\ state = [m \in Modules |-> "unlinked"] /\ env = [m \in Modules |-> NoExports]
  BY DEF Init
<1>2. Idle(frames)
  BY <1>1, IdleFrames DEF LinkTop
<1>3. \A m \in Modules : ~ WasLinked(state, threw, m) /\ state[m] # "error"
  BY <1>1 DEF WasLinked, Complete
<1>4. Modules \subseteq DOMAIN env /\ \A m \in Modules : DOMAIN env[m] = {}
  BY <1>1 DEF NoExports
<1>5. OutcomeOK(code, {}, {}, {}, state, hasNs, ns, env, threw)
  BY <1>1, <1>3, <1>4 DEF OutcomeOK, LinkedRight, NsOK
<1>. QED
  BY <1>2, <1>5 DEF Outcome, Idle

\* Every step keeps what linking comes to.
LEMMA NextOutcome ==
  ASSUME ModuleInv, OutcomeInv, [Next]_vars
  PROVE  OutcomeInv'
<1>0. ModuleInv' /\ Forward(state, state')
  BY NextOK
<1>1. CASE UNCHANGED vars
  <2>1. UNCHANGED <<code, cache, state, resolved, ancestor, hasNs, ns, env, frames, threw>>
    BY <1>1 DEF vars, link
  <2>. QED
    BY <2>1 DEF OutcomeInv, Outcome
<1>2. CASE Next
  <2>1. code' = code
    BY <1>2, ZenonT(60) DEF Next, EngineStep, LinkStep, Import, Link, Evaluate, ImportLink, ImportEvaluate, ResolveNode,
       ResolveNodeFails, ResolveEnd, Visit, Leave, CreateNamespaceObject, Connect, Linked, EvaluateImport,
       RunCode, ImportFailed, CodeReturns, CodeThrows
  <2>. SUFFICES ASSUME Plain(code) PROVE Outcome'
    BY <2>1 DEF OutcomeInv
  <2>2. Outcome
    BY DEF OutcomeInv
  <2>3. CASE LinkStep
    BY <1>0, <2>2, <2>3, ResolveNodeOutcome, ResolveNodeFailsOutcome, SearchOutcome, NamespaceOutcome,
       ConnectOutcome, LinkedOutcome DEF LinkStep
  <2>4. CASE EngineStep
    BY <1>0, <2>2, <2>3, <2>4, CallsOutcome, EvaluationOutcome DEF EngineStep
  <2>5. CASE \E m \in Modules : Import(m) \/ Link(m) \/ Evaluate(m)
    BY <1>0, <2>2, <2>5, ImportOutcome, CallsOutcome
  <2>. QED
    BY <1>2, <2>4, <2>5, SMTT(60) DEF Next
<1>. QED
  BY <1>1, <1>2

\* No re-export is ambiguous if the program is plain.
LEMMA PlainCode ==
  ASSUME NoAmbiguousReexport
  PROVE  Plain(code)
BY DEF Plain, NoAmbiguousReexport

\* What the invariants say about the outcome of linking.
LEMMA InvOutcome ==
  ASSUME ModuleInv, OutcomeInv
  PROVE  LinkOutcome
<1>. SUFFICES ASSUME NoAmbiguousReexport, NEW m \in Modules
              PROVE /\ state[m] \in Complete =>
                         /\ DOMAIN ns[m] = {n \in Names : Cardinality(Bindings(code, m, n)) = 1}
                         /\ \A n \in DOMAIN ns[m] : Bindings(code, m, n) = {ns[m][n]}
                         /\ DOMAIN env[m] = Requests(code[m])
                         /\ \A r \in DOMAIN env[m] : Bindings(code, r[1], r[2]) = {env[m][r]}
                    /\ state[m] = "error" =>
                         \E k \in Reach({m}, Modules) : k \in threw \/ Broken(code, k)
  BY DEF LinkOutcome
<1>1. code \in Programs /\ Plain(code) /\ Outcome
  <2>1. code \in Programs
    BY InvParts DEF ModuleOK, TypesOK
  <2>. QED
    BY <2>1, PlainCode DEF OutcomeInv
<1>2. /\ NsOK(code, hasNs, ns)
      /\ LinkedRight(code, PendingIn(frames), state, hasNs, env, threw, m)
      /\ GrantedIn(frames) \subseteq hasNs
      /\ state[m] = "error" => Spoiled(code, threw, m)
  BY <1>1 DEF Outcome, OutcomeOK
<1>3. ASSUME state[m] = "error"
      PROVE  \E k \in Reach({m}, Modules) : k \in threw \/ Broken(code, k)
  <2>1. PICK k \in Modules : Leads(code, m, k, Modules) /\ (k \in threw \/ Broken(code, k))
    BY <1>2, <1>3 DEF Spoiled
  <2>2. k \in Reach({m}, Modules)
    BY <1>1, <2>1, LeadsReach
  <2>. QED
    BY <2>1, <2>2
<1>4. ASSUME state[m] \in Complete
      PROVE  /\ DOMAIN ns[m] = {n \in Names : Cardinality(Bindings(code, m, n)) = 1}
             /\ \A n \in DOMAIN ns[m] : Bindings(code, m, n) = {ns[m][n]}
             /\ DOMAIN env[m] = Requests(code[m])
             /\ \A r \in DOMAIN env[m] : Bindings(code, r[1], r[2]) = {env[m][r]}
  <2>1. m \in hasNs /\ EnvRight(code, m, env[m]) /\ WasLinked(state, threw, m)
    BY <1>2, <1>4 DEF LinkedRight, WasLinked
  <2>2. NsRight(code, m, ns[m])
    BY <1>2, <2>1 DEF NsOK
  <2>3. AllSolid(code, m)
    <3> DEFINE Q == PendingIn(frames)
    <3>1. /\ Q \in SUBSET Modules /\ Q \subseteq hasNs
          /\ \A k \in Q : \A t \in Succ(code, k) : state[t] \in Complete \/ t \in Q
      <4>1. CASE LinkTop(frames) /\ Last(frames).pc = "linked"
        <5>1. /\ LinkTypes(code, Last(frames), state, ancestor)
              /\ LinkOK(code, Last(frames), state, ancestor, resolved)
          BY <4>1, InvParts, LinkInProgress
        <5>2. Granted(Last(frames)) = Component(Last(frames)) /\ Pending(Last(frames)) = Component(Last(frames))
          BY <4>1, <5>1, LastItem
        <5>3. Q = Component(Last(frames)) /\ GrantedIn(frames) = Component(Last(frames))
          BY <4>1, <5>2 DEF PendingIn, GrantedIn
        <5>4. /\ Component(Last(frames)) \in SUBSET Modules
              /\ \A k \in Component(Last(frames)) : \A t \in Succ(code, k) :
                   state[t] \in Complete \/ t \in Component(Last(frames))
          BY <4>1, <5>1, ComponentClosed DEF Closing
        <5>. HIDE DEF Q
        <5>. QED
          BY <1>2, <5>3, <5>4
      <4>2. CASE ~ (LinkTop(frames) /\ Last(frames).pc = "linked")
        <5>1. Q = {}
          BY <4>2 DEF PendingIn, Pending
        <5>. HIDE DEF Q
        <5>. QED
          BY <5>1
      <4>. QED
        BY <4>1, <4>2
    <3>2. PendingIn(frames) \subseteq Q
      OBVIOUS
    <3>. HIDE DEF Q
    <3>. QED
      BY <1>1, <2>1, <3>1, <3>2, LinkedSolid
  <2> DEFINE x == ns[m]
             e == env[m]
  <2>3a. NsRight(code, m, x) /\ EnvRight(code, m, e)
    BY <2>1, <2>2
  <2>. HIDE DEF x, e
  <2>4. \A n \in Names : n \in DOMAIN x <=> \E y : Meaning(code, <<m, n>>) = {y}
    BY <2>3, <2>3a DEF NsRight
  <2>5. \A n \in Names : Bindings(code, m, n) = Meaning(code, <<m, n>>) /\ <<m, n>> \in Refs
    BY DEF Meaning, Refs
  <2>6. \A n \in Names : Cardinality(Bindings(code, m, n)) = 1 <=> \E y : Meaning(code, <<m, n>>) = {y}
    BY <1>1, <2>5, MeaningCount
  <2>7. DOMAIN x = {n \in Names : Cardinality(Bindings(code, m, n)) = 1}
    BY <2>3a, <2>4, <2>6 DEF NsRight
  <2>8. ASSUME NEW n \in DOMAIN x PROVE Bindings(code, m, n) = {x[n]}
    <3>1. n \in Names /\ x[n] \in Meaning(code, <<m, n>>)
      BY <2>3a DEF NsRight
    <3>2. \E y : Meaning(code, <<m, n>>) = {y}
      BY <2>4, <3>1
    <3>. QED
      BY <2>5, <3>1, <3>2
  <2>9. DOMAIN e = Requests(code[m]) /\ \A r \in DOMAIN e : Bindings(code, r[1], r[2]) = {e[r]}
    BY <2>3a DEF EnvRight, Meaning
  <2>. QED
    BY <2>7, <2>8, <2>9 DEF x, e
<1>. QED
  BY <1>3, <1>4

-----------------------------------------------------------------------------
(* The theorems                                                            *)

\* The inductive invariant: the calls nest as the code makes them, the stack of
\* the link in progress is a depth-first search, the imports of a linked module
\* are linked, and a module with a namespace that is not linked leads to one
\* that failed.
THEOREM ModuleInvariant == Spec => []ModuleInv
<1>1. Init => ModuleInv
  BY InitOK
<1>2. ModuleInv /\ [Next]_vars => ModuleInv'
  BY NextOK
<1>. QED
  BY <1>1, <1>2, PTL DEF Spec

\* Every way out of ecma_module_link and ecma_module_evaluate, the failing ones
\* included, leaves no module LINKING that is not on the stack of a link, and
\* none EVALUATING that no call evaluates.
THEOREM StatesTellCalls == Spec => []StatesMatchCalls
<1>1. ModuleInv => StatesMatchCalls
  BY InvStates
<1>. QED
  BY <1>1, ModuleInvariant, PTL

\* Linking is all or nothing: when ecma_module_link has announced a module as
\* LINKED, its imports are resolved and linked too, or are about to be.
THEOREM LinkedImports == Spec => []LinkedClosed
<1>1. ModuleInv => LinkedClosed
  BY InvClosed
<1>. QED
  BY <1>1, ModuleInvariant, PTL

\* The assertion of ecma_module_create_namespace_object never fails, also when
\* modules are linked again after a failed link.
THEOREM NamespacesCreatedOnce == Spec => []NamespaceOnce
<1>1. ModuleInv => NamespaceOnce
  BY InvNamespace
<1>. QED
  BY <1>1, ModuleInvariant, PTL

\* The indices of ecma_module_link find exactly the strongly connected
\* components of the modules that are being linked, in any graph of imports.
THEOREM ComponentsExact == Spec => []ComponentExact
<1>1. ModuleInv => ComponentExact
  BY InvComponent
<1>. QED
  BY <1>1, ModuleInvariant, PTL

\* The code of a module runs after the code of what it imports, cycles aside.
THEOREM ImportsFirst == Spec => []EvaluationOrder
<1>1. ModuleInv => EvaluationOrder
  BY InvOrder
<1>. QED
  BY <1>1, ModuleInvariant, PTL

\* The label error of ecma_module_link takes back only what this link did: a
\* linked module stays linked, an evaluated or failed one is never touched.
THEOREM StatesOnlyForward == Spec => OnlyForward
<1> DEFINE A == \A m \in Modules :
                  /\ state[m] \in Complete => state'[m] \notin {"unlinked", "linking"}
                  /\ state[m] \in {"evaluated", "error"} => state'[m] = state[m]
<1>1. ModuleInv /\ [Next]_vars => [A]_vars
  BY NextOK DEF Forward
<1>. QED
  BY <1>1, ModuleInvariant, PTL DEF Spec, OnlyForward

\* The namespace and the imports of a linked module are what its code means, in
\* whatever order modules were linked and evaluated before, and a module fails
\* only for a reason: ecma_module_resolve_export finds the one binding that a
\* name stands for, if there is one, also through namespaces that are complete
\* and others that are not yet created.
THEOREM LinksMeanCode == Spec => []LinkOutcome
<1>1. Init => ModuleInv /\ OutcomeInv
  BY InitOK, InitOutcome DEF OutcomeInv
<1>2. ModuleInv /\ OutcomeInv /\ [Next]_vars => (ModuleInv /\ OutcomeInv)'
  BY NextOK, NextOutcome
<1>3. ModuleInv /\ OutcomeInv => LinkOutcome
  BY InvOutcome
<1>. QED
  BY <1>1, <1>2, <1>3, PTL DEF Spec

=============================================================================
