------------------------- MODULE EcmaPropertyProofs -------------------------
(***************************************************************************)
(* Proofs about EcmaProperty, for every number of objects, names and       *)
(* pairs, every size of the tables and every cache: the lookup cache, the  *)
(* hashmaps and the lists of pairs stay in step, as long as no weak        *)
(* reference makes a hashmap inside ecma_property_hashmap_create.          *)
(***************************************************************************)
EXTENDS EcmaProperty, FiniteSetTheorems, SequenceTheorems, TLAPS

-----------------------------------------------------------------------------
(* Numbers                                                                 *)

\* Every non-empty set of numbers has a least one.
LEMMA LeastNumber ==
  ASSUME NEW T \in SUBSET Nat, T # {}
  PROVE  \E x \in T : \A y \in T : x <= y
<1>1. PICK x \in T : \A y \in T : ~ (<<y, x>> \in OpToRel(<, Nat))
  BY NatLessThanWellFounded, WFMin
<1>2. \A y \in T : ~ (y < x)
  BY <1>1 DEF OpToRel
<1>. QED
  BY <1>2

\* A function that takes the step h[i] from i - 1 to i exists.
Repeats(f, x0, h, N) == f[0] = x0 /\ \A i \in 1..N : f[i] = h[i][f[i - 1]]

\* A recursion over 1..N has a solution.
LEMMA RecursionExists ==
  ASSUME NEW N \in Nat, NEW X, NEW x0 \in X, NEW h \in [1..N -> [X -> X]]
  PROVE  \E f \in [0..N -> X] : Repeats(f, x0, h, N)
<1> DEFINE P(f, n) == f \in [0..n -> X] /\ Repeats(f, x0, h, n)
           T == {n \in 0..N : ~ \E f : P(f, n)}
<1>. SUFFICES ASSUME T # {} PROVE FALSE
  <2>1. N \in 0..N
    OBVIOUS
  <2>. QED
    BY <2>1
<1>0. T \in SUBSET Nat
  OBVIOUS
<1>1. PICK n \in T : \A k \in T : n <= k
  BY <1>0, LeastNumber
<1>2. CASE n = 0
  <2> DEFINE g == [i \in 0..0 |-> x0]
  <2>1. P(g, 0)
    BY DEF Repeats
  <2>. QED
    BY <1>1, <1>2, <2>1
<1>3. CASE n # 0
  <2>1. n \in Nat /\ n \in 1..N /\ n - 1 \in 0..N /\ n - 1 \in Nat /\ n - 1 \notin T
    <3>1. n \in 0..N
      BY <1>1
    <3>. HIDE DEF T
    <3>. QED
      BY <1>1, <1>3, <3>1
  <2>2. PICK f : P(f, n - 1)
    BY <2>1
  <2> DEFINE g == [i \in 0..n |-> IF i = n THEN h[n][f[n - 1]] ELSE f[i]]
  <2>3. f[n - 1] \in X
    BY <2>1, <2>2
  <2>4. g \in [0..n -> X] /\ g[0] = x0
    BY <1>3, <2>1, <2>2, <2>3 DEF Repeats
  <2>5. ASSUME NEW i \in 1..n PROVE g[i] = h[i][g[i - 1]]
    <3>1. i \in 0..n /\ i - 1 \in 0..n /\ i - 1 # n
      BY <2>1
    <3>2. g[i - 1] = f[i - 1]
      BY <3>1
    <3>3. CASE i = n
      BY <3>1, <3>2, <3>3
    <3>4. CASE i # n
      <4>1. i \in 1..(n - 1) /\ g[i] = f[i]
        BY <2>1, <3>1, <3>4
      <4>. QED
        BY <2>2, <3>2, <4>1 DEF Repeats
    <3>. QED
      BY <3>3, <3>4
  <2>6. P(g, n)
    BY <2>4, <2>5 DEF Repeats
  <2>. QED
    BY <1>1, <2>6
<1>. QED
  BY <1>2, <1>3

\* The powers of two.
LEMMA PowerFacts ==
  /\ PowerOfTwo \in [Nat -> Nat] /\ PowerOfTwo[0] = 1
  /\ \A k \in Nat : PowerOfTwo[k + 1] = 2 * PowerOfTwo[k]
<1> DEFINE E(f) == f = [k \in Nat |-> IF k = 0 THEN 1 ELSE 2 * f[k - 1]]
           P(g, n) == g \in [0..n -> Nat] /\ g[0] = 1 /\ \A i \in 1..n : g[i] = 2 * g[i - 1]
           F == [k \in Nat |-> (CHOOSE g : P(g, k))[k]]
<1>1. ASSUME NEW n \in Nat PROVE \E g : P(g, n)
  <2> DEFINE h == [i \in 1..n |-> [x \in Nat |-> 2 * x]]
  <2>1. h \in [1..n -> [Nat -> Nat]] /\ 1 \in Nat
    OBVIOUS
  <2>2. PICK g \in [0..n -> Nat] : Repeats(g, 1, h, n)
    BY <2>1, RecursionExists
  <2>3. \A i \in 1..n : g[i - 1] \in Nat
    OBVIOUS
  <2>. QED
    BY <2>2, <2>3 DEF Repeats
<1>2. ASSUME NEW n \in Nat, NEW g, P(g, n), NEW m \in Nat, NEW f, P(f, m), NEW i \in 0..n, i \in 0..m
      PROVE  g[i] = f[i]
  <2> DEFINE T == {j \in Nat : j \in 0..n /\ j \in 0..m /\ g[j] # f[j]}
  <2>0. i \in Nat
    OBVIOUS
  <2>. SUFFICES ASSUME T # {} PROVE FALSE
    <3>. HIDE DEF P
    <3>. QED
      BY <1>2, <2>0
  <2>1. PICK j \in T : \A k \in T : j <= k
    BY LeastNumber
  <2>2. j # 0
    BY <1>2, <2>1
  <2>3. j \in 1..n /\ j \in 1..m /\ j - 1 \in Nat /\ j - 1 \in 0..n /\ j - 1 \in 0..m /\ j - 1 \notin T
    <3>1. j \in Nat /\ j \in 0..n /\ j \in 0..m
      BY <2>1
    <3>. HIDE DEF T
    <3>. QED
      BY <2>1, <2>2, <3>1
  <2>. QED
    BY <1>2, <2>1, <2>3
<1>3. \A k \in Nat : P(CHOOSE g : P(g, k), k)
  BY <1>1
<1>4. F \in [Nat -> Nat] /\ F[0] = 1
  <2>1. \A k \in Nat : k \in 0..k /\ (CHOOSE g : P(g, k))[k] \in Nat
    BY <1>3
  <2>. QED
    BY <1>3, <2>1
<1>5. ASSUME NEW k \in Nat, k # 0 PROVE F[k] = 2 * F[k - 1]
  <2> DEFINE a == CHOOSE g : P(g, k)
             b == CHOOSE g : P(g, k - 1)
  <2>1. k \in 1..k /\ k - 1 \in Nat /\ k - 1 \in 0..(k - 1) /\ k - 1 \in 0..k
    BY <1>5
  <2>2. P(a, k) /\ P(b, k - 1)
    BY <1>3, <2>1
  <2>3. F[k] = a[k] /\ F[k - 1] = b[k - 1]
    BY <2>1
  <2>. HIDE DEF a, b, F
  <2>4. a[k - 1] = b[k - 1]
    <3>. HIDE DEF P
    <3>. QED
      BY <1>2, <2>1, <2>2
  <2>. QED
    BY <2>1, <2>2, <2>3, <2>4
<1>6. E(F)
  <2>. HIDE DEF F
  <2>1. F = [k \in Nat |-> F[k]]
    BY <1>4
  <2>2. \A k \in Nat : F[k] = IF k = 0 THEN 1 ELSE 2 * F[k - 1]
    BY <1>4, <1>5
  <2>. QED
    BY <2>1, <2>2
<1>7. PowerOfTwo = CHOOSE f : E(f)
  BY DEF PowerOfTwo
<1>8. E(PowerOfTwo)
  <2>. HIDE DEF F
  <2>. QED
    BY <1>6, <1>7
<1>9. PowerOfTwo[0] = 1 /\ \A k \in Nat : PowerOfTwo[k + 1] = 2 * PowerOfTwo[k]
  <2>. HIDE DEF F
  <2>. QED
    BY <1>8
<1>10. \A k \in Nat : PowerOfTwo[k] \in Nat
  <2> DEFINE T == {k \in Nat : PowerOfTwo[k] \notin Nat}
  <2>. SUFFICES ASSUME T # {} PROVE FALSE
    OBVIOUS
  <2>1. PICK k \in T : \A j \in T : k <= j
    BY LeastNumber
  <2>2. k \in Nat /\ k # 0 /\ PowerOfTwo[k] \notin Nat
    BY <1>9, <2>1
  <2>3. k - 1 \in Nat /\ k - 1 \notin T
    <3>. HIDE DEF T
    <3>. QED
      BY <2>1, <2>2
  <2>4. PowerOfTwo[k - 1] \in Nat /\ PowerOfTwo[(k - 1) + 1] = 2 * PowerOfTwo[k - 1]
    BY <1>9, <2>3
  <2>. QED
    BY <2>2, <2>4
<1>11. PowerOfTwo = [k \in Nat |-> PowerOfTwo[k]]
  <2>. HIDE DEF F
  <2>. QED
    BY <1>8
<1>. QED
  BY <1>9, <1>10, <1>11

\* What an odd number does not change.
Odd(s) == \E t \in Nat : s = 2 * t + 1
Divides(a, b) == \E q \in Nat : b = a * q

\* A power of two that divides a multiple by an odd number divides the number.
LEMMA OddCancels ==
  ASSUME NEW s \in Nat, Odd(s), NEW j \in Nat, NEW d \in Nat, Divides(PowerOfTwo[j], d * s)
  PROVE  Divides(PowerOfTwo[j], d)
<1> DEFINE T == {i \in Nat : ~ \A x \in Nat : Divides(PowerOfTwo[i], x * s) => Divides(PowerOfTwo[i], x)}
<1>. SUFFICES ASSUME T # {} PROVE FALSE
  OBVIOUS
<1>1. PICK i \in T : \A k \in T : i <= k
  BY LeastNumber
<1>2. PICK x \in Nat : Divides(PowerOfTwo[i], x * s) /\ ~ Divides(PowerOfTwo[i], x)
  BY <1>1
<1>3. i \in Nat /\ i # 0
  <2>1. Divides(PowerOfTwo[0], x)
    BY PowerFacts DEF Divides
  <2>. QED
    BY <1>1, <1>2, <2>1
<1>4. i - 1 \in Nat /\ i - 1 \notin T
  <2>. HIDE DEF T
  <2>. QED
    BY <1>1, <1>3
<1> DEFINE P == PowerOfTwo[i - 1]
<1>5. P \in Nat /\ PowerOfTwo[i] = 2 * P
  BY <1>3, <1>4, PowerFacts
<1>6. Divides(P, x * s) => Divides(P, x)
  BY <1>4
<1>. HIDE DEF P
<1>7. PICK r \in Nat : x * s = (2 * P) * r
  BY <1>2, <1>5 DEF Divides
<1>8. x * s = P * (2 * r)
  BY <1>5, <1>7
<1>9. PICK q \in Nat : x = P * q
  BY <1>6, <1>8 DEF Divides
<1>10. PICK t \in Nat : s = 2 * t + 1
  BY DEF Odd
<1>11. CASE P = 0
  <2>1. x = (2 * P) * 0
    BY <1>9, <1>11
  <2>. QED
    BY <1>2, <1>5, <2>1 DEF Divides
<1>12. CASE P # 0
  <2>1. x * s = P * (q * s)
    BY <1>5, <1>9
  <2>2. P * (q * s) = P * (2 * r) /\ q * s \in Nat /\ 2 * r \in Nat
    BY <1>8, <2>1
  <2>3. \A a, b, c \in Nat : a # 0 /\ a * b = a * c => b = c
    OBVIOUS
  <2>4. q * s = 2 * r
    BY <1>5, <1>12, <2>2, <2>3
  <2>5. q * s = 2 * (q * t) + q /\ q * t \in Nat
    BY <1>10
  <2> DEFINE u == q * t
             v == r - u
  <2>6. q = 2 * v /\ v \in Nat
    <3>1. u \in Nat /\ q + 2 * u = 2 * r
      BY <2>4, <2>5
    <3>. HIDE DEF u
    <3>. QED
      BY <3>1
  <2>. HIDE DEF v
  <2>7. x = (2 * P) * v
    BY <1>5, <1>9, <2>6
  <2>. QED
    BY <1>2, <1>5, <2>6, <2>7 DEF Divides
<1>. QED
  BY <1>11, <1>12

-----------------------------------------------------------------------------
(* The entries that a search looks at                                      *)

\* The sizes of hashmaps.
IsSize(size) == size \in Nat /\ size >= MinSize /\ \E j \in Nat : size = PowerOfTwo[j]

\* The steps of ecma_property_hashmap_steps are odd.
LEMMA StepOdd ==
  ASSUME NEW n \in Nat
  PROVE  Steps[(n % 8) + 1] \in Nat /\ Odd(Steps[(n % 8) + 1])
<1>1. \A i \in 1..8 : Steps[i] \in {3, 5, 7, 11, 13, 17, 19, 23}
  BY DEF Steps
<1>2. (n % 8) + 1 \in 1..8
  OBVIOUS
<1>3. \A s \in {3, 5, 7, 11, 13, 17, 19, 23} : s \in Nat /\ Odd(s)
  <2>1. /\ 3 = 2 * 1 + 1 /\ 5 = 2 * 2 + 1 /\ 7 = 2 * 3 + 1 /\ 11 = 2 * 5 + 1
        /\ 13 = 2 * 6 + 1 /\ 17 = 2 * 8 + 1 /\ 19 = 2 * 9 + 1 /\ 23 = 2 * 11 + 1
    OBVIOUS
  <2>. QED
    BY <2>1 DEF Odd
<1>. QED
  BY <1>1, <1>2, <1>3

\* What is assumed of the smallest size.
LEMMA MinSizeFacts ==
  /\ MinSize \in Nat /\ MinSize >= 2 /\ NullFraction \in Nat \ {0}
  /\ \E j \in Nat : MinSize = PowerOfTwo[j]
  /\ MinSize \div 2 >= 1 /\ MinSize \div 2 \in Nat
<1>1. PICK k \in 1..5 : MinSize = PowerOfTwo[k]
  BY PropertyAssumption
<1>2. /\ PowerOfTwo[0] = 1 /\ PowerOfTwo[0 + 1] = 2 * PowerOfTwo[0]
      /\ PowerOfTwo[1 + 1] = 2 * PowerOfTwo[1] /\ PowerOfTwo[2 + 1] = 2 * PowerOfTwo[2]
      /\ PowerOfTwo[3 + 1] = 2 * PowerOfTwo[3] /\ PowerOfTwo[4 + 1] = 2 * PowerOfTwo[4]
  BY PowerFacts
<1>3. /\ PowerOfTwo[1] = 2 /\ PowerOfTwo[2] = 4 /\ PowerOfTwo[3] = 8 /\ PowerOfTwo[4] = 16
      /\ PowerOfTwo[5] = 32
  BY <1>2
<1>4. MinSize \in {2, 4, 8, 16, 32}
  BY <1>1, <1>3
<1>. QED
  BY <1>1, <1>4, PropertyAssumption

\* A hashmap has two entries or more.
LEMMA SizeFacts ==
  ASSUME NEW size, IsSize(size)
  PROVE  size \in Nat /\ size >= 2
BY MinSizeFacts DEF IsSize

\* A search stays inside the hashmap.
LEMMA ProbeType ==
  ASSUME NEW size \in Nat \ {0}, NEW n \in Nat, NEW k \in Int
  PROVE  Probe(size, n, k) \in 0..(size - 1)
<1> DEFINE s == Steps[(n % 8) + 1]
           x == (n % size) + k * s
<1>1. s \in Nat
  BY StepOdd
<1>2. x \in Int
  BY <1>1
<1>. HIDE DEF x
<1>3. x % size \in 0..(size - 1)
  BY <1>2
<1>. QED
  BY <1>3 DEF Probe, x

\* Equal remainders differ by a multiple.
LEMMA SameRemainder ==
  ASSUME NEW size \in Nat \ {0}, NEW a \in Nat, NEW b \in Nat, a <= b, a % size = b % size
  PROVE  Divides(size, b - a)
<1> DEFINE x == a \div size
           y == b \div size
           r == a % size
<1>1. x \in Nat /\ y \in Nat /\ r \in 0..(size - 1)
  OBVIOUS
<1>2. a = size * x + r /\ b = size * y + r
  OBVIOUS
<1>. HIDE DEF x, y, r
<1>3. b - a = size * (y - x)
  BY <1>1, <1>2
<1>4. y - x >= 0
  <2>. SUFFICES ASSUME y - x < 0 PROVE FALSE
    BY <1>1
  <2> DEFINE z == x - y
  <2>1. z \in Nat /\ z >= 1 /\ b - a = 0 - (size * z)
    BY <1>1, <1>3
  <2>2. size * z >= 1
    BY <2>1
  <2>. HIDE DEF z
  <2>. QED
    BY <2>1, <2>2
<1> DEFINE w == y - x
<1>5. w \in Nat /\ b - a = size * w
  BY <1>1, <1>3, <1>4
<1>. HIDE DEF w
<1>. QED
  BY <1>5 DEF Divides

\* No entry is looked at twice,
LEMMA ProbeOnce ==
  ASSUME NEW size, IsSize(size), NEW n \in Nat,
         NEW k1 \in 0..(size - 1), NEW k2 \in 0..(size - 1), k1 < k2
  PROVE  Probe(size, n, k1) # Probe(size, n, k2)
<1>. SUFFICES ASSUME Probe(size, n, k1) = Probe(size, n, k2) PROVE FALSE
  OBVIOUS
<1> DEFINE s == Steps[(n % 8) + 1]
           a == (n % size) + k1 * s
           b == (n % size) + k2 * s
           d == k2 - k1
<1>1. size \in Nat \ {0} /\ s \in Nat /\ Odd(s) /\ k1 \in Nat /\ k2 \in Nat
  BY SizeFacts, StepOdd
<1>2. n % size \in Nat
  BY <1>1
<1>. HIDE DEF s
<1>3. k1 * s \in Nat /\ k2 * s \in Nat /\ d \in Nat /\ d > 0 /\ d < size /\ d * s \in Nat
      /\ k2 * s = k1 * s + d * s
  BY <1>1
<1>4. a \in Nat /\ b \in Nat /\ a <= b /\ b - a = d * s
  BY <1>2, <1>3
<1>5. a % size = b % size
  BY DEF Probe, s
<1>. HIDE DEF a, b, d
<1>6. Divides(size, d * s)
  BY <1>1, <1>4, <1>5, SameRemainder
<1>7. Divides(size, d)
  BY <1>1, <1>3, <1>6, OddCancels DEF IsSize
<1>8. PICK q \in Nat : d = size * q
  BY <1>7 DEF Divides
<1>9. q # 0
  BY <1>1, <1>3, <1>8
<1>10. size * q >= size
  BY <1>1, <1>9
<1>. QED
  BY <1>1, <1>3, <1>8, <1>10

\* and every entry is looked at.
LEMMA ProbeAll ==
  ASSUME NEW size, IsSize(size), NEW n \in Nat, NEW e \in 0..(size - 1)
  PROVE  \E k \in 0..(size - 1) : Probe(size, n, k) = e
<1>. SUFFICES ASSUME \A k \in 0..(size - 1) : Probe(size, n, k) # e PROVE FALSE
  OBVIOUS
<1> DEFINE S == 0..(size - 1)
           T == S \ {e}
           f == [k \in S |-> Probe(size, n, k)]
<1>1. size \in Nat \ {0} /\ size - 1 \in Int
  BY SizeFacts
<1>2. IsFiniteSet(S) /\ Cardinality(S) = size
  BY <1>1, FS_Interval
<1>3. IsFiniteSet(T) /\ Cardinality(T) = size - 1
  BY <1>2, FS_RemoveElement
<1>4. f \in [S -> T]
  <2>1. ASSUME NEW k \in S PROVE Probe(size, n, k) \in S
    <3>1. k \in Int
      BY <1>1
    <3>. QED
      BY <1>1, <3>1, ProbeType
  <2>. QED
    BY <2>1
<1>5. \E x, y \in S : x # y /\ f[x] = f[y]
  <2>1. Cardinality(T) < Cardinality(S)
    BY <1>1, <1>2, <1>3
  <2>. HIDE DEF S, T, f
  <2>. QED
    BY <1>2, <1>3, <1>4, <2>1, FS_PigeonHole
<1>6. PICK x, y \in S : x # y /\ f[x] = f[y]
  BY <1>5
<1>7. x < y \/ y < x
  BY <1>1, <1>6
<1>. QED
  BY <1>6, <1>7, ProbeOnce

\* A search that can meet an entry of the set meets it first.
LEMMA FirstProbeFacts ==
  ASSUME NEW size, IsSize(size), NEW n \in Nat, NEW S, S \cap (0..(size - 1)) # {},
         NEW k, k = FirstProbe(size, n, S)
  PROVE  /\ k \in 0..(size - 1) /\ k \in Nat /\ k # -1
         /\ Probe(size, n, k) \in S /\ Probe(size, n, k) \in 0..(size - 1)
         /\ \A j \in 0..(size - 1) : Probe(size, n, j) \in S => k <= j
<1> DEFINE turns == {j \in 0..(size - 1) : Probe(size, n, j) \in S}
<1>1. size \in Nat \ {0}
  BY SizeFacts
<1>2. turns # {} /\ turns \in SUBSET Nat
  <2>1. PICK e \in 0..(size - 1) : e \in S
    OBVIOUS
  <2>2. PICK j \in 0..(size - 1) : Probe(size, n, j) = e
    BY ProbeAll
  <2>. QED
    BY <2>1, <2>2
<1>3. k = CHOOSE x \in turns : \A j \in turns : x <= j
  BY <1>2 DEF FirstProbe
<1>4. \E x \in turns : \A j \in turns : x <= j
  <2>. HIDE DEF turns
  <2>. QED
    BY <1>2, LeastNumber
<1>5. k \in turns /\ \A j \in turns : k <= j
  <2>. HIDE DEF turns
  <2>. QED
    BY <1>3, <1>4
<1>. QED
  BY <1>1, <1>5, ProbeType

\* The size of a new hashmap.
LEMMA PowerAdds ==
  ASSUME NEW a \in Nat, NEW b \in Nat
  PROVE  PowerOfTwo[a] * PowerOfTwo[b] = PowerOfTwo[a + b]
<1> DEFINE T == {i \in Nat : PowerOfTwo[a] * PowerOfTwo[i] # PowerOfTwo[a + i]}
<1>. SUFFICES ASSUME T # {} PROVE FALSE
  OBVIOUS
<1>1. PICK i \in T : \A j \in T : i <= j
  BY LeastNumber
<1>2. i \in Nat /\ PowerOfTwo[a] * PowerOfTwo[i] # PowerOfTwo[a + i]
  BY <1>1
<1>3. i # 0
  BY <1>2, PowerFacts
<1>4. i - 1 \in Nat /\ i - 1 \notin T
  <2>. HIDE DEF T
  <2>. QED
    BY <1>1, <1>2, <1>3
<1> DEFINE x == PowerOfTwo[i - 1]
           y == PowerOfTwo[a]
           z == PowerOfTwo[a + (i - 1)]
<1>5. y * x = z
  BY <1>4
<1>6. x \in Nat /\ y \in Nat /\ z \in Nat
  BY <1>4, PowerFacts
<1>7. PowerOfTwo[i] = 2 * x /\ PowerOfTwo[a + i] = 2 * z
  <2>1. PowerOfTwo[(i - 1) + 1] = 2 * x /\ PowerOfTwo[(a + (i - 1)) + 1] = 2 * z
    BY <1>4, PowerFacts
  <2>2. (i - 1) + 1 = i /\ (a + (i - 1)) + 1 = a + i
    BY <1>2
  <2>. QED
    BY <2>1, <2>2
<1>. HIDE DEF x, y, z
<1>8. y * (2 * x) = 2 * z
  BY <1>5, <1>6
<1>. QED
  BY <1>2, <1>7, <1>8 DEF y

\* A power of two exceeds its exponent.
LEMMA PowerGrows ==
  ASSUME NEW a \in Nat
  PROVE  PowerOfTwo[a] >= a + 1
<1> DEFINE T == {i \in Nat : ~ (PowerOfTwo[i] >= i + 1)}
<1>. SUFFICES ASSUME T # {} PROVE FALSE
  OBVIOUS
<1>1. PICK i \in T : \A j \in T : i <= j
  BY LeastNumber
<1>2. i \in Nat /\ ~ (PowerOfTwo[i] >= i + 1)
  BY <1>1
<1>3. i # 0
  BY <1>2, PowerFacts
<1>4. i - 1 \in Nat /\ i - 1 \notin T
  <2>. HIDE DEF T
  <2>. QED
    BY <1>1, <1>2, <1>3
<1>5. PowerOfTwo[i - 1] >= i /\ PowerOfTwo[i - 1] \in Nat /\ PowerOfTwo[(i - 1) + 1] = 2 * PowerOfTwo[i - 1]
  BY <1>4, PowerFacts
<1>. QED
  BY <1>2, <1>3, <1>5

\* The size that ecma_property_hashmap_create takes leaves a third of the
\* entries free.
LEMMA MapSizeFacts ==
  ASSUME NEW count \in Nat
  PROVE  IsSize(MapSize(count)) /\ MapSize(count) >= count + count \div 2
<1> DEFINE sizes == {MinSize * PowerOfTwo[k] : k \in 0..count}
           fits == {s \in sizes : s >= count + count \div 2}
           s == MapSize(count)
<1>1. \A k \in 0..count : MinSize * PowerOfTwo[k] \in Nat
  BY MinSizeFacts, PowerFacts
<1>2. fits \in SUBSET Nat
  BY <1>1
<1>3. fits # {}
  <2> DEFINE p == PowerOfTwo[count]
             z == MinSize * p
  <2>1. p \in Nat /\ p >= count + 1 /\ count \in 0..count
    BY PowerGrows, PowerFacts
  <2>. HIDE DEF p
  <2>2. z \in Nat /\ z >= 2 * p
    BY <2>1, MinSizeFacts
  <2>. HIDE DEF z
  <2>3. z >= count + count \div 2
    BY <2>1, <2>2
  <2>4. z \in sizes
    BY <2>1 DEF z, p
  <2>. QED
    BY <2>3, <2>4
<1>4. \E x \in fits : \A t \in fits : x <= t
  <2>. HIDE DEF fits
  <2>. QED
    BY <1>2, <1>3, LeastNumber
<1>5. s \in fits
  <2>1. s = CHOOSE x \in fits : \A t \in fits : x <= t
    BY DEF MapSize
  <2>. HIDE DEF fits, s
  <2>. QED
    BY <1>4, <2>1
<1>6. PICK k \in 0..count : s = MinSize * PowerOfTwo[k]
  BY <1>5
<1>7. s \in Nat /\ s >= count + count \div 2
  BY <1>2, <1>5
<1>8. s >= MinSize
  <2>1. PowerOfTwo[k] \in Nat /\ PowerOfTwo[k] >= 1
    BY PowerFacts, PowerGrows
  <2> DEFINE p == PowerOfTwo[k]
  <2>. HIDE DEF p, s
  <2>. QED
    BY <1>6, <2>1, MinSizeFacts DEF p
<1>9. \E j \in Nat : s = PowerOfTwo[j]
  <2>1. PICK i \in Nat : MinSize = PowerOfTwo[i]
    BY MinSizeFacts
  <2>2. k \in Nat /\ i + k \in Nat
    OBVIOUS
  <2>. HIDE DEF s
  <2>. QED
    BY <1>6, <2>1, <2>2, PowerAdds
<1>. QED
  BY <1>7, <1>8, <1>9 DEF IsSize

-----------------------------------------------------------------------------
(* The list of properties                                                  *)

\* The elements of a sequence, and a sequence without repetition.
Elements(s) == {s[i] : i \in 1..Len(s)}
Once(s) == \A i, j \in 1..Len(s) : s[i] = s[j] => i = j

\* The elements of a sequence.
LEMMA ElementsRange ==
  ASSUME NEW A, NEW s \in Seq(A)
  PROVE  Range(s) = Elements(s) /\ Elements(s) \subseteq A /\ Len(s) \in Nat
         /\ (s = <<>> <=> Elements(s) = {}) /\ (s # <<>> => Head(s) = s[1] /\ 1 \in 1..Len(s))
<1>1. DOMAIN s = 1..Len(s) /\ Len(s) \in Nat /\ \A i \in 1..Len(s) : s[i] \in A
  OBVIOUS
<1>2. Range(s) = Elements(s) /\ Elements(s) \subseteq A
  BY <1>1 DEF Range, Elements
<1>3. s # <<>> => Len(s) >= 1 /\ Head(s) = s[1]
  OBVIOUS
<1>4. s # <<>> => 1 \in 1..Len(s) /\ Elements(s) # {}
  BY <1>1, <1>3 DEF Elements
<1>5. s = <<>> => Elements(s) = {}
  BY DEF Elements
<1>. QED
  BY <1>1, <1>2, <1>3, <1>4, <1>5

\* An element that is appended.
LEMMA AppendFacts ==
  ASSUME NEW A, NEW s \in Seq(A), NEW x \in A
  PROVE  /\ Append(s, x) \in Seq(A) /\ Elements(Append(s, x)) = Elements(s) \cup {x}
         /\ Once(s) /\ x \notin Elements(s) => Once(Append(s, x))
<1> DEFINE t == Append(s, x)
           n == Len(s)
<1>1. n \in Nat /\ t \in Seq(A) /\ Len(t) = n + 1 /\ t[n + 1] = x /\ \A i \in 1..n : t[i] = s[i]
  OBVIOUS
<1>. HIDE DEF t
<1>2. \A i \in 1..(n + 1) : i = n + 1 \/ i \in 1..n
  BY <1>1
<1>3. n + 1 \in 1..(n + 1) /\ \A i \in 1..n : i \in 1..(n + 1)
  BY <1>1
<1>4. Elements(t) = Elements(s) \cup {x}
  BY <1>1, <1>2, <1>3 DEF Elements
<1>5. Once(s) /\ x \notin Elements(s) => Once(t)
  BY <1>1, <1>2, <1>3 DEF Elements, Once
<1>. QED
  BY <1>1, <1>4, <1>5 DEF t

\* The recursion of Kept.
LEMMA KeptSteps ==
  ASSUME NEW A, NEW s \in Seq(A), NEW S
  PROVE  \E f \in [0..Len(s) -> Seq(A)] :
           /\ f[0] = <<>> /\ Kept(s, S) = f[Len(s)]
           /\ \A k \in 1..Len(s) : f[k] = IF s[k] \in S THEN Append(f[k - 1], s[k]) ELSE f[k - 1]
<1> DEFINE N == Len(s)
           E(f) == f = [k \in 0..N |-> IF k = 0 THEN <<>>
                                       ELSE IF s[k] \in S THEN Append(f[k - 1], s[k]) ELSE f[k - 1]]
           h == [k \in 1..N |-> [x \in Seq(A) |-> IF s[k] \in S THEN Append(x, s[k]) ELSE x]]
<1>1. N \in Nat /\ <<>> \in Seq(A) /\ h \in [1..N -> [Seq(A) -> Seq(A)]]
  OBVIOUS
<1>2. PICK g \in [0..N -> Seq(A)] : Repeats(g, <<>>, h, N)
  <2>. HIDE DEF h, N
  <2>. QED
    BY <1>1, RecursionExists
<1>3. g[0] = <<>> /\ \A k \in 1..N : g[k] = IF s[k] \in S THEN Append(g[k - 1], s[k]) ELSE g[k - 1]
  <2>1. \A k \in 1..N : g[k - 1] \in Seq(A)
    BY <1>1
  <2>. QED
    BY <1>2, <2>1 DEF Repeats
<1>. HIDE DEF h, N
<1>4. E(g)
  <2>1. g = [k \in 0..N |-> g[k]]
    OBVIOUS
  <2>2. \A k \in 0..N : k = 0 \/ k \in 1..N
    BY <1>1
  <2>. QED
    BY <1>1, <1>3, <2>1, <2>2
<1>5. Kept(s, S) = (CHOOSE f : E(f))[N]
  BY DEF Kept, N
<1> DEFINE c == CHOOSE f : E(f)
<1>6. E(c)
  BY <1>4
<1>. HIDE DEF c
<1>7. c[0] = <<>> /\ DOMAIN c = 0..N
  BY <1>1, <1>6
<1>8. \A k \in 1..N : c[k] = IF s[k] \in S THEN Append(c[k - 1], s[k]) ELSE c[k - 1]
  <2>1. \A k \in 1..N : k \in 0..N /\ k # 0
    BY <1>1
  <2>. QED
    BY <1>6, <2>1
<1>9. \A k \in 0..N : c[k] \in Seq(A)
  <2> DEFINE T == {k \in 0..N : c[k] \notin Seq(A)}
  <2>. SUFFICES ASSUME T # {} PROVE FALSE
    OBVIOUS
  <2>1. T \in SUBSET Nat
    BY <1>1
  <2>2. PICK k \in T : \A j \in T : k <= j
    BY <2>1, LeastNumber
  <2>3. k \in 0..N /\ k # 0 /\ c[k] \notin Seq(A)
    <3>1. k \in 0..N /\ c[k] \notin Seq(A)
      BY <2>2
    <3>2. c[0] \in Seq(A)
      BY <1>1, <1>7
    <3>. QED
      BY <3>1, <3>2
  <2>4. k \in 1..N /\ k - 1 \in 0..N /\ k - 1 \notin T
    <3>. HIDE DEF T
    <3>. QED
      BY <1>1, <2>2, <2>3
  <2>5. s[k] \in A
    BY <2>4 DEF N
  <2>6. c[k - 1] \in Seq(A)
    BY <2>4
  <2>7. c[k] = Append(c[k - 1], s[k]) \/ c[k] = c[k - 1]
    BY <1>8, <2>4
  <2>8. Append(c[k - 1], s[k]) \in Seq(A)
    BY <2>5, <2>6, AppendFacts
  <2>. QED
    BY <2>3, <2>6, <2>7, <2>8
<1>10. c \in [0..N -> Seq(A)]
  <2>1. c = [k \in 0..N |-> c[k]]
    BY <1>6
  <2>. QED
    BY <1>9, <2>1
<1>. QED
  BY <1>5, <1>7, <1>8, <1>10 DEF c, N

\* Kept keeps the elements that are in the set, each as often as before.
LEMMA KeptFacts ==
  ASSUME NEW A, NEW s \in Seq(A), NEW S
  PROVE  /\ Kept(s, S) \in Seq(A) /\ Elements(Kept(s, S)) = Elements(s) \cap S
         /\ Once(s) => Once(Kept(s, S))
<1> DEFINE N == Len(s)
<1>1. PICK f \in [0..N -> Seq(A)] :
        /\ f[0] = <<>> /\ Kept(s, S) = f[N]
        /\ \A k \in 1..N : f[k] = IF s[k] \in S THEN Append(f[k - 1], s[k]) ELSE f[k - 1]
  BY KeptSteps
<1>2. N \in Nat /\ \A i \in 1..N : s[i] \in A
  OBVIOUS
<1> DEFINE until(k) == {s[i] : i \in 1..k}
           good(k) == Elements(f[k]) = until(k) \cap S /\ (Once(s) => Once(f[k]))
<1>3. \A k \in 0..N : good(k)
  <2> DEFINE T == {k \in 0..N : ~ good(k)}
  <2>. SUFFICES ASSUME T # {} PROVE FALSE
    OBVIOUS
  <2>1. T \in SUBSET Nat
    BY <1>2
  <2>2. PICK k \in T : \A j \in T : k <= j
    BY <2>1, LeastNumber
  <2>3. k \in 0..N /\ ~ good(k)
    BY <2>2
  <2>4. k # 0
    BY <1>1, <2>3 DEF Elements, Once
  <2>. HIDE DEF good
  <2>5. k \in 1..N /\ k - 1 \in 0..N /\ k - 1 \notin T
    <3>. HIDE DEF T
    <3>. QED
      BY <1>2, <2>2, <2>3, <2>4
  <2>6. good(k - 1)
    BY <2>5
  <2>7. until(k) = until(k - 1) \cup {s[k]}
    <3>1. \A i \in 1..k : i = k \/ i \in 1..(k - 1)
      BY <2>5
    <3>2. k \in 1..k /\ \A i \in 1..(k - 1) : i \in 1..k
      BY <2>5
    <3>. QED
      BY <3>1, <3>2
  <2>8. Once(s) => s[k] \notin until(k - 1)
    <3>1. \A i \in 1..(k - 1) : i \in 1..N /\ i # k
      BY <1>2, <2>5
    <3>. QED
      BY <2>5, <3>1 DEF Once
  <2>. HIDE DEF until
  <2>9. f[k - 1] \in Seq(A) /\ s[k] \in A
    BY <1>2, <2>5
  <2>10. CASE s[k] \in S
    <3>1. f[k] = Append(f[k - 1], s[k])
      BY <1>1, <2>5, <2>10
    <3>2. Elements(f[k]) = Elements(f[k - 1]) \cup {s[k]}
          /\ (Once(f[k - 1]) /\ s[k] \notin Elements(f[k - 1]) => Once(f[k]))
      BY <2>9, <3>1, AppendFacts
    <3>. QED
      BY <2>3, <2>6, <2>7, <2>8, <2>10, <3>2 DEF good
  <2>11. CASE s[k] \notin S
    <3>1. f[k] = f[k - 1]
      BY <1>1, <2>5, <2>11
    <3>. QED
      BY <2>3, <2>6, <2>7, <2>11, <3>1 DEF good
  <2>. QED
    BY <2>10, <2>11
<1>4. N \in 0..N /\ until(N) = Elements(s)
  BY <1>2 DEF Elements
<1>5. good(N)
  <2>. HIDE DEF good
  <2>. QED
    BY <1>3, <1>4
<1>. QED
  BY <1>1, <1>4, <1>5

\* The properties of a list of pairs, and the names they have.
Live(l, nm) == {prop \in Props : prop[1] \in Elements(l) /\ nm[prop[1]][prop[2]] # Deleted}
NameOf(nm, prop) == nm[prop[1]][prop[2]]
NamesType == [Pairs -> [Slots -> Names \cup {Deleted}]]

\* Properties lists the live properties, each once.
LEMMA PropertiesFacts ==
  ASSUME NEW l \in Seq(Pairs), NEW nm \in NamesType
  PROVE  /\ Properties(l, nm) \in Seq(Props) /\ Elements(Properties(l, nm)) = Live(l, nm)
         /\ Once(l) => Once(Properties(l, nm))
<1> DEFINE N == Len(l)
           s == [k \in 1..(2 * N) |-> <<l[(k + 1) \div 2], (k - 1) % 2>>]
           S == {prop \in Props : nm[prop[1]][prop[2]] # Deleted}
<1>1. N \in Nat /\ \A i \in 1..N : l[i] \in Pairs
  OBVIOUS
<1>2. \A k \in 1..(2 * N) : (k + 1) \div 2 \in 1..N /\ (k - 1) % 2 \in Slots
  BY <1>1 DEF Slots
<1>3. s \in Seq(Props) /\ Len(s) = 2 * N
  BY <1>1, <1>2 DEF Props
<1>4. Elements(s) = {prop \in Props : prop[1] \in Elements(l)}
  <2>1. ASSUME NEW x \in Elements(s) PROVE x \in Props /\ x[1] \in Elements(l)
    <3>1. PICK k \in 1..(2 * N) : x = s[k]
      BY <1>3 DEF Elements
    <3>2. x = <<l[(k + 1) \div 2], (k - 1) % 2>>
      BY <3>1
    <3>. QED
      BY <1>1, <1>2, <3>2 DEF Elements, Props
  <2>2. ASSUME NEW x \in Props, x[1] \in Elements(l) PROVE x \in Elements(s)
    <3>1. PICK i \in 1..N : x[1] = l[i]
      BY <2>2 DEF Elements
    <3>2. x = <<l[i], x[2]>> /\ x[2] \in {0, 1}
      BY <3>1 DEF Props, Slots
    <3> DEFINE b == x[2]
               k == 2 * i - 1 + b
    <3>3. k \in 1..(2 * N) /\ (k + 1) \div 2 = i /\ (k - 1) % 2 = x[2]
      <4>1. b \in {0, 1} /\ i \in Nat /\ i >= 1 /\ i <= N /\ x[2] = b
        BY <1>1, <3>2
      <4>. HIDE DEF b, N
      <4>2. CASE b = 0
        BY <1>1, <4>1, <4>2
      <4>3. CASE b = 1
        BY <1>1, <4>1, <4>3
      <4>. QED
        BY <4>1, <4>2, <4>3
    <3>. HIDE DEF k
    <3>4. s[k] = x
      BY <3>2, <3>3
    <3>. QED
      BY <1>3, <3>3, <3>4 DEF Elements
  <2>. QED
    BY <2>1, <2>2
<1>5. Once(l) => Once(s)
  <2>. SUFFICES ASSUME Once(l), NEW j \in 1..(2 * N), NEW k \in 1..(2 * N), s[j] = s[k] PROVE j = k
    BY <1>3 DEF Once
  <2>1. l[(j + 1) \div 2] = l[(k + 1) \div 2] /\ (j - 1) % 2 = (k - 1) % 2
    OBVIOUS
  <2>2. (j + 1) \div 2 = (k + 1) \div 2
    BY <1>2, <2>1 DEF Once
  <2>. QED
    BY <1>1, <2>1, <2>2
<1>6. Properties(l, nm) = Kept(s, S)
  BY DEF Properties
<1>. HIDE DEF s
<1>7. Elements(s) \cap S = Live(l, nm)
  BY <1>4 DEF Live
<1>. HIDE DEF S
<1>8. /\ Kept(s, S) \in Seq(Props) /\ Elements(Kept(s, S)) = Elements(s) \cap S
      /\ Once(s) => Once(Kept(s, S))
  BY <1>3, KeptFacts
<1>. QED
  BY <1>5, <1>6, <1>7, <1>8

-----------------------------------------------------------------------------
(* A hashmap and the properties it holds                                   *)

MapOf(size) == [size : {size}, nulls : Int, unused : Int, at : [0..(size - 1) -> Entry]]
Used(m) == (0..(m.size - 1)) \ Unused(m)
PropAt(m, e) == <<m.at[e].pair, m.at[e].bit>>

\* Every search for the name of the property in entry e comes to e before it
\* meets a NULL.
Reached(size, nulls, n, e) ==
  \E k \in 0..(size - 1) :
    Probe(size, n, k) = e /\ \A j \in 0..(size - 1) : j < k => Probe(size, n, j) \notin nulls

\* The hashmap m holds exactly the properties L, which have the names nm.
Holds(m, L) ==
  /\ \A e \in Used(m) : PropAt(m, e) \in L
  /\ \A prop \in L : \E e \in Used(m) : PropAt(m, e) = prop
  /\ \A e, f \in Used(m) : PropAt(m, e) = PropAt(m, f) => e = f
Chains(m, nm) == \A e \in Used(m) : Reached(m.size, Nulls(m), NameOf(nm, PropAt(m, e)), e)
Counts(m) == m.nulls = Cardinality(Nulls(m)) /\ m.unused = Cardinality(Unused(m))
MapOK(m, L, nm) == IsSize(m.size) /\ m \in MapOf(m.size) /\ Holds(m, L) /\ Chains(m, nm) /\ Counts(m)

\* The properties L have names.
Named(L, nm) == \A prop \in L : NameOf(nm, prop) \in Names

\* The pair and the bit of a property make an entry that is not NULL.
LEMMA EntryFacts ==
  ASSUME NEW prop \in Props
  PROVE  /\ prop = <<prop[1], prop[2]>> /\ prop[1] \in Pairs /\ prop[2] \in Slots /\ prop[1] # Null
         /\ [pair |-> prop[1], bit |-> prop[2]] \in Entry
         /\ prop # None
<1>1. prop = <<prop[1], prop[2]>> /\ prop[1] \in Pairs /\ prop[2] \in Slots
  BY DEF Props
<1>2. prop[1] # Null
  BY <1>1, PropertyAssumption
<1>. QED
  BY <1>1, <1>2 DEF Entry, None

\* The unused entries and the NULLs are finite, the used ones hold properties.
LEMMA MapSets ==
  ASSUME NEW m, IsSize(m.size), m \in MapOf(m.size)
  PROVE  /\ m.size \in Nat /\ m.nulls \in Int /\ m.unused \in Int /\ m.at \in [0..(m.size - 1) -> Entry]
         /\ Nulls(m) \subseteq Unused(m) /\ Unused(m) \subseteq 0..(m.size - 1)
         /\ IsFiniteSet(Nulls(m)) /\ IsFiniteSet(Unused(m))
         /\ \A e \in Used(m) : PropAt(m, e) \in Props /\ e \in 0..(m.size - 1)
<1>1. m.size \in Nat /\ m.nulls \in Int /\ m.unused \in Int /\ m.at \in [0..(m.size - 1) -> Entry]
  BY SizeFacts DEF MapOf
<1>2. Nulls(m) \subseteq Unused(m) /\ Unused(m) \subseteq 0..(m.size - 1)
  BY DEF Nulls, Unused
<1>3. IsFiniteSet(0..(m.size - 1))
  BY <1>1, FS_Interval
<1>4. IsFiniteSet(Nulls(m)) /\ IsFiniteSet(Unused(m))
  <2>1. IsFiniteSet(Unused(m))
    BY <1>2, <1>3, FS_Subset
  <2>. QED
    BY <1>2, <2>1, FS_Subset
<1>5. ASSUME NEW e \in Used(m) PROVE PropAt(m, e) \in Props /\ e \in 0..(m.size - 1)
  <2>1. e \in 0..(m.size - 1) /\ m.at[e].pair # Null
    BY <1>5 DEF Used, Unused
  <2>2. m.at[e] \in Entry
    BY <1>1, <2>1
  <2>. QED
    BY <2>1, <2>2 DEF PropAt, Props, Entry
<1>. QED
  BY <1>1, <1>2, <1>4, <1>5

\* An entry that changes.
LEMMA EntryChanges ==
  ASSUME NEW m, IsSize(m.size), m \in MapOf(m.size), NEW e \in 0..(m.size - 1), NEW x \in Entry,
         NEW m1, m1 \in MapOf(m.size), m1.at = [m.at EXCEPT ![e] = x]
  PROVE  /\ m1.size = m.size /\ m1 \in MapOf(m1.size)
         /\ PropAt(m1, e) = <<x.pair, x.bit>> /\ \A f \in 0..(m.size - 1) : f # e => PropAt(m1, f) = PropAt(m, f)
         /\ x.pair # Null => /\ Unused(m1) = Unused(m) \ {e} /\ Nulls(m1) = Nulls(m) \ {e}
                             /\ Used(m1) = Used(m) \cup {e}
         /\ x.pair = Null => /\ Unused(m1) = Unused(m) \cup {e} /\ Used(m1) = Used(m) \ {e}
                             /\ Nulls(m1) = IF x.bit = 0 THEN Nulls(m) \cup {e} ELSE Nulls(m) \ {e}
<1>1. m1.size = m.size /\ m1 \in MapOf(m1.size)
  BY DEF MapOf
<1>2. m.at \in [0..(m.size - 1) -> Entry]
  BY DEF MapOf
<1>3. m1.at[e] = x /\ \A f \in 0..(m.size - 1) : f # e => m1.at[f] = m.at[f]
  BY <1>2
<1>4. PropAt(m1, e) = <<x.pair, x.bit>> /\ \A f \in 0..(m.size - 1) : f # e => PropAt(m1, f) = PropAt(m, f)
  BY <1>3 DEF PropAt
<1>5. x.pair # Null => Unused(m1) = Unused(m) \ {e} /\ Nulls(m1) = Nulls(m) \ {e}
  BY <1>1, <1>3 DEF Unused, Nulls
<1>6. x.pair = Null => Unused(m1) = Unused(m) \cup {e}
  BY <1>1, <1>3 DEF Unused
<1>7. x.pair = Null => Nulls(m1) = IF x.bit = 0 THEN Nulls(m) \cup {e} ELSE Nulls(m) \ {e}
  BY <1>1, <1>3, <1>6 DEF Nulls, Unused
<1>8. x.pair # Null => Used(m1) = Used(m) \cup {e}
  BY <1>1, <1>5 DEF Used
<1>9. x.pair = Null => Used(m1) = Used(m) \ {e}
  BY <1>1, <1>6 DEF Used
<1>. QED
  BY <1>1, <1>4, <1>5, <1>6, <1>7, <1>8, <1>9

\* With fewer NULLs a search still comes to what it came to.
LEMMA ReachedStill ==
  ASSUME NEW size, NEW nulls, NEW nulls1, nulls1 \subseteq nulls, NEW n, NEW e, Reached(size, nulls, n, e)
  PROVE  Reached(size, nulls1, n, e)
BY DEF Reached

\* A name is a number and not the mark of a deleted property.
LEMMA NamesNat == \A n \in Names : n \in Nat /\ n # Deleted
BY PropertyAssumption DEF Deleted

\* The records that Place makes.
LEMMA PlaceIs ==
  ASSUME NEW size, IsSize(size), NEW m \in MapOf(size), NEW n, NEW prop \in Props,
         NEW e, e = Probe(m.size, n, FirstProbe(m.size, n, Unused(m)))
  PROVE  /\ Place(m, n, prop) \in MapOf(size)
         /\ Place(m, n, prop).at = [m.at EXCEPT ![e] = [pair |-> prop[1], bit |-> prop[2]]]
         /\ Place(m, n, prop).nulls = IF e \in Nulls(m) THEN m.nulls - 1 ELSE m.nulls
         /\ Place(m, n, prop).unused = m.unused - 1
<1> DEFINE x == [pair |-> prop[1], bit |-> prop[2]]
           b == IF e \in Nulls(m) THEN m.nulls - 1 ELSE m.nulls
           P == [m EXCEPT !.at[e] = x, !.nulls = b, !.unused = @ - 1]
<1>1. x \in Entry
  BY EntryFacts
<1>2. Place(m, n, prop) = P
  BY DEF Place
<1>. HIDE DEF x
<1>3. m.nulls \in Int /\ m.unused \in Int
  BY DEF MapOf
<1>6. b \in Int /\ m.unused - 1 \in Int
  BY <1>3
<1>. HIDE DEF b
<1>4. P \in MapOf(size) /\ P.nulls = b /\ P.unused = m.unused - 1 /\ P.at = [m.at EXCEPT ![e] = x]
  BY <1>1, <1>6 DEF MapOf
<1>. QED
  BY <1>2, <1>4 DEF x, b

\* ecma_property_hashmap_insert keeps the hashmap right while there is a NULL.
LEMMA PlaceOK ==
  ASSUME NEW m, NEW L, NEW nm, MapOK(m, L, nm), NEW prop \in Props, prop \notin L,
         NEW n \in Names, n = NameOf(nm, prop), m.nulls >= 1
  PROVE  /\ MapOK(Place(m, n, prop), L \cup {prop}, nm)
         /\ Place(m, n, prop).nulls >= m.nulls - 1 /\ Place(m, n, prop).size = m.size
<1> DEFINE k == FirstProbe(m.size, n, Unused(m))
           e == Probe(m.size, n, k)
           x == [pair |-> prop[1], bit |-> prop[2]]
           m1 == Place(m, n, prop)
<1>1. /\ IsSize(m.size) /\ m \in MapOf(m.size) /\ Holds(m, L) /\ Chains(m, nm)
      /\ m.nulls = Cardinality(Nulls(m)) /\ m.unused = Cardinality(Unused(m))
  BY DEF MapOK, Counts
<1>2. /\ m.size \in Nat /\ m.nulls \in Int /\ m.unused \in Int
      /\ Nulls(m) \subseteq Unused(m) /\ Unused(m) \subseteq 0..(m.size - 1)
      /\ IsFiniteSet(Nulls(m)) /\ IsFiniteSet(Unused(m))
      /\ \A f \in Used(m) : PropAt(m, f) \in Props /\ f \in 0..(m.size - 1)
  BY <1>1, MapSets
<1>3. n \in Nat
  BY NamesNat
<1>4. Unused(m) \cap 0..(m.size - 1) # {}
  <2>1. Nulls(m) # {}
    BY <1>1, <1>2, FS_EmptySet
  <2>. QED
    BY <1>2, <2>1
<1>. HIDE DEF k
<1>5. /\ k \in 0..(m.size - 1) /\ e \in Unused(m) /\ e \in 0..(m.size - 1)
      /\ \A j \in 0..(m.size - 1) : j < k => Probe(m.size, n, j) \notin Unused(m)
  BY <1>1, <1>3, <1>4, FirstProbeFacts DEF k
<1>. HIDE DEF e
<1>6. /\ m1 \in MapOf(m.size) /\ m1.at = [m.at EXCEPT ![e] = x]
      /\ m1.nulls = IF e \in Nulls(m) THEN m.nulls - 1 ELSE m.nulls
      /\ m1.unused = m.unused - 1
  BY <1>1, PlaceIs DEF e, k
<1>7. x \in Entry /\ x.pair # Null /\ <<x.pair, x.bit>> = prop
  BY EntryFacts
<1>. HIDE DEF m1, x
<1>8. /\ m1.size = m.size /\ m1 \in MapOf(m1.size) /\ PropAt(m1, e) = prop
      /\ \A f \in 0..(m.size - 1) : f # e => PropAt(m1, f) = PropAt(m, f)
      /\ Unused(m1) = Unused(m) \ {e} /\ Nulls(m1) = Nulls(m) \ {e} /\ Used(m1) = Used(m) \cup {e}
  BY <1>1, <1>5, <1>6, <1>7, EntryChanges
<1>9. e \notin Used(m)
  BY <1>5 DEF Used
<1>10. Holds(m1, L \cup {prop})
  <2>1. \A f \in Used(m) : PropAt(m1, f) = PropAt(m, f) /\ PropAt(m, f) \in L
    BY <1>1, <1>2, <1>8, <1>9 DEF Holds
  <2>2. \A p \in L : \E f \in Used(m) : PropAt(m, f) = p
    BY <1>1 DEF Holds
  <2>3. \A f, g \in Used(m) : PropAt(m, f) = PropAt(m, g) => f = g
    BY <1>1 DEF Holds
  <2>. QED
    BY <1>8, <2>1, <2>2, <2>3 DEF Holds
<1>11. Chains(m1, nm)
  <2>1. ASSUME NEW f \in Used(m) PROVE Reached(m1.size, Nulls(m1), NameOf(nm, PropAt(m1, f)), f)
    <3>1. PropAt(m1, f) = PropAt(m, f)
      BY <1>2, <1>8, <1>9, <2>1
    <3>2. Reached(m.size, Nulls(m), NameOf(nm, PropAt(m, f)), f)
      BY <1>1, <2>1 DEF Chains
    <3>3. Nulls(m1) \subseteq Nulls(m)
      BY <1>8
    <3>. QED
      BY <1>8, <3>1, <3>2, <3>3, ReachedStill
  <2>2. Reached(m1.size, Nulls(m1), n, e)
    BY <1>2, <1>5, <1>8 DEF Reached, e
  <2>. QED
    BY <1>8, <2>1, <2>2 DEF Chains
<1>12. Counts(m1)
  <2>1. Cardinality(Unused(m) \ {e}) = Cardinality(Unused(m)) - 1
    BY <1>2, <1>5, FS_RemoveElement
  <2>2. Cardinality(Nulls(m) \ {e}) = IF e \in Nulls(m) THEN Cardinality(Nulls(m)) - 1 ELSE Cardinality(Nulls(m))
    BY <1>2, FS_RemoveElement
  <2>. QED
    BY <1>1, <1>6, <1>8, <2>1, <2>2 DEF Counts
<1>. QED
  BY <1>1, <1>2, <1>6, <1>8, <1>10, <1>11, <1>12 DEF MapOK, m1

\* What a search in the hashmap finds.
LEMMA HashFindOK ==
  ASSUME NEW m, NEW L, NEW nm, MapOK(m, L, nm), m.nulls >= 1, NEW n \in Names
  PROVE  /\ FirstProbe(m.size, n, Nulls(m)) # -1
         /\ (\A q \in L : NameOf(nm, q) # n) => HashFind(m, nm, n) = None
         /\ \A p \in L : NameOf(nm, p) = n /\ (\A q \in L : NameOf(nm, q) = n => q = p)
                         => HashFind(m, nm, n) = p
<1> DEFINE H == Holding(m, nm, n)
           k == FirstProbe(m.size, n, Nulls(m) \cup H)
           e == Probe(m.size, n, k)
<1>1. /\ IsSize(m.size) /\ m \in MapOf(m.size) /\ Holds(m, L) /\ Chains(m, nm)
      /\ m.nulls = Cardinality(Nulls(m))
  BY DEF MapOK, Counts
<1>2. /\ m.size \in Nat /\ Nulls(m) \subseteq Unused(m) /\ Unused(m) \subseteq 0..(m.size - 1)
      /\ IsFiniteSet(Nulls(m)) /\ \A f \in Used(m) : PropAt(m, f) \in Props /\ f \in 0..(m.size - 1)
  BY <1>1, MapSets
<1>3. n \in Nat
  BY NamesNat
<1>4. Nulls(m) \cap 0..(m.size - 1) # {}
  <2>1. Nulls(m) # {}
    BY <1>1, <1>2, FS_EmptySet
  <2>. QED
    BY <1>2, <2>1
<1>5. \A f : f \in H <=> f \in Used(m) /\ NameOf(nm, PropAt(m, f)) = n
  BY DEF Holding, Used, NameOf, PropAt
<1>. HIDE DEF H, k
<1>6. FirstProbe(m.size, n, Nulls(m)) # -1
  BY <1>1, <1>3, <1>4, FirstProbeFacts
<1>7. /\ k \in 0..(m.size - 1) /\ k \in Nat /\ k # -1 /\ e \in Nulls(m) \cup H
      /\ \A j \in 0..(m.size - 1) : j < k => Probe(m.size, n, j) \notin Nulls(m) \cup H
  <2>1. (Nulls(m) \cup H) \cap 0..(m.size - 1) # {}
    BY <1>4
  <2>. QED
    BY <1>1, <1>3, <2>1, FirstProbeFacts DEF k
<1>8. HashFind(m, nm, n) = IF e \in Nulls(m) THEN None ELSE PropAt(m, e)
  BY <1>7 DEF HashFind, k, H, PropAt
<1>9. ASSUME \A q \in L : NameOf(nm, q) # n PROVE HashFind(m, nm, n) = None
  <2>1. H = {}
    BY <1>1, <1>5, <1>9 DEF Holds
  <2>. QED
    BY <1>7, <1>8, <2>1
<1>10. ASSUME NEW p \in L, NameOf(nm, p) = n, \A q \in L : NameOf(nm, q) = n => q = p
       PROVE  HashFind(m, nm, n) = p
  <2>1. PICK f \in Used(m) : PropAt(m, f) = p
    BY <1>1 DEF Holds
  <2>2. Reached(m.size, Nulls(m), n, f)
    BY <1>1, <1>10, <2>1 DEF Chains
  <2>3. PICK i \in 0..(m.size - 1) :
          Probe(m.size, n, i) = f /\ \A j \in 0..(m.size - 1) : j < i => Probe(m.size, n, j) \notin Nulls(m)
    BY <2>2 DEF Reached
  <2>4. f \in H /\ f \notin Nulls(m)
    BY <1>2, <1>5, <1>10, <2>1 DEF Used
  <2>5. ~ (i < k)
    BY <1>7, <2>3, <2>4
  <2>6. e \notin Nulls(m)
    <3>. SUFFICES ASSUME e \in Nulls(m) PROVE FALSE
      OBVIOUS
    <3>1. i # k
      BY <2>3, <2>4
    <3>2. k < i
      BY <1>2, <1>7, <2>3, <2>5, <3>1
    <3>. QED
      BY <1>7, <2>3, <3>2
  <2>7. e \in Used(m) /\ NameOf(nm, PropAt(m, e)) = n
    BY <1>5, <1>7, <2>6
  <2>8. PropAt(m, e) \in L
    BY <1>1, <2>7 DEF Holds
  <2>. QED
    BY <1>8, <1>10, <2>6, <2>7, <2>8
<1>. QED
  BY <1>6, <1>9, <1>10

\* The hashmap does not depend on the names of other properties.
LEMMA MapNames ==
  ASSUME NEW m, NEW L, NEW nm, NEW nm1, MapOK(m, L, nm), \A prop \in L : NameOf(nm1, prop) = NameOf(nm, prop)
  PROVE  MapOK(m, L, nm1)
<1>1. \A e \in Used(m) : PropAt(m, e) \in L
  BY DEF MapOK, Holds
<1>2. Chains(m, nm)
  BY DEF MapOK
<1>3. \A e \in Used(m) : NameOf(nm1, PropAt(m, e)) = NameOf(nm, PropAt(m, e))
  BY <1>1
<1>4. Chains(m, nm1)
  BY <1>2, <1>3 DEF Chains
<1>. QED
  BY <1>4 DEF MapOK

\* Live properties have names.
LEMMA LiveNamed ==
  ASSUME NEW l, NEW nm \in NamesType
  PROVE  Live(l, nm) \subseteq Props /\ Named(Live(l, nm), nm)
<1>1. \A prop \in Props : prop[1] \in Pairs /\ prop[2] \in Slots
  BY DEF Props
<1>2. \A prop \in Props : nm[prop[1]][prop[2]] \in Names \cup {Deleted}
  BY <1>1 DEF NamesType
<1>. QED
  BY <1>2 DEF Live, Named, NameOf

\* An empty hashmap.
LEMMA BlankOK ==
  ASSUME NEW size, IsSize(size), NEW nm, NEW m,
         m = [size |-> size, nulls |-> size, unused |-> size,
              at |-> [e \in 0..(size - 1) |-> [pair |-> Null, bit |-> 0]]]
  PROVE  MapOK(m, {}, nm) /\ m \in MapOf(size) /\ m.nulls = size /\ m.size = size
<1>1. size \in Nat
  BY SizeFacts
<1>2. [pair |-> Null, bit |-> 0] \in Entry
  BY DEF Entry, Slots
<1>3. [e \in 0..(size - 1) |-> [pair |-> Null, bit |-> 0]] \in [0..(size - 1) -> Entry]
  BY <1>2
<1>4. m \in MapOf(size) /\ m.nulls = size /\ m.unused = size /\ m.size = size
  BY <1>1, <1>3 DEF MapOf
<1>5. \A e \in 0..(size - 1) : m.at[e] = [pair |-> Null, bit |-> 0]
  OBVIOUS
<1>6. \A e \in 0..(size - 1) : m.at[e].pair = Null /\ m.at[e].bit = 0
  BY <1>5
<1>7. Unused(m) = 0..(size - 1)
  BY <1>4, <1>6 DEF Unused
<1>8. Nulls(m) = 0..(size - 1)
  BY <1>6, <1>7 DEF Nulls
<1>9. Used(m) = {}
  BY <1>4, <1>7 DEF Used
<1>10. Cardinality(0..(size - 1)) = size
  BY <1>1, FS_Interval
<1>11. Counts(m)
  BY <1>4, <1>7, <1>8, <1>10 DEF Counts
<1>. QED
  BY <1>4, <1>9, <1>11 DEF MapOK, Holds, Chains

\* The hashmap that ecma_property_hashmap_create fills is right.
LEMMA BuildOK ==
  ASSUME NEW l \in Seq(Pairs), Once(l), NEW nm \in NamesType
  PROVE  MapOK(Build(l, nm), Live(l, nm), nm) /\ Build(l, nm).nulls >= 1
<1> DEFINE props == Properties(l, nm)
           N == Len(props)
           size == MapSize(N)
           blank == [size |-> size, nulls |-> size, unused |-> size,
                     at |-> [e \in 0..(size - 1) |-> [pair |-> Null, bit |-> 0]]]
           E(f) == f = [k \in 0..N |->
                          IF k = 0 THEN blank
                          ELSE Place(f[k - 1], nm[props[k][1]][props[k][2]], props[k])]
           h == [k \in 1..N |-> [x \in MapOf(size) |-> Place(x, nm[props[k][1]][props[k][2]], props[k])]]
<1>1. Build(l, nm) = (CHOOSE f : E(f))[N]
  BY DEF Build
<1>2. props \in Seq(Props) /\ Once(props) /\ Elements(props) = Live(l, nm)
  BY PropertiesFacts
<1>. HIDE DEF props
<1>3. N \in Nat /\ \A k \in 1..N : props[k] \in Props
  BY <1>2
<1>4. \A k \in 1..N : NameOf(nm, props[k]) \in Names
  <2>1. \A k \in 1..N : props[k] \in Live(l, nm)
    BY <1>2 DEF Elements
  <2>. QED
    BY <2>1, LiveNamed DEF Named
<1>. HIDE DEF N
<1>5. IsSize(size) /\ size >= N + N \div 2 /\ size \in Nat /\ size >= 2
  BY <1>3, MapSizeFacts, SizeFacts
<1>. HIDE DEF size
<1>6. size >= N + 1
  <2>1. CASE N <= 1
    BY <1>3, <1>5, <2>1
  <2>2. CASE N >= 2
    BY <1>3, <1>5, <2>2
  <2>. QED
    BY <1>3, <2>1, <2>2
<1>7. MapOK(blank, {}, nm) /\ blank \in MapOf(size) /\ blank.nulls = size /\ blank.size = size
  BY <1>5, BlankOK
<1>. HIDE DEF blank
<1>8. h \in [1..N -> [MapOf(size) -> MapOf(size)]]
  <2>1. \A k \in 1..N : \A x \in MapOf(size) : Place(x, nm[props[k][1]][props[k][2]], props[k]) \in MapOf(size)
    BY <1>3, <1>5, PlaceIs
  <2>. QED
    BY <2>1
<1>9. PICK g \in [0..N -> MapOf(size)] : Repeats(g, blank, h, N)
  <2>. HIDE DEF h
  <2>. QED
    BY <1>3, <1>7, <1>8, RecursionExists
<1>10. g[0] = blank /\ \A k \in 1..N : g[k] = Place(g[k - 1], nm[props[k][1]][props[k][2]], props[k])
  <2>1. \A k \in 1..N : g[k - 1] \in MapOf(size)
    BY <1>3
  <2>. QED
    BY <1>9, <2>1 DEF Repeats
<1>. HIDE DEF h
<1>11. E(g)
  <2>1. g = [k \in 0..N |-> g[k]]
    OBVIOUS
  <2>2. \A k \in 0..N : k = 0 \/ k \in 1..N
    BY <1>3
  <2>. QED
    BY <1>3, <1>10, <2>1, <2>2
<1> DEFINE c == CHOOSE f : E(f)
<1>12. E(c)
  BY <1>11
<1>. HIDE DEF c
<1>13. c[0] = blank /\ \A k \in 1..N : c[k] = Place(c[k - 1], NameOf(nm, props[k]), props[k])
  <2>1. 0 \in 0..N /\ \A k \in 1..N : k \in 0..N /\ k # 0
    BY <1>3
  <2>. QED
    BY <1>12, <2>1 DEF NameOf
<1>. HIDE DEF E
<1> DEFINE until(k) == {props[i] : i \in 1..k}
           good(k) == MapOK(c[k], until(k), nm) /\ c[k].nulls >= size - k /\ c[k].size = size
<1>14. \A k \in 0..N : good(k)
  <2> DEFINE T == {k \in 0..N : ~ good(k)}
  <2>. SUFFICES ASSUME T # {} PROVE FALSE
    OBVIOUS
  <2>1. T \in SUBSET Nat
    BY <1>3
  <2>2. PICK k \in T : \A j \in T : k <= j
    BY <2>1, LeastNumber
  <2>3. k \in 0..N /\ ~ good(k)
    BY <2>2
  <2>4. k # 0
    <3>1. until(0) = {}
      OBVIOUS
    <3>2. MapOK(c[0], until(0), nm)
      <4>. HIDE DEF until
      <4>. QED
        BY <1>7, <1>13, <3>1
    <3>3. c[0].nulls = size /\ c[0].size = size /\ size >= size - 0
      BY <1>5, <1>7, <1>13
    <3>4. good(0)
      <4>. HIDE DEF until
      <4>. QED
        BY <3>2, <3>3
    <3>. QED
      BY <2>3, <3>4
  <2>. HIDE DEF good
  <2>5. k \in 1..N /\ k - 1 \in 0..N /\ k - 1 \notin T /\ k \in Nat
    <3>. HIDE DEF T
    <3>. QED
      BY <1>3, <2>2, <2>3, <2>4
  <2>6. good(k - 1)
    BY <2>5
  <2>7. until(k) = until(k - 1) \cup {props[k]}
    <3>1. \A i \in 1..k : i = k \/ i \in 1..(k - 1)
      BY <2>5
    <3>2. k \in 1..k /\ \A i \in 1..(k - 1) : i \in 1..k
      BY <2>5
    <3>. QED
      BY <3>1, <3>2
  <2>8. props[k] \notin until(k - 1)
    <3>1. \A i \in 1..(k - 1) : i \in 1..N /\ i # k
      BY <1>3, <2>5
    <3>. QED
      BY <1>2, <2>5, <3>1 DEF Once, N
  <2>. HIDE DEF until
  <2>9. MapOK(c[k - 1], until(k - 1), nm) /\ c[k - 1].nulls >= size - (k - 1) /\ c[k - 1].size = size
    BY <2>6 DEF good
  <2>10. c[k - 1].nulls \in Int
    BY <2>9 DEF MapOK, MapOf
  <2>11. c[k - 1].nulls >= 1
    BY <1>3, <1>5, <1>6, <2>5, <2>9, <2>10
  <2>12. c[k] = Place(c[k - 1], NameOf(nm, props[k]), props[k])
    BY <1>13, <2>5
  <2>13. props[k] \in Props /\ NameOf(nm, props[k]) \in Names
    BY <1>3, <1>4, <2>5
  <2>14. MapOK(c[k], until(k), nm) /\ c[k].nulls >= c[k - 1].nulls - 1 /\ c[k].size = size
    <3> DEFINE m == c[k - 1]
               prop == props[k]
               L == until(k - 1)
               n == NameOf(nm, prop)
    <3>1. MapOK(m, L, nm) /\ m.nulls >= 1 /\ prop \in Props /\ n \in Names /\ n = NameOf(nm, prop) /\ prop \notin L
      BY <2>8, <2>9, <2>11, <2>13
    <3>2. c[k] = Place(m, n, prop) /\ until(k) = L \cup {prop} /\ m.size = size
      BY <2>7, <2>9, <2>12
    <3>. HIDE DEF m, prop, L, n
    <3>3. MapOK(Place(m, n, prop), L \cup {prop}, nm) /\ Place(m, n, prop).nulls >= m.nulls - 1
          /\ Place(m, n, prop).size = m.size
      BY <3>1, PlaceOK
    <3>. QED
      BY <3>2, <3>3 DEF m
  <2>15. c[k].nulls \in Int
    BY <2>14 DEF MapOK, MapOf
  <2>16. c[k].nulls >= size - k
    BY <1>5, <2>5, <2>9, <2>10, <2>14, <2>15
  <2>. QED
    BY <2>3, <2>14, <2>16 DEF good
<1>15. N \in 0..N /\ until(N) = Live(l, nm)
  BY <1>2, <1>3 DEF Elements, N
<1>16. good(N)
  <2>. HIDE DEF good
  <2>. QED
    BY <1>14, <1>15
<1>17. Build(l, nm) = c[N]
  BY <1>1 DEF c, blank, E, N, size, props
<1>18. MapOK(c[N], Live(l, nm), nm) /\ c[N].nulls >= size - N
  BY <1>15, <1>16
<1>19. c[N].nulls \in Int
  BY <1>18 DEF MapOK, MapOf
<1>. QED
  BY <1>3, <1>5, <1>6, <1>17, <1>18, <1>19

-----------------------------------------------------------------------------
(* Deletion                                                                *)

\* The entry that is deleted.
EntryOf(m, n, prop) == CHOOSE e \in Holding(m, name, n) : <<m.at[e].pair, m.at[e].bit>> = prop

\* The records that HashmapDelete makes.
LEMMA HashmapDeleteIs ==
  ASSUME NEW size, IsSize(size), NEW m \in MapOf(size), NEW n, NEW prop
  PROVE  /\ HashmapDelete(m, n, prop) \in [recreate : BOOLEAN, map : MapOf(size)]
         /\ ~ HashmapDelete(m, n, prop).recreate =>
              /\ m.unused + 1 <= (m.size * 3) \div 4
              /\ HashmapDelete(m, n, prop).map.at = [m.at EXCEPT ![EntryOf(m, n, prop)] = [pair |-> Null, bit |-> 1]]
              /\ HashmapDelete(m, n, prop).map.unused = m.unused + 1
              /\ HashmapDelete(m, n, prop).map.nulls = m.nulls
<1> DEFINE e == EntryOf(m, n, prop)
           x == [pair |-> Null, bit |-> 1]
           u == m.unused + 1
           P == [m EXCEPT !.unused = u, !.at[e] = x]
           Q == [m EXCEPT !.unused = u]
           b == (m.size * 3) \div 4
           D == HashmapDelete(m, n, prop)
<1>1. D = IF u > b THEN [recreate |-> TRUE, map |-> Q] ELSE [recreate |-> FALSE, map |-> P]
  BY DEF HashmapDelete, EntryOf
<1>2. x \in Entry
  BY DEF Entry, Slots
<1>3. m.unused \in Int /\ m.size \in Nat
  BY SizeFacts DEF MapOf
<1>4. u \in Int /\ b \in Int
  BY <1>3
<1>5. u <= b <=> m.unused + 1 <= (m.size * 3) \div 4
  OBVIOUS
<1>. HIDE DEF x, b, D, e
<1>6. u = m.unused + 1
  OBVIOUS
<1>. HIDE DEF u
<1>7. P \in MapOf(size) /\ P.nulls = m.nulls /\ P.unused = u /\ P.at = [m.at EXCEPT ![e] = x]
  BY <1>2, <1>4 DEF MapOf
<1>8. Q \in MapOf(size)
  BY <1>4 DEF MapOf
<1>. HIDE DEF P, Q
<1>9. CASE u > b
  <2>1. D = [recreate |-> TRUE, map |-> Q]
    BY <1>1, <1>9
  <2>. QED
    BY <1>8, <2>1 DEF D
<1>10. CASE ~ (u > b)
  <2>1. D = [recreate |-> FALSE, map |-> P]
    BY <1>1, <1>10
  <2>2. u <= b
    BY <1>4, <1>10
  <2>3. D \in [recreate : BOOLEAN, map : MapOf(size)] /\ D.map = P
    BY <1>7, <2>1
  <2>. QED
    BY <1>5, <1>6, <1>7, <2>2, <2>3 DEF D, x, e
<1>. QED
  BY <1>9, <1>10

\* ecma_property_hashmap_delete keeps the hashmap right: the entry that is left
\* behind is no NULL, so no search is cut.
LEMMA HashmapDeleteOK ==
  ASSUME NEW m, NEW L, MapOK(m, L, name), NEW prop \in L, NEW n, n = NameOf(name, prop),
         ~ HashmapDelete(m, n, prop).recreate
  PROVE  /\ MapOK(HashmapDelete(m, n, prop).map, L \ {prop}, name)
         /\ HashmapDelete(m, n, prop).map.nulls = m.nulls
         /\ HashmapDelete(m, n, prop).map.size = m.size
         /\ HashmapDelete(m, n, prop).map.unused <= (m.size * 3) \div 4
<1> DEFINE e == EntryOf(m, n, prop)
           x == [pair |-> Null, bit |-> 1]
           m1 == HashmapDelete(m, n, prop).map
<1>1. /\ IsSize(m.size) /\ m \in MapOf(m.size) /\ Holds(m, L) /\ Chains(m, name)
      /\ m.nulls = Cardinality(Nulls(m)) /\ m.unused = Cardinality(Unused(m))
  BY DEF MapOK, Counts
<1>2. /\ m.size \in Nat /\ m.nulls \in Int /\ m.unused \in Int
      /\ Nulls(m) \subseteq Unused(m) /\ Unused(m) \subseteq 0..(m.size - 1)
      /\ IsFiniteSet(Nulls(m)) /\ IsFiniteSet(Unused(m))
      /\ \A f \in Used(m) : PropAt(m, f) \in Props /\ f \in 0..(m.size - 1)
  BY <1>1, MapSets
<1>3. PICK f \in Used(m) : PropAt(m, f) = prop
  BY <1>1 DEF Holds
<1>4. f \in Holding(m, name, n)
  BY <1>3 DEF Holding, Used, NameOf, PropAt
<1>5. e \in Holding(m, name, n) /\ PropAt(m, e) = prop
  BY <1>3, <1>4 DEF PropAt, EntryOf
<1>. HIDE DEF e
<1>6. e \in Used(m) /\ e \in 0..(m.size - 1) /\ e \notin Unused(m)
  BY <1>2, <1>5 DEF Holding, Used
<1>7. /\ m1 \in MapOf(m.size) /\ m1.at = [m.at EXCEPT ![e] = x] /\ m1.nulls = m.nulls
      /\ m1.unused = m.unused + 1 /\ m1.unused <= (m.size * 3) \div 4
  <2>2. /\ HashmapDelete(m, n, prop) \in [recreate : BOOLEAN, map : MapOf(m.size)]
        /\ m.unused + 1 <= (m.size * 3) \div 4
        /\ m1.at = [m.at EXCEPT ![e] = x] /\ m1.unused = m.unused + 1 /\ m1.nulls = m.nulls
    BY <1>1, HashmapDeleteIs DEF e
  <2>. HIDE DEF x
  <2>. QED
    BY <2>2
<1>8. x \in Entry /\ x.pair = Null /\ x.bit # 0
  BY DEF Entry, Slots
<1>. HIDE DEF m1, x
<1>9. /\ m1.size = m.size /\ m1 \in MapOf(m1.size)
      /\ \A g \in 0..(m.size - 1) : g # e => PropAt(m1, g) = PropAt(m, g)
      /\ Unused(m1) = Unused(m) \cup {e} /\ Used(m1) = Used(m) \ {e} /\ Nulls(m1) = Nulls(m) \ {e}
  BY <1>1, <1>6, <1>7, <1>8, EntryChanges
<1>10. Nulls(m1) = Nulls(m)
  BY <1>2, <1>6, <1>9
<1>11. \A g \in Used(m1) : g \in Used(m) /\ g # e /\ PropAt(m1, g) = PropAt(m, g)
  BY <1>2, <1>9
<1>12. Holds(m1, L \ {prop})
  <2>1. \A g \in Used(m) : PropAt(m, g) \in L
    BY <1>1 DEF Holds
  <2>2. \A p \in L : \E g \in Used(m) : PropAt(m, g) = p
    BY <1>1 DEF Holds
  <2>3. \A g1, g2 \in Used(m) : PropAt(m, g1) = PropAt(m, g2) => g1 = g2
    BY <1>1 DEF Holds
  <2>4. \A g \in Used(m1) : PropAt(m1, g) \in L \ {prop}
    BY <1>5, <1>6, <1>11, <2>1, <2>3
  <2>5. ASSUME NEW p \in L \ {prop} PROVE \E g \in Used(m1) : PropAt(m1, g) = p
    <3>1. PICK g \in Used(m) : PropAt(m, g) = p
      BY <2>2
    <3>2. g # e
      BY <1>5, <2>5, <3>1
    <3>. QED
      BY <1>9, <1>11, <3>1, <3>2
  <2>6. \A g1, g2 \in Used(m1) : PropAt(m1, g1) = PropAt(m1, g2) => g1 = g2
    BY <1>11, <2>3
  <2>. QED
    BY <2>4, <2>5, <2>6 DEF Holds
<1>13. Chains(m1, name)
  BY <1>1, <1>9, <1>10, <1>11 DEF Chains
<1>14. Counts(m1)
  <2>1. Cardinality(Unused(m) \cup {e}) = Cardinality(Unused(m)) + 1
    BY <1>2, <1>6, FS_AddElement
  <2>. QED
    BY <1>1, <1>7, <1>9, <1>10, <2>1 DEF Counts
<1>. QED
  BY <1>1, <1>7, <1>9, <1>12, <1>13, <1>14 DEF MapOK, m1

\* The result of deleting several properties, unless the hashmap is made again.
LEMMA HashmapDeleteAllOK ==
  ASSUME NEW m, NEW L, MapOK(m, L, name), m.nulls >= 1, NEW props \in Seq(Props), Once(props),
         Elements(props) \subseteq L, props # <<>>, ~ HashmapDeleteAll(m, props).recreate
  PROVE  /\ MapOK(HashmapDeleteAll(m, props).map, L \ Elements(props), name)
         /\ HashmapDeleteAll(m, props).map.nulls >= 1
         /\ HashmapDeleteAll(m, props).map.unused <= (HashmapDeleteAll(m, props).map.size * 3) \div 4
<1> DEFINE N == Len(props)
           X == [recreate : BOOLEAN, map : MapOf(m.size)]
           x0 == [recreate |-> FALSE, map |-> m]
           D(r, k) == IF r.recreate THEN r ELSE HashmapDelete(r.map, name[props[k][1]][props[k][2]], props[k])
           E(f) == f = [k \in 0..N |-> IF k = 0 THEN x0 ELSE D(f[k - 1], k)]
           h == [k \in 1..N |-> [r \in X |-> D(r, k)]]
<1>1. HashmapDeleteAll(m, props) = (CHOOSE f : E(f))[N]
  BY DEF HashmapDeleteAll
<1>2. IsSize(m.size) /\ m \in MapOf(m.size)
  BY DEF MapOK
<1>3. N \in Nat /\ N >= 1 /\ \A k \in 1..N : props[k] \in Props
  OBVIOUS
<1>4. \A k \in 1..N : props[k] \in L
  BY DEF Elements
<1>5. x0 \in X
  BY <1>2
<1>6. ASSUME NEW r \in X, NEW k \in 1..N PROVE D(r, k) \in X
  <2>1. r.map \in MapOf(m.size)
    OBVIOUS
  <2>2. HashmapDelete(r.map, name[props[k][1]][props[k][2]], props[k]) \in X
    BY <1>2, <2>1, HashmapDeleteIs
  <2>. QED
    BY <2>2
<1>. HIDE DEF D
<1>7. h \in [1..N -> [X -> X]]
  BY <1>6
<1>. HIDE DEF X, N
<1>8. PICK g \in [0..N -> X] : Repeats(g, x0, h, N)
  <2>. HIDE DEF h, x0
  <2>. QED
    BY <1>3, <1>5, <1>7, RecursionExists
<1>9. g[0] = x0 /\ \A k \in 1..N : g[k] = D(g[k - 1], k)
  <2>1. \A k \in 1..N : g[k - 1] \in X
    BY <1>3
  <2>. HIDE DEF x0
  <2>. QED
    BY <1>8, <2>1 DEF Repeats
<1>. HIDE DEF h, x0
<1>10. E(g)
  <2>1. g = [k \in 0..N |-> g[k]]
    OBVIOUS
  <2>2. \A k \in 0..N : k = 0 \/ k \in 1..N
    BY <1>3
  <2>. QED
    BY <1>3, <1>9, <2>1, <2>2
<1> DEFINE c == CHOOSE f : E(f)
<1>11. E(c)
  BY <1>10
<1>. HIDE DEF c
<1>12. c[0] = x0 /\ \A k \in 1..N : c[k] = D(c[k - 1], k)
  <2>1. 0 \in 0..N /\ \A k \in 1..N : k \in 0..N /\ k # 0
    BY <1>3
  <2>. QED
    BY <1>11, <2>1
<1>. HIDE DEF E
<1> DEFINE until(k) == {props[i] : i \in 1..k}
           fine(q, k) == /\ MapOK(q, L \ until(k), name) /\ q.nulls = m.nulls /\ q.size = m.size
                         /\ k >= 1 => q.unused <= (m.size * 3) \div 4
           good(k) == c[k] \in X /\ (~ c[k].recreate => fine(c[k].map, k))
<1>13. \A k \in 0..N : good(k)
  <2> DEFINE T == {k \in 0..N : ~ good(k)}
  <2>. SUFFICES ASSUME T # {} PROVE FALSE
    OBVIOUS
  <2>1. T \in SUBSET Nat
    BY <1>3
  <2>2. PICK k \in T : \A j \in T : k <= j
    BY <2>1, LeastNumber
  <2>3. k \in 0..N /\ ~ good(k)
    BY <2>2
  <2>4. k # 0
    <3>1. L \ until(0) = L
      OBVIOUS
    <3>. HIDE DEF until
    <3>5. MapOK(m, L \ until(0), name)
      BY <3>1, Zenon
    <3>2. fine(m, 0)
      BY <3>5
    <3>. HIDE DEF fine
    <3>3. c[0] \in X /\ c[0].map = m
      BY <1>5, <1>12 DEF x0
    <3>4. good(0)
      BY <3>2, <3>3
    <3>. QED
      BY <2>3, <3>4
  <2>. HIDE DEF good
  <2>5. k \in 1..N /\ k - 1 \in 0..N /\ k - 1 \notin T /\ k \in Nat /\ k >= 1
    <3>. HIDE DEF T
    <3>. QED
      BY <1>3, <2>2, <2>3, <2>4
  <2>6. good(k - 1)
    BY <2>5
  <2>7. until(k) = until(k - 1) \cup {props[k]}
    <3>1. \A i \in 1..k : i = k \/ i \in 1..(k - 1)
      BY <2>5
    <3>2. k \in 1..k /\ \A i \in 1..(k - 1) : i \in 1..k
      BY <2>5
    <3>. QED
      BY <3>1, <3>2
  <2>8. props[k] \in L \ until(k - 1)
    <3>1. \A i \in 1..(k - 1) : i \in 1..N /\ i # k
      BY <1>3, <2>5
    <3>2. props[k] \notin until(k - 1)
      BY <2>5, <3>1 DEF Once, N
    <3>. QED
      BY <1>4, <2>5, <3>2
  <2>. HIDE DEF until
  <2> DEFINE r == c[k - 1]
  <2>9. r \in X /\ (~ r.recreate => fine(r.map, k - 1)) /\ c[k] = D(r, k)
    BY <1>12, <2>5, <2>6 DEF good
  <2>. HIDE DEF r, fine
  <2>10. c[k] \in X
    BY <1>6, <2>5, <2>9
  <2>11. r.recreate \in BOOLEAN
    BY <2>9 DEF X
  <2>12. CASE r.recreate
    <3>1. c[k] = r
      BY <2>9, <2>12 DEF D
    <3>2. good(k)
      BY <2>9, <2>12, <3>1 DEF good
    <3>. QED
      BY <2>3, <3>2
  <2>13. CASE ~ r.recreate
    <3> DEFINE q == r.map
               L0 == L \ until(k - 1)
               prop == props[k]
               n == NameOf(name, prop)
               d == HashmapDelete(q, n, prop)
    <3>1. c[k] = d
      BY <2>9, <2>13 DEF D, NameOf
    <3>2. MapOK(q, L0, name) /\ q.nulls = m.nulls /\ q.size = m.size /\ prop \in L0 /\ n = NameOf(name, prop)
      BY <2>8, <2>9, <2>13 DEF fine
    <3>3. L \ until(k) = L0 \ {prop}
      BY <2>7
    <3>. HIDE DEF q, L0, prop, n
    <3>4. ASSUME ~ d.recreate
          PROVE  /\ MapOK(d.map, L0 \ {prop}, name) /\ d.map.nulls = q.nulls /\ d.map.size = q.size
                 /\ d.map.unused <= (q.size * 3) \div 4
      <4>1. MapOK(q, L0, name) /\ prop \in L0 /\ n = NameOf(name, prop) /\ ~ HashmapDelete(q, n, prop).recreate
        BY <3>2, <3>4
      <4>2. \A q1, L1, p1 : MapOK(q1, L1, name) /\ p1 \in L1 /\ ~ HashmapDelete(q1, NameOf(name, p1), p1).recreate =>
              /\ MapOK(HashmapDelete(q1, NameOf(name, p1), p1).map, L1 \ {p1}, name)
              /\ HashmapDelete(q1, NameOf(name, p1), p1).map.nulls = q1.nulls
              /\ HashmapDelete(q1, NameOf(name, p1), p1).map.size = q1.size
              /\ HashmapDelete(q1, NameOf(name, p1), p1).map.unused <= (q1.size * 3) \div 4
        BY HashmapDeleteOK
      <4>. QED
        BY <4>1, <4>2
    <3>. HIDE DEF d
    <3>5. ~ d.recreate => fine(d.map, k)
      BY <3>2, <3>3, <3>4 DEF fine
    <3>6. good(k)
      BY <2>10, <3>1, <3>5 DEF good
    <3>. QED
      BY <2>3, <3>6
  <2>. QED
    BY <2>11, <2>12, <2>13
<1>14. N \in 0..N /\ until(N) = Elements(props)
  BY <1>3 DEF Elements, N
<1>15. good(N)
  <2>. HIDE DEF good
  <2>. QED
    BY <1>13, <1>14
<1>16. HashmapDeleteAll(m, props) = c[N]
  BY <1>1 DEF c, E, N, x0, D
<1>. HIDE DEF until
<1>17. ~ c[N].recreate
  BY <1>16
<1>18. fine(c[N].map, N)
  <2>. HIDE DEF fine
  <2>. QED
    BY <1>15, <1>17
<1> DEFINE q == c[N].map
<1>19. MapOK(q, L \ Elements(props), name) /\ q.nulls >= 1 /\ q.unused <= (q.size * 3) \div 4
  <2>1. fine(q, N)
    BY <1>18
  <2>. HIDE DEF q
  <2>. QED
    BY <1>3, <1>14, <2>1
<1>. QED
  BY <1>16, <1>19

-----------------------------------------------------------------------------
(* The walk over the list                                                  *)

\* A name is that of at most one property of an object.
Unique(l, nm) == \A p, q \in Live(l, nm) : NameOf(nm, p) = NameOf(nm, q) => p = q

\* What the walk of ecma_find_named_property finds.
LEMMA WalkFacts ==
  ASSUME NEW l \in Seq(Pairs), NEW nm \in NamesType, NEW n \in Names
  PROVE  /\ Walk(l, nm, n) # None => Walk(l, nm, n) \in Live(l, nm) /\ NameOf(nm, Walk(l, nm, n)) = n
         /\ Walk(l, nm, n) = None => \A p \in Live(l, nm) : NameOf(nm, p) # n
<1> DEFINE at == {k \in 1..Len(l) : \E i \in Slots : nm[l[k]][i] = n}
<1>1. Len(l) \in Nat /\ \A k \in 1..Len(l) : l[k] \in Pairs
  OBVIOUS
<1>2. n # Deleted
  BY NamesNat
<1>3. CASE at = {}
  <2>1. Walk(l, nm, n) = None
    BY <1>3 DEF Walk
  <2>2. ASSUME NEW p \in Live(l, nm), NameOf(nm, p) = n PROVE FALSE
    <3>1. p[1] \in Elements(l) /\ p[2] \in Slots /\ nm[p[1]][p[2]] = n
      BY <2>2 DEF Live, Props, NameOf
    <3>2. PICK k \in 1..Len(l) : l[k] = p[1]
      BY <3>1 DEF Elements
    <3>3. k \in at
      BY <3>1, <3>2
    <3>. QED
      BY <1>3, <3>3
  <2>. QED
    BY <2>1, <2>2
<1>4. CASE at # {}
  <2> DEFINE k == CHOOSE j \in at : \A i \in at : j <= i
             p == l[k]
             b == IF nm[p][0] = n THEN 0 ELSE 1
  <2>1. \E j \in at : \A i \in at : j <= i
    <3>1. at \in SUBSET Nat
      BY <1>1
    <3>. QED
      BY <1>4, <3>1, LeastNumber
  <2>2. k \in at
    BY <2>1
  <2>3. Walk(l, nm, n) = <<p, b>>
    BY <1>4 DEF Walk
  <2>. HIDE DEF k
  <2>4. k \in 1..Len(l) /\ p \in Pairs /\ p \in Elements(l) /\ \E i \in Slots : nm[p][i] = n
    BY <1>1, <2>2 DEF Elements
  <2>. HIDE DEF p
  <2>5. b \in Slots /\ nm[p][b] = n
    BY <2>4 DEF Slots
  <2>. HIDE DEF b
  <2>6. <<p, b>> \in Props /\ <<p, b>>[1] = p /\ <<p, b>>[2] = b
    BY <2>4, <2>5 DEF Props
  <2>7. <<p, b>> # None
    BY <2>6, EntryFacts
  <2>8. <<p, b>> \in Live(l, nm) /\ NameOf(nm, <<p, b>>) = n
    BY <1>2, <2>4, <2>5, <2>6 DEF Live, NameOf
  <2>. QED
    BY <2>3, <2>7, <2>8
<1>. QED
  BY <1>3, <1>4

\* It finds the property, where a name is used once.
LEMMA WalkUnique ==
  ASSUME NEW l \in Seq(Pairs), NEW nm \in NamesType, Unique(l, nm), NEW n \in Names,
         NEW p \in Live(l, nm), NameOf(nm, p) = n
  PROVE  Walk(l, nm, n) = p
BY WalkFacts DEF Unique

\* The search in the hashmap and the walk over the list agree.
LEMMA SearchesAgree ==
  ASSUME NEW l \in Seq(Pairs), NEW nm \in NamesType, Unique(l, nm), NEW n \in Names,
         NEW m, MapOK(m, Live(l, nm), nm), m.nulls >= 1
  PROVE  FirstProbe(m.size, n, Nulls(m)) # -1 /\ HashFind(m, nm, n) = Walk(l, nm, n)
<1> DEFINE L == Live(l, nm)
           w == Walk(l, nm, n)
<1>1. (w # None => w \in L /\ NameOf(nm, w) = n) /\ (w = None => \A p \in L : NameOf(nm, p) # n)
  BY WalkFacts
<1>2. \A p, q \in L : NameOf(nm, p) = NameOf(nm, q) => p = q
  BY DEF Unique
<1>. HIDE DEF L, w
<1>3. /\ FirstProbe(m.size, n, Nulls(m)) # -1
      /\ (\A q \in L : NameOf(nm, q) # n) => HashFind(m, nm, n) = None
      /\ \A p \in L : NameOf(nm, p) = n /\ (\A q \in L : NameOf(nm, q) = n => q = p)
                      => HashFind(m, nm, n) = p
  BY HashFindOK DEF L
<1>4. HashFind(m, nm, n) = w
  BY <1>1, <1>2, <1>3
<1>. QED
  BY <1>3, <1>4 DEF w

-----------------------------------------------------------------------------
(* The hashmaps of all objects                                             *)

HeapType == [state : 0..AllocMax, high : BOOLEAN]

\* The hashmaps q in front of a list with the properties L.
MapFor(q, L, nm) == q = <<>> \/ \E m : q = <<m>> /\ MapOK(m, L, nm) /\ m.nulls >= 1 /\ L # {}

\* All objects have the hashmaps they should, but perhaps those in S.
MapsBut(S, M, l, nm) ==
  M = [o \in Objects |-> M[o]] /\ \A o \in Objects \ S : MapFor(M[o], Live(l[o], nm), nm)

\* The hashmaps of objects whose properties stay.
LEMMA MapForLists ==
  ASSUME NEW M, NEW l, NEW nm, MapsBut({}, M, l, nm), NEW l1, NEW nm1, NEW S,
         \A o \in Objects \ S : Live(l1[o], nm1) = Live(l[o], nm),
         \A o \in Objects \ S : \A p \in Live(l[o], nm) : NameOf(nm1, p) = NameOf(nm, p)
  PROVE  MapsBut(S, M, l1, nm1)
<1>1. ASSUME NEW o \in Objects \ S PROVE MapFor(M[o], Live(l1[o], nm1), nm1)
  <2>1. MapFor(M[o], Live(l[o], nm), nm)
    BY DEF MapsBut
  <2>2. CASE M[o] = <<>>
    BY <2>2 DEF MapFor
  <2>3. CASE M[o] # <<>>
    <3> DEFINE L == Live(l[o], nm)
    <3>1. PICK m : M[o] = <<m>> /\ MapOK(m, L, nm) /\ m.nulls >= 1 /\ L # {}
      BY <2>1, <2>3 DEF MapFor
    <3>2. Live(l1[o], nm1) = L /\ \A p \in L : NameOf(nm1, p) = NameOf(nm, p)
      OBVIOUS
    <3>. HIDE DEF L
    <3>3. MapOK(m, L, nm1)
      BY <3>1, <3>2, MapNames
    <3>. QED
      BY <3>1, <3>2, <3>3 DEF MapFor
  <2>. QED
    BY <2>2, <2>3
<1>. QED
  BY <1>1 DEF MapsBut

\* No hashmaps are right hashmaps.
LEMMA MapsButNone ==
  ASSUME NEW S, NEW l, NEW nm
  PROVE  MapsBut(S, NoMaps, l, nm) /\ \A o \in Objects : NoMaps[o] = <<>>
BY DEF MapsBut, NoMaps, MapFor

\* One object's hashmap changes.
LEMMA MapsButPut ==
  ASSUME NEW M, NEW l, NEW nm, NEW o \in Objects, MapsBut({o}, M, l, nm), NEW q, MapFor(q, Live(l[o], nm), nm),
         NEW M1, M1 = [M EXCEPT ![o] = q]
  PROVE  MapsBut({}, M1, l, nm)
<1>1. M = [x \in Objects |-> M[x]] /\ \A x \in Objects \ {o} : MapFor(M[x], Live(l[x], nm), nm)
  BY DEF MapsBut
<1>2. DOMAIN M = Objects
  BY <1>1
<1>3. M1 = [x \in Objects |-> M1[x]] /\ M1[o] = q /\ \A x \in Objects \ {o} : M1[x] = M[x]
  BY <1>2
<1>4. \A x \in Objects : x = o \/ x \in Objects \ {o}
  OBVIOUS
<1>. HIDE DEF MapFor
<1>5. \A x \in Objects : MapFor(M1[x], Live(l[x], nm), nm)
  BY <1>1, <1>3, <1>4
<1>. QED
  BY <1>3, <1>5 DEF MapsBut

\* The object that was left out has its hashmap after all.
LEMMA MapsButFull ==
  ASSUME NEW M, NEW l, NEW nm, NEW o \in Objects, MapsBut({o}, M, l, nm), MapFor(M[o], Live(l[o], nm), nm)
  PROVE  MapsBut({}, M, l, nm)
<1>1. \A x \in Objects : x = o \/ x \in Objects \ {o}
  OBVIOUS
<1>. QED
  BY <1>1 DEF MapsBut

\* ecma_free_unused_memory keeps the state of the allocation in its range.
LEMMA Pressure ==
  ASSUME NEW h \in HeapType
  PROVE  LowPressure(h) \in HeapType /\ HighPressure(h) \in HeapType
<1>1. AllocMax \in Nat /\ AllocMax >= 1
  BY PropertyAssumption
<1>2. h.state \in 0..AllocMax /\ h.high \in BOOLEAN /\ h.state \in Nat
  BY <1>1 DEF HeapType
<1>3. (IF h.state > 0 THEN h.state - 1 ELSE 0) \in 0..AllocMax
  BY <1>1, <1>2
<1>4. LowPressure(h) \in HeapType
  BY <1>3 DEF LowPressure, HeapType
<1>5. CASE h.high
  <2>1. HighPressure(h) = [h EXCEPT !.state = AllocMax]
    BY <1>5 DEF HighPressure
  <2>. QED
    BY <1>1, <1>4, <2>1 DEF HeapType
<1>6. CASE ~ h.high /\ h.state < AllocMax
  <2>1. HighPressure(h) = [state |-> h.state + 1, high |-> TRUE]
    BY <1>6 DEF HighPressure
  <2>2. h.state + 1 \in 0..AllocMax
    BY <1>1, <1>2, <1>6
  <2>. QED
    BY <1>4, <2>1, <2>2 DEF HeapType
<1>7. CASE ~ h.high /\ ~ (h.state < AllocMax)
  <2>1. HighPressure(h) = h
    BY <1>7 DEF HighPressure
  <2>. QED
    BY <1>4, <2>1
<1>. QED
  BY <1>5, <1>6, <1>7

\* An allocation keeps a hashmap or frees it.
LEMMA AllocationOK ==
  ASSUME NEW M, NEW h \in HeapType, NEW S, NEW l, NEW nm, MapsBut(S, M, l, nm), NEW a \in Allocation(M, h)
  PROVE  /\ MapsBut(S, a.maps, l, nm) /\ a.heap \in HeapType
         /\ \A o \in Objects : a.maps[o] = M[o] \/ a.maps[o] = <<>>
<1>1. /\ LowPressure(h) \in HeapType /\ HighPressure(LowPressure(h)) \in HeapType
  BY Pressure
<1>2. (a.maps = M \/ a.maps = NoMaps) /\ a.heap \in HeapType
  BY <1>1 DEF Allocation
<1>. QED
  BY <1>2, MapsButNone

\* The outcomes of ecma_property_hashmap_create for an object that has no
\* hashmap, where no program makes weak references.
LEMMA HashmapCreateOK ==
  ASSUME ~ Weak, NEW o \in Objects, NEW l, NEW nm \in NamesType, l[o] \in Seq(Pairs), Once(l[o]),
         NEW M, MapsBut({o}, M, l, nm), M[o] = <<>>, NEW h \in HeapType,
         NEW r \in HashmapCreate(o, l[o], nm, M, h)
  PROVE  MapsBut({}, r.maps, l, nm) /\ r.heap \in HeapType
<1> DEFINE low == LowPressure(h)
           high == HighPressure(low)
           new == Build(l[o], nm)
           L == Live(l[o], nm)
           Put(other) == [other EXCEPT ![o] = <<new>> \o @]
<1>1. low \in HeapType /\ high \in HeapType
  BY Pressure
<1>2. WeakSweep(o, M, low) = {}
  BY DEF WeakSweep
<1>3. \/ r = [maps |-> M, heap |-> h]
      \/ /\ Len(Properties(l[o], nm)) >= MinSize \div 2
         /\ \/ \E a \in Allocation(M, h) : r = [maps |-> Put(a.maps), heap |-> a.heap]
            \/ r = [maps |-> NoMaps, heap |-> high]
  <2> DEFINE c == h.state # 0 \/ l[o] = <<>> \/ Len(Properties(l[o], nm)) < MinSize \div 2
             A == {[maps |-> Put(a.maps), heap |-> a.heap] : a \in Allocation(M, h)}
             B == {[maps |-> Put(s), heap |-> low] : s \in WeakSweep(o, M, low)}
             C == {[maps |-> NoMaps, heap |-> high]}
             D == {[maps |-> M, heap |-> h]}
  <2>1. HashmapCreate(o, l[o], nm, M, h) = IF c THEN D ELSE A \cup B \cup C
    BY DEF HashmapCreate
  <2>2. B = {}
    <3>. HIDE DEF Put, low
    <3>. QED
      BY <1>2
  <2>3. Len(Properties(l[o], nm)) \in Nat
    BY PropertiesFacts
  <2>4. ~ c => Len(Properties(l[o], nm)) >= MinSize \div 2
    BY <2>3, MinSizeFacts
  <2>. HIDE DEF B, c
  <2>5. r \in D \/ (~ c /\ (r \in A \/ r \in C))
    BY <2>1, <2>2
  <2>. HIDE DEF Put
  <2>. QED
    BY <2>4, <2>5
<1>4. CASE r = [maps |-> M, heap |-> h]
  <2>1. MapFor(M[o], L, nm)
    BY DEF MapFor
  <2>2. MapsBut({}, M, l, nm)
    BY <2>1, MapsButFull
  <2>. QED
    BY <1>4, <2>2
<1>5. CASE r = [maps |-> NoMaps, heap |-> high]
  BY <1>1, <1>5, MapsButNone
<1>6. ASSUME Len(Properties(l[o], nm)) >= MinSize \div 2, NEW a \in Allocation(M, h),
             r = [maps |-> Put(a.maps), heap |-> a.heap]
      PROVE  MapsBut({}, r.maps, l, nm) /\ r.heap \in HeapType
  <2>1. MapOK(new, L, nm) /\ new.nulls >= 1
    BY BuildOK
  <2>2. L # {}
    <3> DEFINE props == Properties(l[o], nm)
    <3>1. props \in Seq(Props) /\ Elements(props) = L
      BY PropertiesFacts
    <3>. HIDE DEF props
    <3>2. 1 \in 1..Len(props)
      <4>1. Len(props) \in Nat /\ Len(props) >= MinSize \div 2
        BY <1>6, <3>1 DEF props
      <4>. QED
        BY <4>1, MinSizeFacts
    <3>. QED
      BY <3>1, <3>2 DEF Elements
  <2>3. MapsBut({o}, a.maps, l, nm) /\ a.heap \in HeapType /\ a.maps[o] = <<>>
    BY <1>6, AllocationOK
  <2>. HIDE DEF new, L
  <2>4. <<new>> \o a.maps[o] = <<new>>
    BY <2>3
  <2>5. Put(a.maps) = [a.maps EXCEPT ![o] = <<new>>]
    BY <2>4
  <2>6. MapFor(<<new>>, L, nm)
    BY <2>1, <2>2 DEF MapFor
  <2>7. MapsBut({}, [a.maps EXCEPT ![o] = <<new>>], l, nm)
    BY <2>3, <2>6, MapsButPut DEF L
  <2>. QED
    BY <1>6, <2>3, <2>5, <2>7
<1>. HIDE DEF Put
<1>. QED
  BY <1>3, <1>4, <1>5, <1>6

\* Division keeps the order.
LEMMA DivMonotone ==
  ASSUME NEW a \in Nat, NEW b \in Nat, a <= b, NEW d \in Nat \ {0}
  PROVE  a \div d <= b \div d
<1> DEFINE x == a \div d
           y == b \div d
<1>1. x \in Nat /\ y \in Nat /\ a = d * x + (a % d) /\ b = d * y + (b % d) /\ a % d \in 0..(d - 1) /\ b % d \in 0..(d - 1)
  OBVIOUS
<1>. HIDE DEF x, y
<1>2. d * x <= a /\ b < d * y + d
  BY <1>1
<1>. SUFFICES ASSUME ~ (x <= y) PROVE FALSE
  BY DEF x, y
<1>3. x >= y + 1
  BY <1>1
<1>4. PICK z \in Nat : x = y + 1 + z
  <2>1. x - y - 1 \in Nat /\ x = y + 1 + (x - y - 1)
    BY <1>1, <1>3
  <2>. QED
    BY <2>1
<1>5. d * x = d * y + d + d * z /\ d * z >= 0 /\ d * z \in Nat /\ d * y \in Nat
  BY <1>1, <1>4
<1>. QED
  BY <1>1, <1>2, <1>5

\* The outcomes of ecma_property_hashmap_insert.
LEMMA HashmapInsertOK ==
  ASSUME ~ Weak, NEW o \in Objects, NEW l, NEW nm \in NamesType, l[o] \in Seq(Pairs), Once(l[o]),
         NEW M, MapsBut({o}, M, l, nm), NEW map, M[o] = <<map>>, NEW L, MapOK(map, L, nm),
         NEW prop \in Props, prop \notin L, Live(l[o], nm) = L \cup {prop},
         NEW n \in Names, n = NameOf(nm, prop), NEW h \in HeapType,
         NEW r \in HashmapInsert(o, l[o], nm, M, h, n, prop)
  PROVE  MapsBut({}, r.maps, l, nm) /\ r.heap \in HeapType
<1>1. Head(M[o]) = map /\ Tail(M[o]) = <<>>
  OBVIOUS
<1>2. M = [x \in Objects |-> M[x]]
  BY DEF MapsBut
<1>3. CASE map.nulls < map.size \div NullFraction
  <2> DEFINE M1 == [M EXCEPT ![o] = <<>>]
  <2>1. r \in HashmapCreate(o, l[o], nm, M1, h)
    BY <1>1, <1>3 DEF HashmapInsert
  <2>2. M1[o] = <<>>
    BY <1>2
  <2>3. MapsBut({o}, M1, l, nm)
    <3>1. MapFor(<<>>, Live(l[o], nm), nm)
      BY DEF MapFor
    <3>2. MapsBut({}, M1, l, nm)
      BY <3>1, MapsButPut
    <3>. QED
      BY <3>2 DEF MapsBut
  <2>. HIDE DEF M1
  <2>. QED
    BY <2>1, <2>2, <2>3, HashmapCreateOK
<1>4. CASE ~ (map.nulls < map.size \div NullFraction)
  <2> DEFINE m1 == Place(map, n, prop)
             M1 == [M EXCEPT ![o] = <<m1>>]
  <2>1. r = [maps |-> M1, heap |-> h]
    BY <1>1, <1>4 DEF HashmapInsert
  <2>2. map.size \in Nat /\ map.size >= MinSize /\ map.nulls \in Int
    BY DEF MapOK, IsSize, MapOf
  <2>3. map.size \div NullFraction >= MinSize \div NullFraction /\ MinSize \div NullFraction >= 2
    BY <2>2, DivMonotone, MinSizeFacts, PropertyAssumption
  <2>4. map.size \div NullFraction \in Int /\ MinSize \div NullFraction \in Int
    BY <2>2, MinSizeFacts
  <2>5. map.nulls >= 2
    BY <1>4, <2>2, <2>3, <2>4
  <2>6. MapOK(m1, L \cup {prop}, nm) /\ m1.nulls >= map.nulls - 1
    <3>1. map.nulls >= 1
      BY <2>2, <2>5
    <3>. QED
      BY <3>1, PlaceOK
  <2>. HIDE DEF m1
  <2>7. m1.nulls \in Int
    BY <2>6 DEF MapOK, MapOf
  <2>8. m1.nulls >= 1
    BY <2>2, <2>5, <2>6, <2>7
  <2>9. MapFor(<<m1>>, L \cup {prop}, nm)
    BY <2>6, <2>8 DEF MapFor
  <2>10. MapsBut({}, M1, l, nm)
    BY <2>9, MapsButPut
  <2>. HIDE DEF M1
  <2>. QED
    BY <2>1, <2>10
<1>. QED
  BY <1>3, <1>4

-----------------------------------------------------------------------------
(* The lookup cache                                                        *)

RowIndexes == 0..(Rows - 1)
Columns == 1..RowLength
Entries == Objects \X Names \X Props

\* An entry of row r is filed under the object and the name of a live property.
EntryOK(x, r, cd, l, nm) ==
  /\ r = Row(x[1], x[2]) /\ x[3] \in cd
  /\ x[3] \in Live(l[x[1]], nm) /\ NameOf(nm, x[3]) = x[2]

CacheType(C) == C \in [RowIndexes -> [Columns -> {Empty} \cup Entries]]
CacheFiled(C, cd, l, nm) ==
  \A r \in RowIndexes, i \in Columns : C[r][i] # Empty => EntryOK(C[r][i], r, cd, l, nm)
CacheOnce(C) ==
  \A r1, r2 \in RowIndexes, i1, i2 \in Columns :
    C[r1][i1] # Empty /\ C[r2][i2] # Empty /\ C[r1][i1][3] = C[r2][i2][3] => r1 = r2 /\ i1 = i2
CacheAll(C, cd) == \A prop \in cd : \E r \in RowIndexes, i \in Columns : C[r][i] # Empty /\ C[r][i][3] = prop
CacheOK(C, cd, l, nm) ==
  CacheType(C) /\ cd \subseteq Props /\ CacheFiled(C, cd, l, nm) /\ CacheOnce(C) /\ CacheAll(C, cd)

\* The cache has rows and columns.
LEMMA CacheSizes == Rows \in Nat /\ RowLength \in Nat /\ RowLength >= 1 /\ 1 \in Columns /\ RowLength \in Columns
BY PropertyAssumption, PowerFacts DEF Columns, Rows

\* An entry of the cache that is not empty.
LEMMA EntryType ==
  /\ \A x \in Entries : x # Empty /\ x[1] \in Objects /\ x[2] \in Names /\ x[3] \in Props
  /\ \A o \in Objects, n \in Names, prop \in Props :
       <<o, n, prop>> \in Entries /\ <<o, n, prop>>[1] = o /\ <<o, n, prop>>[2] = n /\ <<o, n, prop>>[3] = prop
BY DEF Entries, Empty

\* ecma_lcache_row_index stays inside the cache.
LEMMA RowType ==
  ASSUME NEW o \in Objects, NEW n \in Names
  PROVE  Row(o, n) \in RowIndexes
<1> DEFINE N == RowBits
           Bit(a, k) == (a \div PowerOfTwo[RowShift + k]) % 2
           V(k) == PowerOfTwo[k - 1] * ((Bit(o, k - 1) + Bit(n, k - 1)) % 2)
           w == [k \in 1..N |-> V(k)]
           E(f) == f = [k \in 0..N |-> IF k = 0 THEN 0 ELSE f[k - 1] + V(k)]
           h == [k \in 1..N |-> [x \in Nat |-> x + w[k]]]
<1>1. Row(o, n) = (CHOOSE f : E(f))[N]
  BY DEF Row
<1>2. o \in Nat /\ n \in Nat /\ N \in Nat /\ RowShift \in Nat
  BY PropertyAssumption
<1>3. ASSUME NEW a \in Nat, NEW k \in Nat PROVE Bit(a, k) \in 0..1
  <2> DEFINE P == PowerOfTwo[RowShift + k]
  <2>1. RowShift + k \in Nat
    BY <1>2
  <2>2. P \in Nat /\ P >= 1
    BY <2>1, PowerFacts, PowerGrows
  <2>. HIDE DEF P
  <2>3. a \div P \in Int
    BY <2>2
  <2>4. (a \div P) % 2 \in 0..1
    BY <2>3
  <2>. QED
    BY <2>4 DEF P
<1>4. ASSUME NEW k \in 1..N PROVE PowerOfTwo[k - 1] \in Nat /\ V(k) \in 0..PowerOfTwo[k - 1]
  <2> DEFINE d == (Bit(o, k - 1) + Bit(n, k - 1)) % 2
             P == PowerOfTwo[k - 1]
  <2>1. k - 1 \in Nat
    BY <1>2
  <2>2. Bit(o, k - 1) \in 0..1 /\ Bit(n, k - 1) \in 0..1
    BY <1>2, <1>3, <2>1
  <2>3. P \in Nat
    BY <2>1, PowerFacts
  <2>. HIDE DEF Bit, P
  <2>4. d = 0 \/ d = 1
    BY <2>2
  <2>. HIDE DEF d
  <2>5. P * d \in 0..P
    BY <2>3, <2>4
  <2>. QED
    BY <2>3, <2>5 DEF d, P
<1>. HIDE DEF V
<1>5. w \in [1..N -> Nat] /\ \A k \in 1..N : w[k] = V(k)
  BY <1>4
<1>6. h \in [1..N -> [Nat -> Nat]] /\ 0 \in Nat
  BY <1>5
<1>7. PICK g \in [0..N -> Nat] : Repeats(g, 0, h, N)
  <2>. HIDE DEF h, N, w
  <2>. QED
    BY <1>2, <1>6, RecursionExists
<1>8. g[0] = 0 /\ \A k \in 1..N : g[k] = g[k - 1] + V(k)
  <2>1. \A k \in 1..N : g[k - 1] \in Nat
    BY <1>2
  <2>. QED
    BY <1>5, <1>7, <2>1 DEF Repeats
<1>. HIDE DEF h, w, N
<1>9. E(g)
  <2>1. g = [k \in 0..N |-> g[k]]
    OBVIOUS
  <2>2. \A k \in 0..N : k = 0 \/ k \in 1..N
    BY <1>2
  <2>. QED
    BY <1>2, <1>8, <2>1, <2>2
<1> DEFINE c == CHOOSE f : E(f)
<1>10. E(c)
  BY <1>9
<1>. HIDE DEF c
<1>11. c[0] = 0 /\ \A k \in 1..N : c[k] = c[k - 1] + V(k)
  <2>1. 0 \in 0..N /\ \A k \in 1..N : k \in 0..N /\ k # 0
    BY <1>2
  <2>. QED
    BY <1>10, <2>1
<1>12. \A k \in 0..N : c[k] \in 0..(PowerOfTwo[k] - 1)
  <2> DEFINE T == {k \in 0..N : c[k] \notin 0..(PowerOfTwo[k] - 1)}
  <2>. SUFFICES ASSUME T # {} PROVE FALSE
    OBVIOUS
  <2>1. T \in SUBSET Nat
    BY <1>2
  <2>2. PICK k \in T : \A j \in T : k <= j
    BY <2>1, LeastNumber
  <2>3. k \in 0..N /\ c[k] \notin 0..(PowerOfTwo[k] - 1)
    BY <2>2
  <2>4. k # 0
    <3>1. PowerOfTwo[0] - 1 = 0
      BY PowerFacts
    <3>2. c[0] \in 0..(PowerOfTwo[0] - 1)
      BY <1>11, <3>1
    <3>. HIDE DEF T
    <3>. QED
      BY <2>3, <3>2
  <2>5. k \in 1..N /\ k - 1 \in 0..N /\ k - 1 \in Nat /\ k - 1 \notin T
    <3>. HIDE DEF T
    <3>. QED
      BY <1>2, <2>2, <2>3, <2>4
  <2> DEFINE P == PowerOfTwo[k - 1]
  <2>6. c[k - 1] \in 0..(P - 1)
    BY <2>5
  <2>7. P \in Nat /\ V(k) \in 0..P /\ c[k] = c[k - 1] + V(k)
    BY <1>4, <1>11, <2>5
  <2>8. PowerOfTwo[k] = 2 * P
    <3>1. PowerOfTwo[(k - 1) + 1] = 2 * P
      BY <2>5, PowerFacts
    <3>2. (k - 1) + 1 = k
      BY <2>5
    <3>. QED
      BY <3>1, <3>2
  <2>. HIDE DEF P, T
  <2>9. c[k - 1] + V(k) \in 0..(2 * P - 1)
    BY <2>6, <2>7
  <2>. QED
    BY <2>3, <2>7, <2>8, <2>9
<1>13. N \in 0..N
  BY <1>2
<1>14. c[N] \in 0..(PowerOfTwo[N] - 1)
  BY <1>12, <1>13
<1>. QED
  BY <1>1, <1>14 DEF c, N, RowIndexes, Rows

\* A new entry comes in at row R, column I, the entries for the properties S
\* go, and the others come from the column that f says.
Moves(C, C1, R, I, x, S, f) ==
  /\ C1[R][I] = x
  /\ \A r \in RowIndexes, i \in Columns : C1[r][i] # Empty /\ ~ (r = R /\ i = I) =>
       f[r][i] \in Columns /\ C1[r][i] = C[r][f[r][i]] /\ C1[r][i][3] \notin S
  /\ \A r \in RowIndexes, i, j \in Columns : f[r][i] = f[r][j] => i = j
  /\ \A r \in RowIndexes, j \in Columns : C[r][j] # Empty /\ C[r][j][3] \notin S =>
       \E i \in Columns : ~ (r = R /\ i = I) /\ C1[r][i] = C[r][j]

\* The cache stays exact when its entries move and one comes in.
LEMMA CacheMoves ==
  ASSUME NEW C, NEW cd, NEW l, NEW nm, CacheOK(C, cd, l, nm), NEW C1, CacheType(C1),
         NEW o \in Objects, NEW n \in Names, NEW prop \in Live(l[o], nm), NameOf(nm, prop) = n, prop \notin cd,
         NEW I \in Columns, NEW S, NEW f, Moves(C, C1, Row(o, n), I, <<o, n, prop>>, S, f)
  PROVE  CacheOK(C1, (cd \ S) \cup {prop}, l, nm)
<1> DEFINE R == Row(o, n)
           x == <<o, n, prop>>
           cd1 == (cd \ S) \cup {prop}
<1>1. prop \in Props
  BY DEF Live
<1>2. R \in RowIndexes /\ x \in Entries /\ x # Empty /\ x[1] = o /\ x[2] = n /\ x[3] = prop
  BY <1>1, RowType, EntryType
<1>3. cd \subseteq Props /\ CacheFiled(C, cd, l, nm) /\ CacheOnce(C) /\ CacheAll(C, cd)
  BY DEF CacheOK
<1>4. EntryOK(x, R, cd1, l, nm)
  BY <1>2 DEF EntryOK
<1>5. C1[R][I] = x
  BY DEF Moves
<1>. HIDE DEF R, x
<1>6. \A r \in RowIndexes, i \in Columns : C1[r][i] # Empty /\ ~ (r = R /\ i = I) =>
        f[r][i] \in Columns /\ C1[r][i] = C[r][f[r][i]] /\ C1[r][i][3] \notin S
  BY DEF Moves, R, x
<1>7. \A r \in RowIndexes, i, j \in Columns : f[r][i] = f[r][j] => i = j
  BY DEF Moves
<1>8. \A r \in RowIndexes, j \in Columns : C[r][j] # Empty /\ C[r][j][3] \notin S =>
        \E i \in Columns : ~ (r = R /\ i = I) /\ C1[r][i] = C[r][j]
  BY DEF Moves, R, x
<1>9. \A r \in RowIndexes, i \in Columns : C1[r][i] # Empty /\ ~ (r = R /\ i = I) =>
        EntryOK(C1[r][i], r, cd, l, nm) /\ C1[r][i][3] \in cd
  BY <1>3, <1>6 DEF CacheFiled, EntryOK
<1>10. CacheFiled(C1, cd1, l, nm)
  <2>. SUFFICES ASSUME NEW r \in RowIndexes, NEW i \in Columns, C1[r][i] # Empty
                PROVE  EntryOK(C1[r][i], r, cd1, l, nm)
    BY DEF CacheFiled
  <2>1. CASE r = R /\ i = I
    BY <1>4, <1>5, <2>1
  <2>2. CASE ~ (r = R /\ i = I)
    BY <1>6, <1>9, <2>2 DEF EntryOK
  <2>. QED
    BY <2>1, <2>2
<1>11. CacheOnce(C1)
  <2>. SUFFICES ASSUME NEW r1 \in RowIndexes, NEW r2 \in RowIndexes, NEW i1 \in Columns, NEW i2 \in Columns,
                       C1[r1][i1] # Empty, C1[r2][i2] # Empty, C1[r1][i1][3] = C1[r2][i2][3]
                PROVE  r1 = r2 /\ i1 = i2
    BY DEF CacheOnce
  <2>1. CASE (r1 = R /\ i1 = I) \/ (r2 = R /\ i2 = I)
    BY <1>2, <1>5, <1>9, <2>1
  <2>2. CASE ~ (r1 = R /\ i1 = I) /\ ~ (r2 = R /\ i2 = I)
    <3> DEFINE j1 == f[r1][i1]
               j2 == f[r2][i2]
    <3>1. /\ j1 \in Columns /\ C1[r1][i1] = C[r1][j1]
          /\ j2 \in Columns /\ C1[r2][i2] = C[r2][j2]
      BY <1>6, <2>2
    <3>2. r1 = r2 /\ j1 = j2
      <4>. HIDE DEF j1, j2
      <4>. QED
        BY <1>3, <3>1 DEF CacheOnce
    <3>. QED
      BY <1>7, <3>2
  <2>. QED
    BY <2>1, <2>2
<1>12. CacheAll(C1, cd1)
  <2>. SUFFICES ASSUME NEW p \in cd1 PROVE \E r \in RowIndexes, i \in Columns : C1[r][i] # Empty /\ C1[r][i][3] = p
    BY DEF CacheAll
  <2>1. CASE p = prop
    BY <1>2, <1>5, <2>1
  <2>2. CASE p \in cd \ S
    <3>1. PICK r \in RowIndexes, j \in Columns : C[r][j] # Empty /\ C[r][j][3] = p
      BY <1>3, <2>2 DEF CacheAll
    <3>2. PICK i \in Columns : C1[r][i] = C[r][j]
      BY <1>8, <2>2, <3>1
    <3>. QED
      BY <3>1, <3>2
  <2>. QED
    BY <2>1, <2>2
<1>13. cd1 \subseteq Props
  BY <1>1, <1>3
<1>. QED
  BY <1>10, <1>11, <1>12, <1>13 DEF CacheOK

\* ecma_lcache_insert keeps the cache exact, with a free entry and without.
LEMMA LcacheInsertOK ==
  ASSUME CacheOK(lcache, lcached, list, name), NEW o \in Objects, NEW n \in Names,
         NEW prop \in Live(list[o], name), NameOf(name, prop) = n, prop \notin lcached,
         LcacheInsert(o, n, prop)
  PROVE  CacheOK(lcache', lcached', list, name)
<1> DEFINE R == Row(o, n)
           row == lcache[R]
           free == {i \in 1..RowLength : row[i] = Empty}
           x == <<o, n, prop>>
<1>1. prop \in Props
  BY DEF Live
<1>2. R \in RowIndexes /\ x \in Entries
  BY <1>1, RowType, EntryType
<1>3. lcache \in [RowIndexes -> [Columns -> {Empty} \cup Entries]]
  BY DEF CacheOK, CacheType
<1>. HIDE DEF R, x
<1>4. row \in [Columns -> {Empty} \cup Entries] /\ 1..RowLength = Columns
  BY <1>2, <1>3 DEF Columns
<1>5. CASE free # {}
  <2> DEFINE I == CHOOSE i \in free : \A j \in free : i <= j
             f == [r \in RowIndexes |-> [i \in Columns |-> i]]
             C1 == [lcache EXCEPT ![R][I] = x]
  <2>1. \E i \in free : \A j \in free : i <= j
    <3>1. free \in SUBSET Nat
      OBVIOUS
    <3>. QED
      BY <1>5, <3>1, LeastNumber
  <2>2. I \in Columns /\ row[I] = Empty
    BY <1>4, <2>1
  <2>3. lcache' = C1 /\ lcached' = lcached \cup {prop}
    BY <1>5 DEF LcacheInsert, R, x
  <2>. HIDE DEF I
  <2>4. CacheType(C1)
    BY <1>2, <1>3, <2>2 DEF CacheType
  <2>5. C1[R][I] = x /\ \A r \in RowIndexes, i \in Columns : ~ (r = R /\ i = I) => C1[r][i] = lcache[r][i]
    BY <1>2, <1>3, <2>2
  <2>. HIDE DEF C1
  <2>6. \A r \in RowIndexes, i \in Columns : f[r][i] = i
    OBVIOUS
  <2>. HIDE DEF f
  <2>7. Moves(lcache, C1, R, I, x, {}, f)
    BY <2>2, <2>5, <2>6 DEF Moves
  <2>8. CacheOK(C1, (lcached \ {}) \cup {prop}, list, name)
    BY <2>2, <2>4, <2>7, CacheMoves DEF R, x
  <2>9. (lcached \ {}) \cup {prop} = lcached \cup {prop}
    OBVIOUS
  <2>. QED
    BY <2>3, <2>8, <2>9
<1>6. CASE free = {}
  <2> DEFINE row1 == [i \in 1..RowLength |-> IF i = 1 THEN x ELSE row[i - 1]]
             C1 == [lcache EXCEPT ![R] = row1]
             f == [r \in RowIndexes |-> [i \in Columns |-> IF r = R THEN i - 1 ELSE i]]
             S == {row[RowLength][3]}
  <2>1. lcache' = C1 /\ lcached' = (lcached \ S) \cup {prop}
    BY <1>6 DEF LcacheInsert, R, x
  <2>2. \A i \in Columns : row[i] # Empty
    BY <1>4, <1>6
  <2>3. \A i \in Columns : i = 1 \/ (i - 1 \in Columns /\ i - 1 # RowLength)
    BY CacheSizes DEF Columns
  <2>4. \A i \in Columns : i = RowLength \/ (i + 1 \in Columns /\ i + 1 # 1 /\ (i + 1) - 1 = i)
    BY CacheSizes DEF Columns
  <2>5. \A i \in Columns : i \in Int
    BY DEF Columns
  <2>6. row1 \in [Columns -> {Empty} \cup Entries] /\ row1[1] = x /\ \A i \in Columns : i # 1 => row1[i] = row[i - 1]
    <3>. HIDE DEF row
    <3>. QED
      BY <1>2, <1>4, <2>3, CacheSizes
  <2>. HIDE DEF row1
  <2>7. CacheType(C1) /\ C1[R] = row1 /\ \A r \in RowIndexes : r # R => C1[r] = lcache[r]
    BY <1>2, <1>3, <2>6 DEF CacheType
  <2>. HIDE DEF C1
  <2>8. \A r \in RowIndexes, i \in Columns : f[r][i] = IF r = R THEN i - 1 ELSE i
    OBVIOUS
  <2>. HIDE DEF f
  <2>9. \A r1, r2 \in RowIndexes, i1, i2 \in Columns :
          lcache[r1][i1] # Empty /\ lcache[r2][i2] # Empty /\ lcache[r1][i1][3] = lcache[r2][i2][3]
             => r1 = r2 /\ i1 = i2
    BY DEF CacheOK, CacheOnce
  <2>10. \A r \in RowIndexes, i \in Columns :
           lcache[r][i] # Empty /\ lcache[r][i][3] \in S => r = R /\ i = RowLength
    BY <1>2, <2>2, <2>9, CacheSizes
  <2>. HIDE DEF S
  <2>11. C1[R][1] = x
    BY <2>6, <2>7
  <2>12. ASSUME NEW r \in RowIndexes, NEW i \in Columns, C1[r][i] # Empty, ~ (r = R /\ i = 1)
         PROVE  f[r][i] \in Columns /\ C1[r][i] = lcache[r][f[r][i]] /\ C1[r][i][3] \notin S
    <3>1. CASE r = R
      <4>1. f[r][i] = i - 1 /\ i - 1 \in Columns /\ i - 1 # RowLength /\ C1[r][i] = lcache[R][i - 1]
        BY <2>3, <2>6, <2>7, <2>8, <2>12, <3>1
      <4>. QED
        BY <1>2, <2>10, <2>12, <3>1, <4>1
    <3>2. CASE r # R
      BY <2>7, <2>8, <2>10, <2>12, <3>2
    <3>. QED
      BY <3>1, <3>2
  <2>13. \A r \in RowIndexes, i, j \in Columns : f[r][i] = f[r][j] => i = j
    BY <2>5, <2>8
  <2>14. ASSUME NEW r \in RowIndexes, NEW j \in Columns, lcache[r][j] # Empty, lcache[r][j][3] \notin S
         PROVE  \E i \in Columns : ~ (r = R /\ i = 1) /\ C1[r][i] = lcache[r][j]
    <3>1. CASE r = R
      <4>1. j # RowLength
        BY <2>14, <3>1 DEF S
      <4>2. j + 1 \in Columns /\ j + 1 # 1 /\ (j + 1) - 1 = j
        BY <2>4, <4>1
      <4>3. C1[R][j + 1] = row[j]
        BY <2>6, <2>7, <4>2
      <4>. QED
        BY <3>1, <4>2, <4>3
    <3>2. CASE r # R
      BY <2>7, <3>2
    <3>. QED
      BY <3>1, <3>2
  <2>15. Moves(lcache, C1, R, 1, x, S, f)
    BY <2>11, <2>12, <2>13, <2>14 DEF Moves
  <2>16. CacheOK(C1, (lcached \ S) \cup {prop}, list, name)
    BY <2>7, <2>15, CacheSizes, CacheMoves DEF R, x
  <2>. QED
    BY <2>1, <2>16
<1>. QED
  BY <1>5, <1>6

\* The entries that ecma_lcache_invalidate clears are those that point to the
\* properties S of o.
LEMMA LcacheEntries ==
  ASSUME CacheOK(lcache, lcached, list, name), NEW o \in Objects, NEW S,
         \A x \in Objects \ {o} : Live(list[x], name) \cap S = {},
         NEW r \in RowIndexes, NEW i \in Columns
  PROVE  <<r, i>> \in UNION {LcacheEntry(o, prop) : prop \in S \cap lcached}
           <=> lcache[r][i] # Empty /\ lcache[r][i][3] \in S \cap lcached
<1>1. /\ lcache \in [RowIndexes -> [Columns -> {Empty} \cup Entries]]
      /\ CacheFiled(lcache, lcached, list, name) /\ CacheOnce(lcache)
  BY DEF CacheOK, CacheType
<1>0. \A j \in Columns : j <= j
  BY CacheSizes DEF Columns
<1> DEFINE Row0(p) == Row(o, name[p[1]][p[2]])
           Hits(p) == {j \in 1..RowLength : lcache[Row0(p)][j] # Empty /\ lcache[Row0(p)][j][3] = p}
<1>2. \A p : LcacheEntry(o, p) = {<<Row0(p), j>> : j \in {j \in Hits(p) : \A k \in Hits(p) : j <= k}}
  BY DEF LcacheEntry
<1>3. ASSUME NEW p \in S \cap lcached, <<r, i>> \in LcacheEntry(o, p)
      PROVE  lcache[r][i] # Empty /\ lcache[r][i][3] \in S \cap lcached
  <2>1. r = Row0(p) /\ i \in Hits(p)
    BY <1>2, <1>3
  <2>. QED
    BY <2>1
<1>4. ASSUME lcache[r][i] # Empty, lcache[r][i][3] \in S \cap lcached
      PROVE  <<r, i>> \in LcacheEntry(o, lcache[r][i][3])
  <2> DEFINE x == lcache[r][i]
             p == x[3]
  <2>1. EntryOK(x, r, lcached, list, name) /\ x \in Entries
    BY <1>1, <1>4 DEF CacheFiled
  <2>2. x[1] \in Objects /\ p \in S /\ p \in Live(list[x[1]], name)
    BY <1>4, <2>1, EntryType DEF EntryOK
  <2>3. x[1] = o
    BY <2>2
  <2>4. r = Row0(p)
    BY <2>1, <2>3 DEF EntryOK, NameOf
  <2>5. i \in Hits(p)
    BY <1>4, <2>4 DEF Columns
  <2>6. ASSUME NEW k \in Hits(p) PROVE i <= k
    <3>1. k \in Columns /\ lcache[r][k] # Empty /\ lcache[r][k][3] = p
      BY <2>4, <2>6 DEF Columns
    <3>2. k = i
      BY <1>1, <1>4, <3>1 DEF CacheOnce
    <3>. HIDE DEF Hits, Row0, p
    <3>. QED
      BY <1>0, <3>2
  <2>. HIDE DEF Hits, Row0, p
  <2>. QED
    BY <1>2, <2>4, <2>5, <2>6 DEF p
<1>. HIDE DEF Row0, Hits
<1>. QED
  BY <1>3, <1>4

\* The properties S of the object o leave the cache; the lists may change but
\* for what is left of the properties.
LEMMA LcacheInvalidateOK ==
  ASSUME CacheOK(lcache, lcached, list, name), NEW o \in Objects, NEW S, LcacheInvalidate(o, S),
         \A x \in Objects \ {o} : Live(list[x], name) \cap S = {}, NEW l1, NEW nm1,
         \A x \in Objects : \A p \in Live(list[x], name) :
           p \notin S /\ p \in lcached => p \in Live(l1[x], nm1) /\ NameOf(nm1, p) = NameOf(name, p)
  PROVE  CacheOK(lcache', lcached', l1, nm1)
<1>1. /\ lcache \in [RowIndexes -> [Columns -> {Empty} \cup Entries]] /\ lcached \subseteq Props
      /\ CacheFiled(lcache, lcached, list, name) /\ CacheOnce(lcache) /\ CacheAll(lcache, lcached)
  BY DEF CacheOK, CacheType
<1>2. DOMAIN lcache = RowIndexes /\ 1..RowLength = Columns
  BY <1>1 DEF Columns
<1> DEFINE gone == UNION {LcacheEntry(o, prop) : prop \in S \cap lcached}
           C1 == [r \in RowIndexes |-> [i \in Columns |->
                     IF <<r, i>> \in gone THEN Empty ELSE lcache[r][i]]]
<1>3. lcache' = C1 /\ lcached' = lcached \ S
  BY <1>2 DEF LcacheInvalidate
<1>a. \A r \in RowIndexes, i \in Columns :
        <<r, i>> \in gone <=> lcache[r][i] # Empty /\ lcache[r][i][3] \in S \cap lcached
  BY LcacheEntries
<1>. HIDE DEF gone
<1>4. CacheType(C1)
  BY <1>1 DEF CacheType
<1>5. \A r \in RowIndexes, i \in Columns :
        C1[r][i] = IF lcache[r][i] # Empty /\ lcache[r][i][3] \in S \cap lcached THEN Empty ELSE lcache[r][i]
  BY <1>a
<1>. HIDE DEF C1
<1>6. ASSUME NEW r \in RowIndexes, NEW i \in Columns, C1[r][i] # Empty
      PROVE  C1[r][i] = lcache[r][i] /\ EntryOK(C1[r][i], r, lcached \ S, l1, nm1)
  <2>1. C1[r][i] = lcache[r][i] /\ lcache[r][i][3] \notin S \cap lcached
    BY <1>5, <1>6
  <2>2. EntryOK(lcache[r][i], r, lcached, list, name)
    BY <1>1, <1>6, <2>1 DEF CacheFiled
  <2>3. lcache[r][i] \in Entries
    BY <1>1, <1>6, <2>1
  <2> DEFINE x == lcache[r][i]
  <2>4. x[1] \in Objects /\ x[3] \in lcached /\ x[3] \notin S /\ x[3] \in Live(list[x[1]], name)
        /\ NameOf(name, x[3]) = x[2] /\ r = Row(x[1], x[2])
    BY <2>1, <2>2, <2>3, EntryType DEF EntryOK
  <2>. HIDE DEF x
  <2>5. x[3] \in Live(l1[x[1]], nm1) /\ NameOf(nm1, x[3]) = x[2]
    BY <2>4
  <2>6. EntryOK(x, r, lcached \ S, l1, nm1)
    BY <2>4, <2>5 DEF EntryOK
  <2>. QED
    BY <2>1, <2>6 DEF x
<1>7. CacheOnce(C1)
  BY <1>1, <1>6 DEF CacheOnce
<1>8. CacheAll(C1, lcached \ S)
  BY <1>1, <1>5 DEF CacheAll
<1>9. CacheFiled(C1, lcached \ S, l1, nm1)
  BY <1>6 DEF CacheFiled
<1>. QED
  BY <1>1, <1>3, <1>4, <1>7, <1>8, <1>9 DEF CacheOK

\* The cache stays exact while its properties stay.
LEMMA CacheKept ==
  ASSUME NEW C, NEW cd, NEW l, NEW nm, CacheOK(C, cd, l, nm), NEW l1, NEW nm1,
         \A o \in Objects : \A p \in Live(l[o], nm) : p \in Live(l1[o], nm1) /\ NameOf(nm1, p) = NameOf(nm, p)
  PROVE  CacheOK(C, cd, l1, nm1)
<1>1. CacheType(C) /\ CacheFiled(C, cd, l, nm)
  BY DEF CacheOK
<1>2. ASSUME NEW r \in RowIndexes, NEW i \in Columns, C[r][i] # Empty PROVE EntryOK(C[r][i], r, cd, l1, nm1)
  <2> DEFINE x == C[r][i]
  <2>1. EntryOK(x, r, cd, l, nm) /\ x[1] \in Objects
    BY <1>1, <1>2, EntryType DEF CacheFiled, CacheType
  <2>. HIDE DEF x
  <2>2. EntryOK(x, r, cd, l1, nm1)
    BY <2>1 DEF EntryOK
  <2>. QED
    BY <2>2 DEF x
<1>3. CacheFiled(C, cd, l1, nm1)
  BY <1>2 DEF CacheFiled
<1>. QED
  BY <1>3 DEF CacheOK

-----------------------------------------------------------------------------
(* The invariant                                                           *)

\* A pair is in one list once.
PairsOnce(l) ==
  /\ l \in [Objects -> Seq(Pairs)]
  /\ \A o \in Objects : Once(l[o])
  /\ \A o1, o2 \in Objects : o1 # o2 => Elements(l[o1]) \cap Elements(l[o2]) = {}
NamesOnce(l, nm) == nm \in NamesType /\ \A o \in Objects : Unique(l[o], nm)

PropInv ==
  /\ PairsOnce(list) /\ NamesOnce(list, name)
  /\ CacheOK(lcache, lcached, list, name)
  /\ MapsBut({}, maps, list, name)
  /\ heap \in HeapType

\* The invariant holds at the start.
LEMMA PropInit == Init => PropInv
<1>. SUFFICES ASSUME Init PROVE PropInv
  OBVIOUS
<1>1. PairsOnce(list)
  BY DEF Init, PairsOnce, Elements, Once
<1>2. \A o \in Objects : Live(list[o], name) = {}
  BY DEF Init, Live, Elements
<1>3. NamesOnce(list, name)
  <2>1. name \in NamesType
    BY DEF Init, NamesType
  <2>. QED
    BY <1>2, <2>1 DEF NamesOnce, Unique
<1>4. CacheOK(lcache, lcached, list, name)
  <2>1. lcached = {} /\ lcache = [r \in RowIndexes |-> [i \in Columns |-> Empty]]
    BY DEF Init, RowIndexes, Columns
  <2>. QED
    BY <2>1 DEF CacheOK, CacheType, CacheFiled, CacheOnce, CacheAll
<1>5. MapsBut({}, maps, list, name)
  BY DEF Init, MapsBut, MapFor
<1>6. heap \in HeapType
  BY PropertyAssumption DEF Init, HeapType
<1>. QED
  BY <1>1, <1>3, <1>4, <1>5, <1>6 DEF PropInv

\* More objects are left out.
LEMMA MapsButMore ==
  ASSUME NEW M, NEW l, NEW nm, MapsBut({}, M, l, nm), NEW S
  PROVE  MapsBut(S, M, l, nm)
BY DEF MapsBut

\* A property prop with the new name n is added to the object o.
Adds(l, nm, o, prop, l1, nm1) ==
  /\ prop \in Props /\ prop \notin Live(l[o], nm)
  /\ Live(l1[o], nm1) = Live(l[o], nm) \cup {prop}
  /\ \A x \in Objects \ {o} : Live(l1[x], nm1) = Live(l[x], nm)
  /\ \A x \in Objects : \A p \in Live(l[x], nm) : NameOf(nm1, p) = NameOf(nm, p)

\* What a new property leaves right.
LEMMA AddsOK ==
  ASSUME NEW l, NEW nm, NEW l1, NEW nm1 \in NamesType, NEW o \in Objects, NEW prop, Adds(l, nm, o, prop, l1, nm1),
         NamesOnce(l, nm), \A p \in Live(l[o], nm) : NameOf(nm, p) # NameOf(nm1, prop),
         NEW C, NEW cd, CacheOK(C, cd, l, nm)
  PROVE  /\ NamesOnce(l1, nm1) /\ CacheOK(C, cd, l1, nm1)
         /\ \A M : MapsBut({}, M, l, nm) => MapsBut({o}, M, l1, nm1)
<1>1. \A x \in Objects : \A p, q \in Live(l[x], nm) : NameOf(nm, p) = NameOf(nm, q) => p = q
  BY DEF NamesOnce, Unique
<1>2. ASSUME NEW x \in Objects PROVE Unique(l1[x], nm1)
  <2>1. CASE x = o
    <3>1. \A p \in Live(l1[o], nm1) : p = prop \/ (p \in Live(l[o], nm) /\ NameOf(nm1, p) = NameOf(nm, p))
      BY DEF Adds
    <3>. QED
      BY <1>1, <2>1, <3>1 DEF Unique
  <2>2. CASE x # o
    <3>1. Live(l1[x], nm1) = Live(l[x], nm) /\ \A p \in Live(l[x], nm) : NameOf(nm1, p) = NameOf(nm, p)
      BY <2>2 DEF Adds
    <3>. QED
      BY <1>1, <3>1 DEF Unique
  <2>. QED
    BY <2>1, <2>2
<1>3. NamesOnce(l1, nm1)
  BY <1>2 DEF NamesOnce
<1>4. \A x \in Objects : \A p \in Live(l[x], nm) : p \in Live(l1[x], nm1) /\ NameOf(nm1, p) = NameOf(nm, p)
  <2>1. \A x \in Objects : x = o \/ x \in Objects \ {o}
    OBVIOUS
  <2>. QED
    BY <2>1 DEF Adds
<1>5. CacheOK(C, cd, l1, nm1)
  BY <1>4, CacheKept
<1>6. ASSUME NEW M, MapsBut({}, M, l, nm) PROVE MapsBut({o}, M, l1, nm1)
  <2>1. /\ \A x \in Objects \ {o} : Live(l1[x], nm1) = Live(l[x], nm)
        /\ \A x \in Objects \ {o} : \A p \in Live(l[x], nm) : NameOf(nm1, p) = NameOf(nm, p)
    BY DEF Adds
  <2>. QED
    BY <1>6, <2>1, MapForLists
<1>. QED
  BY <1>3, <1>5, <1>6

\* The hashmaps after a property was added.
LEMMA AddsMaps ==
  ASSUME ~ Weak, NEW l, NEW nm, NEW l1, PairsOnce(l1), NEW nm1 \in NamesType, NEW o \in Objects, NEW prop,
         Adds(l, nm, o, prop, l1, nm1), NEW n \in Names, n = NameOf(nm1, prop),
         NEW M, MapsBut({}, M, l, nm), MapsBut({o}, M, l1, nm1), NEW h \in HeapType
  PROVE  /\ M[o] = <<>> => MapsBut({}, M, l1, nm1)
         /\ M[o] # <<>> => \A r \in HashmapInsert(o, l1[o], nm1, M, h, n, prop) :
                             MapsBut({}, r.maps, l1, nm1) /\ r.heap \in HeapType
<1>1. ASSUME M[o] = <<>> PROVE MapsBut({}, M, l1, nm1)
  <2>1. MapFor(M[o], Live(l1[o], nm1), nm1)
    BY <1>1 DEF MapFor
  <2>. QED
    BY <2>1, MapsButFull
<1>2. ASSUME M[o] # <<>>, NEW r \in HashmapInsert(o, l1[o], nm1, M, h, n, prop)
      PROVE  MapsBut({}, r.maps, l1, nm1) /\ r.heap \in HeapType
  <2> DEFINE L == Live(l[o], nm)
  <2>1. MapFor(M[o], L, nm)
    BY DEF MapsBut
  <2>2. prop \in Props /\ prop \notin L /\ Live(l1[o], nm1) = L \cup {prop}
        /\ \A p \in L : NameOf(nm1, p) = NameOf(nm, p)
    BY DEF Adds
  <2>. HIDE DEF L
  <2>3. PICK map : M[o] = <<map>> /\ MapOK(map, L, nm)
    BY <1>2, <2>1 DEF MapFor
  <2>4. MapOK(map, L, nm1)
    BY <2>2, <2>3, MapNames
  <2>5. l1[o] \in Seq(Pairs) /\ Once(l1[o])
    BY DEF PairsOnce
  <2>. QED
    BY <1>2, <2>2, <2>3, <2>4, <2>5, HashmapInsertOK
<1>. QED
  BY <1>1, <1>2

\* Where no property has the name.
LEMMA NotFound ==
  ASSUME PropInv, NEW o \in Objects, NEW n \in Names, CanCreate(o, n)
  PROVE  \A p \in Live(list[o], name) : NameOf(name, p) # n
<1>1. list[o] \in Seq(Pairs) /\ name \in NamesType /\ Walk(list[o], name, n) = None
  BY DEF PropInv, PairsOnce, NamesOnce, CanCreate, ListFind
<1>. QED
  BY <1>1, WalkFacts

\* The live properties of a list.
LEMMA LiveIs ==
  ASSUME NEW l, NEW nm, NEW p
  PROVE  p \in Live(l, nm) <=> p \in Props /\ p[1] \in Elements(l) /\ NameOf(nm, p) # Deleted
BY DEF Live, NameOf

\* ecma_create_property in the free slot of the first pair.
LEMMA CreateInFirstOK ==
  ASSUME ~ Weak, PropInv, NEW o \in Objects, NEW n \in Names, CreateInFirst(o, n)
  PROVE  PropInv'
<1> DEFINE p == Head(list[o])
           prop == <<p, 0>>
<1>1. PairsOnce(list) /\ NamesOnce(list, name) /\ CacheOK(lcache, lcached, list, name)
      /\ MapsBut({}, maps, list, name) /\ heap \in HeapType
  BY DEF PropInv
<1>2. list[o] \in Seq(Pairs) /\ name \in NamesType
  BY <1>1 DEF PairsOnce, NamesOnce
<1>3. p \in Elements(list[o]) /\ p \in Pairs
  <2>1. Range(list[o]) = Elements(list[o]) /\ Elements(list[o]) \subseteq Pairs /\ p = list[o][1] /\ 1 \in 1..Len(list[o])
    BY <1>2, ElementsRange DEF CreateInFirst
  <2>. QED
    BY <2>1 DEF Elements
<1>4. name' = [name EXCEPT ![p][0] = n] /\ name[p][0] = Deleted /\ list' = list
  BY DEF CreateInFirst
<1>5. prop \in Props /\ prop[1] = p /\ prop[2] = 0
  BY <1>3 DEF Props, Slots
<1>6. IF maps[o] = <<>> THEN maps' = maps /\ heap' = heap
      ELSE \E r \in HashmapInsert(o, list[o], name', maps, heap, n, prop) : maps' = r.maps /\ heap' = r.heap
  BY DEF CreateInFirst
<1>. HIDE DEF p
<1>7. name' \in NamesType
  BY <1>2, <1>4 DEF NamesType
<1>8. NameOf(name', prop) = n /\ \A q \in Props : q # prop => NameOf(name', q) = NameOf(name, q)
  <2>1. name'[p][0] = n
    BY <1>2, <1>3, <1>4 DEF NamesType, Slots
  <2>2. ASSUME NEW q \in Props, q # prop PROVE NameOf(name', q) = NameOf(name, q)
    <3>1. q = <<q[1], q[2]>> /\ q[1] \in Pairs /\ q[2] \in Slots
      BY DEF Props
    <3>2. ~ (q[1] = p /\ q[2] = 0)
      BY <2>2, <3>1
    <3>. QED
      BY <1>2, <1>4, <3>1, <3>2 DEF NameOf, NamesType
  <2>. QED
    BY <1>5, <2>1, <2>2 DEF NameOf
<1>. HIDE DEF prop
<1>9. NameOf(name, prop) = Deleted /\ n # Deleted
  BY <1>4, <1>5, NamesNat DEF NameOf
<1>10. \A x \in Objects \ {o} : prop[1] \notin Elements(list[x])
  BY <1>1, <1>3, <1>5 DEF PairsOnce
<1>11. Adds(list, name, o, prop, list, name')
  <2>1. prop \notin Live(list[o], name)
    BY <1>9, LiveIs
  <2>2. Live(list[o], name') = Live(list[o], name) \cup {prop}
    BY <1>3, <1>5, <1>8, <1>9, LiveIs
  <2>3. \A x \in Objects \ {o} : Live(list[x], name') = Live(list[x], name)
    BY <1>8, <1>10, LiveIs
  <2>4. \A x \in Objects : \A q \in Live(list[x], name) : NameOf(name', q) = NameOf(name, q)
    BY <1>8, <1>9, LiveIs
  <2>. QED
    BY <1>5, <2>1, <2>2, <2>3, <2>4 DEF Adds
<1>12. \A q \in Live(list[o], name) : NameOf(name, q) # NameOf(name', prop)
  BY <1>8, NotFound DEF CreateInFirst
<1>13. NamesOnce(list, name') /\ CacheOK(lcache, lcached, list, name') /\ MapsBut({o}, maps, list, name')
  <2>1. /\ NamesOnce(list, name') /\ CacheOK(lcache, lcached, list, name')
        /\ \A M : MapsBut({}, M, list, name) => MapsBut({o}, M, list, name')
    BY <1>1, <1>7, <1>11, <1>12, AddsOK
  <2>. QED
    BY <1>1, <2>1
<1>14. /\ maps[o] = <<>> => MapsBut({}, maps, list, name')
       /\ maps[o] # <<>> => \A r \in HashmapInsert(o, list[o], name', maps, heap, n, prop) :
                              MapsBut({}, r.maps, list, name') /\ r.heap \in HeapType
  BY <1>1, <1>7, <1>8, <1>11, <1>13, AddsMaps
<1>15. MapsBut({}, maps', list, name') /\ heap' \in HeapType
  BY <1>1, <1>6, <1>14
<1>. QED
  BY <1>1, <1>4, <1>13, <1>15 DEF PropInv, CreateInFirst

\* A pair in front of a list.
LEMMA InFront ==
  ASSUME NEW A, NEW s \in Seq(A), NEW p \in A
  PROVE  /\ <<p>> \o s \in Seq(A) /\ Elements(<<p>> \o s) = Elements(s) \cup {p}
         /\ Once(s) /\ p \notin Elements(s) => Once(<<p>> \o s)
<1> DEFINE t == <<p>> \o s
           n == Len(s)
<1>1. n \in Nat /\ t \in Seq(A) /\ Len(t) = n + 1 /\ t[1] = p /\ \A i \in 2..(n + 1) : t[i] = s[i - 1]
  OBVIOUS
<1>. HIDE DEF t
<1>2. \A i \in 1..(n + 1) : i = 1 \/ (i \in 2..(n + 1) /\ i - 1 \in 1..n)
  BY <1>1
<1>3. 1 \in 1..(n + 1) /\ \A i \in 1..n : i + 1 \in 2..(n + 1) /\ i + 1 \in 1..(n + 1) /\ (i + 1) - 1 = i
  BY <1>1
<1>4. \A i \in 1..n : t[i + 1] = s[i]
  BY <1>1, <1>3
<1>5. \A i \in 1..(n + 1) : i # 1 => t[i] = s[i - 1] /\ i - 1 \in 1..n
  BY <1>1, <1>2
<1>6. Elements(t) = Elements(s) \cup {p}
  <2>1. \A i \in 1..(n + 1) : t[i] \in Elements(s) \cup {p}
    BY <1>1, <1>5 DEF Elements
  <2>2. p \in Elements(t)
    BY <1>1, <1>3 DEF Elements
  <2>3. \A i \in 1..n : s[i] \in Elements(t)
    BY <1>1, <1>3, <1>4 DEF Elements
  <2>. QED
    BY <1>1, <2>1, <2>2, <2>3 DEF Elements
<1>7. ASSUME Once(s), p \notin Elements(s), NEW i \in 1..(n + 1), NEW j \in 1..(n + 1), t[i] = t[j] PROVE i = j
  <2>1. \A k \in 1..(n + 1) : k # 1 => t[k] # p
    BY <1>5, <1>7 DEF Elements
  <2>2. CASE i = 1 \/ j = 1
    BY <1>1, <1>7, <2>1, <2>2
  <2>3. CASE i # 1 /\ j # 1
    <3>1. i - 1 = j - 1
      BY <1>5, <1>7, <2>3 DEF Once
    <3>. QED
      BY <1>1, <3>1
  <2>. QED
    BY <2>2, <2>3
<1>8. Once(s) /\ p \notin Elements(s) => Once(t)
  BY <1>1, <1>7 DEF Once
<1>. QED
  BY <1>1, <1>6, <1>8 DEF t

\* ecma_create_property in a new pair, whose allocation may free the hashmaps.
LEMMA CreateInNewOK ==
  ASSUME ~ Weak, PropInv, NEW o \in Objects, NEW n \in Names, CreateInNew(o, n)
  PROVE  PropInv'
<1>1. PairsOnce(list) /\ NamesOnce(list, name) /\ CacheOK(lcache, lcached, list, name)
      /\ MapsBut({}, maps, list, name) /\ heap \in HeapType
  BY DEF PropInv
<1>2. list \in [Objects -> Seq(Pairs)] /\ list[o] \in Seq(Pairs) /\ Once(list[o]) /\ name \in NamesType
  BY <1>1 DEF PairsOnce, NamesOnce
<1>3. PICK p \in FreePairs :
        /\ list' = [list EXCEPT ![o] = <<p>> \o @]
        /\ name' = [name EXCEPT ![p] = [i \in Slots |-> IF i = 1 THEN n ELSE Deleted]]
        /\ \E a \in Allocation(maps, heap) :
             IF a.maps[o] = <<>> THEN maps' = a.maps /\ heap' = a.heap
             ELSE \E r \in HashmapInsert(o, list'[o], name', a.maps, a.heap, n, <<p, 1>>) :
                    maps' = r.maps /\ heap' = r.heap
  BY DEF CreateInNew
<1>4. p \in Pairs /\ \A x \in Objects : p \notin Elements(list[x])
  <2>1. \A x \in Objects : Range(list[x]) = Elements(list[x])
    BY <1>2, ElementsRange
  <2>. QED
    BY <1>3, <2>1 DEF FreePairs
<1>5. /\ list' \in [Objects -> Seq(Pairs)] /\ list'[o] = <<p>> \o list[o]
      /\ \A x \in Objects \ {o} : list'[x] = list[x]
  <2>1. <<p>> \o list[o] \in Seq(Pairs)
    BY <1>2, <1>4, InFront
  <2>2. list' = [list EXCEPT ![o] = <<p>> \o list[o]]
    BY <1>3
  <2> DEFINE t == <<p>> \o list[o]
  <2>. HIDE DEF t
  <2>3. list' = [list EXCEPT ![o] = t] /\ t \in Seq(Pairs)
    BY <2>1, <2>2 DEF t
  <2>4. /\ list' \in [Objects -> Seq(Pairs)] /\ list'[o] = t
        /\ \A x \in Objects \ {o} : list'[x] = list[x]
    BY <1>2, <2>3
  <2>. QED
    BY <2>4 DEF t
<1>6. Elements(list'[o]) = Elements(list[o]) \cup {p} /\ Once(list'[o])
  BY <1>2, <1>4, <1>5, InFront
<1> DEFINE prop == <<p, 1>>
<1>7. prop \in Props /\ prop[1] = p /\ prop[2] = 1
  BY <1>4 DEF Props, Slots
<1>8. PICK a \in Allocation(maps, heap) :
        IF a.maps[o] = <<>> THEN maps' = a.maps /\ heap' = a.heap
        ELSE \E r \in HashmapInsert(o, list'[o], name', a.maps, a.heap, n, prop) :
               maps' = r.maps /\ heap' = r.heap
  BY <1>3
<1>9. MapsBut({}, a.maps, list, name) /\ a.heap \in HeapType
  BY <1>1, AllocationOK
<1>10. name' \in NamesType
  BY <1>2, <1>3, <1>4 DEF NamesType
<1>11. /\ NameOf(name', prop) = n /\ NameOf(name', <<p, 0>>) = Deleted
       /\ \A q \in Props : q[1] # p => NameOf(name', q) = NameOf(name, q)
  <2>1. name'[p] = [i \in Slots |-> IF i = 1 THEN n ELSE Deleted] /\ \A x \in Pairs : x # p => name'[x] = name[x]
    BY <1>2, <1>3, <1>4 DEF NamesType
  <2>2. name'[p][1] = n /\ name'[p][0] = Deleted
    BY <2>1 DEF Slots
  <2>3. \A q \in Props : q[1] \in Pairs
    BY DEF Props
  <2>4. <<p, 1>>[1] = p /\ <<p, 1>>[2] = 1 /\ <<p, 0>>[1] = p /\ <<p, 0>>[2] = 0
    OBVIOUS
  <2>. QED
    BY <2>1, <2>2, <2>3, <2>4 DEF NameOf
<1>12. \A q \in Props : q[1] = p => q = prop \/ q = <<p, 0>>
  BY DEF Props, Slots
<1>. HIDE DEF prop
<1>13. n # Deleted
  BY NamesNat
<1>14. Adds(list, name, o, prop, list', name')
  <2>1. \A x \in Objects : \A q \in Live(list[x], name) : q \in Props /\ q[1] # p /\ NameOf(name', q) = NameOf(name, q)
    BY <1>4, <1>11, LiveIs
  <2>2. prop \notin Live(list[o], name)
    BY <1>7, <2>1
  <2>3. Live(list'[o], name') = Live(list[o], name) \cup {prop}
    <3>1. ASSUME NEW q PROVE q \in Live(list'[o], name') <=> q \in Live(list[o], name) \/ q = prop
      <4>1. CASE q \in Props /\ q[1] = p
        BY <1>4, <1>6, <1>7, <1>11, <1>12, <1>13, <4>1, LiveIs
      <4>2. CASE ~ (q \in Props /\ q[1] = p)
        BY <1>6, <1>7, <1>11, <4>2, LiveIs
      <4>. QED
        BY <4>1, <4>2
    <3>. QED
      BY <3>1
  <2>4. ASSUME NEW x \in Objects \ {o} PROVE Live(list'[x], name') = Live(list[x], name)
    <3>1. list'[x] = list[x] /\ p \notin Elements(list[x])
      BY <1>4, <1>5
    <3>. QED
      BY <1>11, <3>1, LiveIs
  <2>. QED
    BY <1>7, <2>1, <2>2, <2>3, <2>4 DEF Adds
<1>15. PairsOnce(list')
  <2>1. \A x \in Objects : Once(list'[x])
    BY <1>1, <1>5, <1>6 DEF PairsOnce
  <2>2. ASSUME NEW x \in Objects, NEW y \in Objects, x # y PROVE Elements(list'[x]) \cap Elements(list'[y]) = {}
    <3>1. Elements(list[x]) \cap Elements(list[y]) = {}
      BY <1>1, <2>2 DEF PairsOnce
    <3>2. \A z \in Objects \ {o} : Elements(list'[z]) = Elements(list[z])
      BY <1>5
    <3>. QED
      BY <1>4, <1>6, <2>2, <3>1, <3>2
  <2>. QED
    BY <1>5, <2>1, <2>2 DEF PairsOnce
<1>16. \A q \in Live(list[o], name) : NameOf(name, q) # NameOf(name', prop)
  BY <1>11, NotFound DEF CreateInNew, prop
<1>17. NamesOnce(list', name') /\ CacheOK(lcache, lcached, list', name')
       /\ MapsBut({o}, a.maps, list', name')
  <2>1. /\ NamesOnce(list', name') /\ CacheOK(lcache, lcached, list', name')
        /\ \A M : MapsBut({}, M, list, name) => MapsBut({o}, M, list', name')
    BY <1>1, <1>10, <1>14, <1>16, AddsOK
  <2>. QED
    BY <1>9, <2>1
<1>18. n = NameOf(name', prop)
  BY <1>11
<1>19. /\ a.maps[o] = <<>> => MapsBut({}, a.maps, list', name')
       /\ a.maps[o] # <<>> => \A r \in HashmapInsert(o, list'[o], name', a.maps, a.heap, n, prop) :
                                MapsBut({}, r.maps, list', name') /\ r.heap \in HeapType
  BY <1>9, <1>10, <1>14, <1>15, <1>17, <1>18, AddsMaps
<1>20. MapsBut({}, maps', list', name') /\ heap' \in HeapType
  BY <1>8, <1>9, <1>19
<1>. QED
  BY <1>15, <1>17, <1>20 DEF PropInv, CreateInNew

\* A hashmap that is not too empty holds a property.
LEMMA NotEmpty ==
  ASSUME NEW m, NEW L, NEW nm, MapOK(m, L, nm), m.unused <= (m.size * 3) \div 4
  PROVE  L # {}
<1>1. IsSize(m.size) /\ m \in MapOf(m.size) /\ Holds(m, L) /\ m.unused = Cardinality(Unused(m))
  BY DEF MapOK, Counts
<1>2. m.size \in Nat /\ m.size >= 2 /\ m.unused \in Int /\ Unused(m) \subseteq 0..(m.size - 1)
  BY <1>1, MapSets, SizeFacts
<1> DEFINE k == m.size
<1>3. (k * 3) \div 4 < k
  <2>1. k \in Nat /\ k >= 2
    BY <1>2
  <2>. HIDE DEF k
  <2>. QED
    BY <2>1
<1>4. Unused(m) # 0..(m.size - 1)
  <2>1. Cardinality(0..(m.size - 1)) = m.size
    BY <1>2, FS_Interval
  <2>2. (m.size * 3) \div 4 \in Int
    BY <1>2
  <2>. QED
    BY <1>1, <1>2, <1>3, <2>1, <2>2
<1>5. PICK e \in Used(m) : TRUE
  BY <1>2, <1>4 DEF Used
<1>. QED
  BY <1>1, <1>5 DEF Holds

\* Properties leave the object o, and what is left keeps its name.
Removes(l, nm, o, gone, l1, nm1) ==
  /\ Live(l1[o], nm1) = Live(l[o], nm) \ gone
  /\ \A x \in Objects \ {o} : Live(l1[x], nm1) = Live(l[x], nm) /\ Live(l[x], nm) \cap gone = {}
  /\ \A x \in Objects : \A p \in Live(l[x], nm) \ gone : NameOf(nm1, p) = NameOf(nm, p)

\* A list whose properties keep their names.
LEMMA LiveSame ==
  ASSUME NEW l, NEW nm, NEW nm1, \A q \in Props : q[1] \in Elements(l) => NameOf(nm1, q) = NameOf(nm, q)
  PROVE  Live(l, nm1) = Live(l, nm)
BY DEF Live, NameOf

\* What the properties that leave keep right.
LEMMA RemovesOK ==
  ASSUME NEW l, NEW nm, NEW l1, NEW nm1 \in NamesType, NEW o \in Objects, NEW gone, Removes(l, nm, o, gone, l1, nm1),
         NamesOnce(l, nm), NEW M, MapsBut({}, M, l, nm)
  PROVE  NamesOnce(l1, nm1) /\ MapsBut({o}, M, l1, nm1)
<1>1. \A x \in Objects : \A p, q \in Live(l[x], nm) : NameOf(nm, p) = NameOf(nm, q) => p = q
  BY DEF NamesOnce, Unique
<1>2. \A x \in Objects : \A p \in Live(l1[x], nm1) : p \in Live(l[x], nm) /\ NameOf(nm1, p) = NameOf(nm, p)
  <2>1. \A x \in Objects : x = o \/ x \in Objects \ {o}
    OBVIOUS
  <2>. QED
    BY <2>1 DEF Removes
<1>3. NamesOnce(l1, nm1)
  BY <1>1, <1>2 DEF NamesOnce, Unique
<1>4. \A x \in Objects \ {o} : Live(l1[x], nm1) = Live(l[x], nm)
  BY DEF Removes
<1>5. \A x \in Objects \ {o} : \A p \in Live(l[x], nm) : NameOf(nm1, p) = NameOf(nm, p)
  BY <1>2, <1>4
<1>6. MapsBut({o}, M, l1, nm1)
  BY <1>4, <1>5, MapForLists
<1>. QED
  BY <1>3, <1>6

\* The cache once they are invalidated.
LEMMA RemovesCache ==
  ASSUME CacheOK(lcache, lcached, list, name), NEW o \in Objects, NEW gone, NEW l1, NEW nm1,
         Removes(list, name, o, gone, l1, nm1), LcacheInvalidate(o, gone)
  PROVE  CacheOK(lcache', lcached', l1, nm1)
<1>1. \A x \in Objects : x = o \/ x \in Objects \ {o}
  OBVIOUS
<1>2. \A x \in Objects : \A p \in Live(list[x], name) :
        p \notin gone => p \in Live(l1[x], nm1) /\ NameOf(nm1, p) = NameOf(name, p)
  BY <1>1 DEF Removes
<1>3. \A x \in Objects : \A p \in Live(list[x], name) :
        p \notin gone /\ p \in lcached => p \in Live(l1[x], nm1) /\ NameOf(nm1, p) = NameOf(name, p)
  BY <1>2
<1>4. \A x \in Objects \ {o} : Live(list[x], name) \cap gone = {}
  BY DEF Removes
<1>. QED
  BY <1>3, <1>4, LcacheInvalidateOK

\* Properties leave the hashmap, the cache and the list.
LEMMA DeletePropertiesOK ==
  ASSUME ~ Weak, PropInv, NEW o \in Objects, NEW props \in Seq(Props), Once(props),
         Elements(props) \subseteq Live(list[o], name), DeleteProperties(o, props)
  PROVE  PropInv'
<1> DEFINE gone == Elements(props)
           name1 == [p \in Pairs |-> [i \in Slots |-> IF <<p, i>> \in gone THEN Deleted ELSE name[p][i]]]
           S == {p \in Pairs : \E i \in Slots : name1[p][i] # Deleted}
           list1 == Kept(list[o], S)
           l1 == [list EXCEPT ![o] = list1]
           d == HashmapDeleteAll(Head(maps[o]), props)
<1>1. PairsOnce(list) /\ NamesOnce(list, name) /\ CacheOK(lcache, lcached, list, name)
      /\ MapsBut({}, maps, list, name) /\ heap \in HeapType
  BY DEF PropInv
<1>2. list \in [Objects -> Seq(Pairs)] /\ list[o] \in Seq(Pairs) /\ Once(list[o]) /\ name \in NamesType
  BY <1>1 DEF PairsOnce, NamesOnce
<1>3. Range(props) = gone
  BY ElementsRange
<1>4. /\ props # <<>> /\ LcacheInvalidate(o, gone) /\ name' = name1 /\ list' = l1
      /\ maps[o] = <<>> => maps' = maps /\ heap' = heap
      /\ maps[o] # <<>> /\ d.recreate =>
           \E r \in HashmapCreate(o, list1, name1, [maps EXCEPT ![o] = Tail(@)], heap) :
             maps' = r.maps /\ heap' = r.heap
      /\ maps[o] # <<>> /\ ~ d.recreate => maps' = [maps EXCEPT ![o] = <<d.map>>] /\ heap' = heap
  BY <1>3 DEF DeleteProperties
<1>5. list1 \in Seq(Pairs) /\ Elements(list1) = Elements(list[o]) \cap S /\ Once(list1)
  BY <1>2, KeptFacts
<1>. HIDE DEF list1
<1>6. l1 \in [Objects -> Seq(Pairs)] /\ l1[o] = list1 /\ \A x \in Objects \ {o} : l1[x] = list[x]
  BY <1>2, <1>5
<1>. HIDE DEF l1
<1>7. name1 \in NamesType
  BY <1>2 DEF NamesType
<1>. HIDE DEF gone
<1>8. \A q \in Props : NameOf(name1, q) = IF q \in gone THEN Deleted ELSE NameOf(name, q)
  <2>1. \A q \in Props : q = <<q[1], q[2]>> /\ q[1] \in Pairs /\ q[2] \in Slots
    BY DEF Props
  <2>2. \A q \in Props : name1[q[1]][q[2]] = IF <<q[1], q[2]>> \in gone THEN Deleted ELSE name[q[1]][q[2]]
    BY <2>1
  <2>. QED
    BY <2>1, <2>2 DEF NameOf
<1>9. \A q \in Props : NameOf(name1, q) # Deleted => q[1] \in S
  BY DEF Props, NameOf
<1>. HIDE DEF name1, S
<1>10. Removes(list, name, o, gone, l1, name1)
  <2>1. Live(list1, name1) = Live(list[o], name) \ gone
    BY <1>5, <1>8, <1>9, LiveIs
  <2>2. ASSUME NEW x \in Objects \ {o}, NEW q \in gone PROVE q[1] \notin Elements(list[x])
    <3>1. q[1] \in Elements(list[o])
      BY LiveIs DEF gone
    <3>. QED
      BY <1>1, <3>1 DEF PairsOnce
  <2>3. ASSUME NEW x \in Objects \ {o} PROVE Live(l1[x], name1) = Live(list[x], name) /\ Live(list[x], name) \cap gone = {}
    <3>1. Live(list[x], name) \cap gone = {}
      BY <2>2, LiveIs
    <3>3. \A q \in Props : q[1] \in Elements(list[x]) => NameOf(name1, q) = NameOf(name, q)
      BY <1>8, <2>2
    <3>2. Live(list[x], name1) = Live(list[x], name)
      BY <3>3, LiveSame
    <3>. QED
      BY <1>6, <3>1, <3>2
  <2>4. \A x \in Objects : \A p \in Live(list[x], name) \ gone : NameOf(name1, p) = NameOf(name, p)
    BY <1>8, LiveIs
  <2>. QED
    BY <1>6, <2>1, <2>3, <2>4 DEF Removes
<1>11. PairsOnce(l1)
  <2>1. \A x \in Objects : Once(l1[x])
    BY <1>1, <1>5, <1>6 DEF PairsOnce
  <2>2. \A x \in Objects : Elements(l1[x]) \subseteq Elements(list[x])
    BY <1>5, <1>6
  <2>3. \A x, y \in Objects : x # y => Elements(l1[x]) \cap Elements(l1[y]) = {}
    BY <1>1, <2>2 DEF PairsOnce
  <2>. QED
    BY <1>6, <2>1, <2>3 DEF PairsOnce
<1>12. NamesOnce(l1, name1) /\ MapsBut({o}, maps, l1, name1)
  BY <1>1, <1>7, <1>10, RemovesOK
<1>13. CacheOK(lcache', lcached', l1, name1)
  BY <1>1, <1>4, <1>10, RemovesCache
<1>14. Live(l1[o], name1) = Live(list[o], name) \ gone
  BY <1>10 DEF Removes
<1>15. MapsBut({}, maps', l1, name1) /\ heap' \in HeapType
  <2>1. CASE maps[o] = <<>>
    <3>1. MapFor(maps[o], Live(l1[o], name1), name1)
      BY <2>1 DEF MapFor
    <3>2. MapsBut({}, maps, l1, name1)
      BY <1>12, <3>1, MapsButFull
    <3>. QED
      BY <1>1, <1>4, <2>1, <3>2
  <2>2. ASSUME maps[o] # <<>> PROVE MapsBut({}, maps', l1, name1) /\ heap' \in HeapType
    <3> DEFINE L == Live(list[o], name)
    <3>1. MapFor(maps[o], L, name)
      BY <1>1 DEF MapsBut
    <3>2. PICK m : maps[o] = <<m>> /\ MapOK(m, L, name) /\ m.nulls >= 1
      BY <2>2, <3>1 DEF MapFor
    <3>3. Head(maps[o]) = m /\ Tail(maps[o]) = <<>>
      BY <3>2
    <3>4. CASE d.recreate
      <4> DEFINE M1 == [maps EXCEPT ![o] = <<>>]
      <4>1. PICK r \in HashmapCreate(o, l1[o], name1, M1, heap) : maps' = r.maps /\ heap' = r.heap
        BY <1>4, <1>6, <2>2, <3>3, <3>4
      <4>2. M1[o] = <<>>
        BY <1>1 DEF MapsBut
      <4>3. MapsBut({o}, M1, l1, name1)
        <5>1. MapFor(<<>>, Live(l1[o], name1), name1)
          BY DEF MapFor
        <5>2. MapsBut({}, M1, l1, name1)
          BY <1>12, <5>1, MapsButPut
        <5>. QED
          BY <5>2, MapsButMore
      <4>. HIDE DEF M1
      <4>4. l1[o] \in Seq(Pairs) /\ Once(l1[o])
        BY <1>5, <1>6
      <4>5. MapsBut({}, r.maps, l1, name1) /\ r.heap \in HeapType
        BY <1>1, <1>7, <4>1, <4>2, <4>3, <4>4, HashmapCreateOK
      <4>. QED
        BY <4>1, <4>5
    <3>5. CASE ~ d.recreate
      <4> DEFINE q == d.map
      <4>1. maps' = [maps EXCEPT ![o] = <<q>>] /\ heap' = heap
        BY <1>4, <2>2, <3>5
      <4>2. /\ MapOK(q, L \ gone, name) /\ q.nulls >= 1 /\ q.unused <= (q.size * 3) \div 4
        <5>1. ~ HashmapDeleteAll(m, props).recreate /\ q = HashmapDeleteAll(m, props).map
          BY <3>3, <3>5
        <5>. HIDE DEF q, d, L
        <5>2. Elements(props) \subseteq L /\ props # <<>>
          BY <1>4 DEF L
        <5>3. \A q1, L1 : MapOK(q1, L1, name) /\ q1.nulls >= 1 /\ Elements(props) \subseteq L1
                          /\ ~ HashmapDeleteAll(q1, props).recreate =>
                /\ MapOK(HashmapDeleteAll(q1, props).map, L1 \ Elements(props), name)
                /\ HashmapDeleteAll(q1, props).map.nulls >= 1
                /\ HashmapDeleteAll(q1, props).map.unused <= (HashmapDeleteAll(q1, props).map.size * 3) \div 4
          BY <5>2, HashmapDeleteAllOK
        <5>. QED
          BY <3>2, <5>1, <5>2, <5>3 DEF gone
      <4>. HIDE DEF q, L
      <4>3. L \ gone # {}
        BY <4>2, NotEmpty
      <4>4. \A p \in L \ gone : NameOf(name1, p) = NameOf(name, p)
        BY <1>10 DEF Removes, L
      <4>5. MapOK(q, L \ gone, name1)
        BY <4>2, <4>4, MapNames
      <4>6. MapFor(<<q>>, Live(l1[o], name1), name1)
        BY <1>14, <4>2, <4>3, <4>5 DEF MapFor, L
      <4>7. MapsBut({}, [maps EXCEPT ![o] = <<q>>], l1, name1)
        BY <1>12, <4>6, MapsButPut
      <4>. QED
        BY <1>1, <4>1, <4>7
    <3>. QED
      BY <3>4, <3>5
  <2>. QED
    BY <2>1, <2>2
<1>. QED
  BY <1>4, <1>11, <1>12, <1>13, <1>15 DEF PropInv

\* What a walk over the list of an object finds.
LEMMA ListFindFacts ==
  ASSUME PropInv, NEW o \in Objects, NEW n \in Names
  PROVE  /\ ListFind(o, n) # None => ListFind(o, n) \in Live(list[o], name) /\ NameOf(name, ListFind(o, n)) = n
         /\ list[o] \in Seq(Pairs) /\ Once(list[o]) /\ name \in NamesType /\ Unique(list[o], name)
<1>1. list[o] \in Seq(Pairs) /\ Once(list[o]) /\ name \in NamesType /\ Unique(list[o], name)
  BY DEF PropInv, PairsOnce, NamesOnce
<1>. QED
  BY <1>1, WalkFacts DEF ListFind

\* ecma_delete_property.
LEMMA DeleteOK ==
  ASSUME ~ Weak, PropInv, NEW o \in Objects, NEW n \in Names, Delete(o, n)
  PROVE  PropInv'
<1> DEFINE w == ListFind(o, n)
           props == <<w>>
<1>1. w \in Live(list[o], name) /\ w \in Props
  BY ListFindFacts DEF Delete, Live
<1>2. DeleteProperties(o, props)
  BY DEF Delete
<1>. HIDE DEF w
<1>3. props \in Seq(Props) /\ Once(props) /\ Elements(props) = {w}
  BY <1>1 DEF Once, Elements
<1>. HIDE DEF props
<1>. QED
  BY <1>1, <1>2, <1>3, DeletePropertiesOK

\* ecma_delete_array_properties.
LEMMA DeleteArrayOK ==
  ASSUME ~ Weak, PropInv, NEW o \in Objects, NEW n \in Names, DeleteArray(o, n)
  PROVE  PropInv'
<1> DEFINE all == Properties(list[o], name)
           S == {prop \in Props : name[prop[1]][prop[2]] >= n}
           props == Kept(all, S)
<1>1. list[o] \in Seq(Pairs) /\ Once(list[o]) /\ name \in NamesType
  BY ListFindFacts
<1>2. all \in Seq(Props) /\ Elements(all) = Live(list[o], name) /\ Once(all)
  BY <1>1, PropertiesFacts
<1>3. DeleteProperties(o, props)
  BY DEF DeleteArray
<1>. HIDE DEF all, S
<1>4. props \in Seq(Props) /\ Once(props) /\ Elements(props) = Elements(all) \cap S
  BY <1>2, KeptFacts
<1>. HIDE DEF props
<1>5. Elements(props) \subseteq Live(list[o], name)
  BY <1>2, <1>4
<1>. QED
  BY <1>3, <1>4, <1>5, DeletePropertiesOK

\* ecma_gc_free_properties.
LEMMA FreeObjectOK ==
  ASSUME PropInv, NEW o \in Objects, FreeObject(o)
  PROVE  PropInv'
<1> DEFINE gone == Live(list[o], name)
<1>1. PairsOnce(list) /\ NamesOnce(list, name) /\ CacheOK(lcache, lcached, list, name)
      /\ MapsBut({}, maps, list, name) /\ heap \in HeapType
  BY DEF PropInv
<1>2. list \in [Objects -> Seq(Pairs)] /\ list[o] \in Seq(Pairs) /\ Once(list[o]) /\ name \in NamesType
  BY <1>1 DEF PairsOnce, NamesOnce
<1>3. Range(Properties(list[o], name)) = gone /\ Range(list[o]) = Elements(list[o])
  <2>1. Properties(list[o], name) \in Seq(Props) /\ Elements(Properties(list[o], name)) = gone
    BY <1>2, PropertiesFacts
  <2>2. Range(Properties(list[o], name)) = Elements(Properties(list[o], name))
    BY <2>1, ElementsRange
  <2>. QED
    BY <1>2, <2>1, <2>2, ElementsRange
<1>4. /\ LcacheInvalidate(o, gone) /\ list' = [list EXCEPT ![o] = <<>>]
      /\ name' = [p \in Pairs |-> IF p \in Elements(list[o]) THEN [i \in Slots |-> Deleted] ELSE name[p]]
      /\ maps' = [maps EXCEPT ![o] = <<>>] /\ heap' = heap
  BY <1>3 DEF FreeObject
<1>5. name' \in NamesType /\ \A p \in Pairs : p \notin Elements(list[o]) => name'[p] = name[p]
  BY <1>2, <1>4 DEF NamesType
<1>6. list' \in [Objects -> Seq(Pairs)] /\ list'[o] = <<>> /\ \A x \in Objects \ {o} : list'[x] = list[x]
  BY <1>2, <1>4
<1>7. Elements(list'[o]) = {} /\ Once(list'[o])
  BY <1>6 DEF Elements, Once
<1>8. \A x \in Objects \ {o} : Elements(list[x]) \cap Elements(list[o]) = {}
  BY <1>1 DEF PairsOnce
<1>9. \A q \in Props : q[1] \notin Elements(list[o]) => NameOf(name', q) = NameOf(name, q)
  BY <1>5 DEF NameOf, Props
<1>10. Removes(list, name, o, gone, list', name')
  <2>1. Live(list'[o], name') = Live(list[o], name) \ gone
    BY <1>7, LiveIs
  <2>2. ASSUME NEW x \in Objects \ {o} PROVE Live(list'[x], name') = Live(list[x], name) /\ Live(list[x], name) \cap gone = {}
    <3>1. Live(list[x], name) \cap gone = {}
      BY <1>8, LiveIs
    <3>2. \A q \in Props : q[1] \in Elements(list[x]) => NameOf(name', q) = NameOf(name, q)
      BY <1>8, <1>9
    <3>3. Live(list[x], name') = Live(list[x], name)
      BY <3>2, LiveSame
    <3>. QED
      BY <1>6, <3>1, <3>3
  <2>3. ASSUME NEW x \in Objects, NEW q \in Live(list[x], name) \ gone PROVE NameOf(name', q) = NameOf(name, q)
    <3>1. x # o
      BY <2>3
    <3>. QED
      BY <1>8, <1>9, <2>3, <3>1, LiveIs
  <2>. QED
    BY <2>1, <2>2, <2>3 DEF Removes
<1>11. PairsOnce(list')
  <2>1. \A x \in Objects : Once(list'[x])
    BY <1>1, <1>6, <1>7 DEF PairsOnce
  <2>2. \A x \in Objects : Elements(list'[x]) \subseteq Elements(list[x])
    BY <1>6, <1>7
  <2>3. \A x, y \in Objects : x # y => Elements(list'[x]) \cap Elements(list'[y]) = {}
    BY <1>1, <2>2 DEF PairsOnce
  <2>. QED
    BY <1>6, <2>1, <2>3 DEF PairsOnce
<1>12. NamesOnce(list', name') /\ MapsBut({o}, maps, list', name')
  BY <1>1, <1>5, <1>10, RemovesOK
<1>13. CacheOK(lcache', lcached', list', name')
  BY <1>1, <1>4, <1>10, RemovesCache
<1>14. MapFor(<<>>, Live(list'[o], name'), name')
  BY DEF MapFor
<1>15. MapsBut({}, maps', list', name')
  BY <1>4, <1>12, <1>14, MapsButPut
<1>. QED
  BY <1>1, <1>4, <1>11, <1>12, <1>13, <1>15 DEF PropInv

\* ecma_find_named_property, with what it puts in the cache and in the hashmap.
LEMMA FindOK ==
  ASSUME ~ Weak, PropInv, NEW o \in Objects, NEW n \in Names, Find(o, n)
  PROVE  PropInv'
<1> DEFINE prop == IF maps[o] # <<>> THEN HashFind(Head(maps[o]), name, n) ELSE ListFind(o, n)
<1>1. PairsOnce(list) /\ NamesOnce(list, name) /\ CacheOK(lcache, lcached, list, name)
      /\ MapsBut({}, maps, list, name) /\ heap \in HeapType
  BY DEF PropInv
<1>2. list[o] \in Seq(Pairs) /\ Once(list[o]) /\ name \in NamesType /\ Unique(list[o], name)
  BY ListFindFacts
<1>3. /\ \/ maps[o] = <<>> /\ \E r \in HashmapCreate(o, list[o], name, maps, heap) : maps' = r.maps /\ heap' = r.heap
         \/ maps' = maps /\ heap' = heap
      /\ \/ prop # None /\ prop \notin lcached /\ LcacheInsert(o, n, prop)
         \/ lcache' = lcache /\ lcached' = lcached
      /\ list' = list /\ name' = name
  BY DEF Find
<1>4. prop = ListFind(o, n)
  <2>1. CASE maps[o] = <<>>
    BY <2>1
  <2>2. CASE maps[o] # <<>>
    <3>1. MapFor(maps[o], Live(list[o], name), name)
      BY <1>1 DEF MapsBut
    <3>2. PICK m : maps[o] = <<m>> /\ MapOK(m, Live(list[o], name), name) /\ m.nulls >= 1
      BY <2>2, <3>1 DEF MapFor
    <3>3. HashFind(m, name, n) = Walk(list[o], name, n)
      BY <1>2, <3>2, SearchesAgree
    <3>4. Head(maps[o]) = m
      BY <3>2
    <3>. QED
      BY <2>2, <3>3, <3>4 DEF ListFind
  <2>. QED
    BY <2>1, <2>2
<1>. HIDE DEF prop
<1>5. prop # None => prop \in Live(list[o], name) /\ NameOf(name, prop) = n
  BY <1>4, ListFindFacts
<1>6. CacheOK(lcache', lcached', list, name)
  <2>1. CASE prop # None /\ prop \notin lcached /\ LcacheInsert(o, n, prop)
    BY <1>1, <1>5, <2>1, LcacheInsertOK
  <2>2. CASE lcache' = lcache /\ lcached' = lcached
    BY <1>1, <2>2
  <2>. QED
    BY <1>3, <2>1, <2>2
<1>7. MapsBut({}, maps', list, name) /\ heap' \in HeapType
  <2>1. ASSUME maps[o] = <<>>, NEW r \in HashmapCreate(o, list[o], name, maps, heap)
        PROVE  MapsBut({}, r.maps, list, name) /\ r.heap \in HeapType
    BY <1>1, <1>2, <2>1, MapsButMore, HashmapCreateOK
  <2>. QED
    BY <1>1, <1>3, <2>1
<1>. QED
  BY <1>1, <1>3, <1>6, <1>7 DEF PropInv

\* ecma_op_object_get_own_property on a mapped arguments object.
LEMMA FindMappedOK ==
  ASSUME PropInv, NEW o \in Objects, NEW n \in Names, FindMapped(o, n)
  PROVE  PropInv'
<1>1. CacheOK(lcache', lcached', list, name)
  <2>1. \A x \in Objects : \A p \in Live(list[x], name) :
          p \notin {ListFind(o, n)} /\ p \in lcached => p \in Live(list[x], name) /\ NameOf(name, p) = NameOf(name, p)
    OBVIOUS
  <2>2. CacheOK(lcache, lcached, list, name) /\ LcacheInvalidate(o, {ListFind(o, n)})
    BY DEF PropInv, FindMapped
  <2>3. ListFind(o, n) \in lcached /\ lcached \subseteq Props
    BY <2>2 DEF FindMapped, CacheOK
  <2>4. ListFind(o, n) # None
    BY <2>3, EntryFacts
  <2>5. ListFind(o, n) \in Live(list[o], name)
    BY <2>4, ListFindFacts
  <2>6. \A x \in Objects \ {o} : Elements(list[x]) \cap Elements(list[o]) = {}
    BY DEF PropInv, PairsOnce
  <2>7. \A x \in Objects \ {o} : Live(list[x], name) \cap {ListFind(o, n)} = {}
    BY <2>5, <2>6, LiveIs
  <2> DEFINE S == {ListFind(o, n)}
  <2>. HIDE DEF S
  <2>. QED
    BY <2>1, <2>2, <2>7, LcacheInvalidateOK DEF S
<1>. QED
  BY <1>1 DEF PropInv, FindMapped

\* ecma_free_unused_memory for other parts of the engine.
LEMMA PressureOK ==
  ASSUME PropInv, PressureLow \/ PressureHigh
  PROVE  PropInv'
<1>1. heap \in HeapType
  BY DEF PropInv
<1>2. CASE PressureLow
  BY <1>1, <1>2, Pressure DEF PropInv, PressureLow
<1>3. CASE PressureHigh
  <2>1. MapsBut({}, maps', list, name)
    BY <1>3, MapsButNone DEF PressureHigh
  <2>. QED
    BY <1>1, <1>3, <2>1, Pressure DEF PropInv, PressureHigh
<1>. QED
  BY <1>2, <1>3

-----------------------------------------------------------------------------
(* The theorems                                                            *)

\* The strengthened invariant: a pair is in one list once, a name is that of
\* one property of an object, the cache files every flagged property once and
\* under its object and name, every hashmap holds exactly the properties of its
\* object and is reached before a NULL from every name it holds, and its
\* counters count; where no weak reference makes a hashmap in the middle of
\* ecma_property_hashmap_create.
THEOREM PropertyInvariant ==
  ASSUME ~ Weak
  PROVE  Spec => []PropInv
<1>1. ASSUME PropInv, [Next]_vars PROVE PropInv'
  <2>1. CASE PressureLow \/ PressureHigh
    BY <1>1, <2>1, PressureOK
  <2>2. ASSUME NEW o \in Objects, FreeObject(o) PROVE PropInv'
    BY <1>1, <2>2, FreeObjectOK
  <2>3. ASSUME NEW o \in Objects, NEW n \in Names, Find(o, n) PROVE PropInv'
    BY <1>1, <2>3, FindOK
  <2>4. ASSUME NEW o \in Objects, NEW n \in Names, FindMapped(o, n) PROVE PropInv'
    BY <1>1, <2>4, FindMappedOK
  <2>5. ASSUME NEW o \in Objects, NEW n \in Names, CreateInFirst(o, n) PROVE PropInv'
    BY <1>1, <2>5, CreateInFirstOK
  <2>6. ASSUME NEW o \in Objects, NEW n \in Names, CreateInNew(o, n) PROVE PropInv'
    BY <1>1, <2>6, CreateInNewOK
  <2>7. ASSUME NEW o \in Objects, NEW n \in Names, Delete(o, n) PROVE PropInv'
    BY <1>1, <2>7, DeleteOK
  <2>8. ASSUME NEW o \in Objects, NEW n \in Names, DeleteArray(o, n) PROVE PropInv'
    BY <1>1, <2>8, DeleteArrayOK
  <2>9. CASE UNCHANGED vars
    BY <1>1, <2>9 DEF vars, PropInv
  <2>. QED
    BY <1>1, <2>1, <2>2, <2>3, <2>4, <2>5, <2>6, <2>7, <2>8, <2>9 DEF Next
<1>. QED
  BY <1>1, PropInit, PTL DEF Spec

\* The hashmap of an object.
LEMMA InvMaps ==
  ASSUME PropInv, NEW o \in Objects
  PROVE  maps[o] = <<>> \/ \E m : maps[o] = <<m>> /\ MapOK(m, Live(list[o], name), name) /\ m.nulls >= 1
                                  /\ Live(list[o], name) # {}
BY DEF PropInv, MapsBut, MapFor

\* The invariant implies that the cache is exact,
LEMMA InvCache == PropInv => CacheExact
<1>. SUFFICES ASSUME PropInv PROVE CacheExact
  OBVIOUS
<1> DEFINE entries == {e \in (0..(Rows - 1)) \X (1..RowLength) : lcache[e[1]][e[2]] # Empty}
           Of(prop) == {e \in entries : lcache[e[1]][e[2]][3] = prop}
<1>1. CacheType(lcache) /\ lcached \subseteq Props /\ CacheFiled(lcache, lcached, list, name)
      /\ CacheOnce(lcache) /\ CacheAll(lcache, lcached)
  BY DEF PropInv, CacheOK
<1>2. \A e \in entries : e = <<e[1], e[2]>> /\ e[1] \in RowIndexes /\ e[2] \in Columns /\ lcache[e[1]][e[2]] # Empty
  BY DEF RowIndexes, Columns
<1>3. \A r \in RowIndexes, i \in Columns : lcache[r][i] # Empty => <<r, i>> \in entries
  BY DEF RowIndexes, Columns
<1>. HIDE DEF entries
<1>4. ASSUME NEW e \in entries
      PROVE  LET entry == lcache[e[1]][e[2]]
             IN e[1] = Row(entry[1], entry[2]) /\ ListFind(entry[1], entry[2]) = entry[3]
  <2> DEFINE x == lcache[e[1]][e[2]]
  <2>1. EntryOK(x, e[1], lcached, list, name) /\ x \in Entries
    BY <1>1, <1>2, <1>4 DEF CacheFiled, CacheType
  <2>. HIDE DEF x
  <2>2. x[1] \in Objects /\ x[2] \in Names
    BY <2>1, EntryType
  <2>3. /\ list[x[1]] \in Seq(Pairs) /\ name \in NamesType /\ Unique(list[x[1]], name)
    BY <2>2, ListFindFacts
  <2>4. x[3] \in Live(list[x[1]], name) /\ NameOf(name, x[3]) = x[2] /\ e[1] = Row(x[1], x[2])
    BY <2>1 DEF EntryOK
  <2>5. ListFind(x[1], x[2]) = x[3]
    BY <2>2, <2>3, <2>4, WalkUnique DEF ListFind
  <2>. QED
    BY <2>4, <2>5 DEF x
<1>5. ASSUME NEW prop \in Props, prop \in lcached PROVE Cardinality(Of(prop)) = 1
  <2>1. PICK r \in RowIndexes, i \in Columns : lcache[r][i] # Empty /\ lcache[r][i][3] = prop
    BY <1>1, <1>5 DEF CacheAll
  <2>2. <<r, i>> \in Of(prop)
    BY <1>3, <2>1
  <2>3. ASSUME NEW e \in Of(prop) PROVE e = <<r, i>>
    <3>1. e = <<e[1], e[2]>> /\ e[1] \in RowIndexes /\ e[2] \in Columns /\ lcache[e[1]][e[2]] # Empty
          /\ lcache[e[1]][e[2]][3] = prop
      BY <1>2, <2>3
    <3>2. e[1] = r /\ e[2] = i
      BY <1>1, <2>1, <3>1 DEF CacheOnce
    <3>. QED
      BY <3>1, <3>2
  <2>4. Of(prop) = {<<r, i>>}
    <3>. HIDE DEF Of
    <3>. QED
      BY <2>2, <2>3
  <2>. QED
    BY <2>4, FS_Singleton
<1>6. ASSUME NEW prop \in Props, prop \notin lcached PROVE Cardinality(Of(prop)) = 0
  <2>1. ASSUME NEW e \in Of(prop) PROVE FALSE
    <3>1. e[1] \in RowIndexes /\ e[2] \in Columns /\ lcache[e[1]][e[2]] # Empty /\ lcache[e[1]][e[2]][3] = prop
      BY <1>2, <2>1
    <3>. QED
      BY <1>1, <1>6, <3>1 DEF CacheFiled, EntryOK
  <2>2. Of(prop) = {}
    <3>. HIDE DEF Of
    <3>. QED
      BY <2>1
  <2>. QED
    BY <2>2, FS_EmptySet
<1>7. ASSUME NEW prop \in Props PROVE Cardinality(Of(prop)) = IF prop \in lcached THEN 1 ELSE 0
  <2>. HIDE DEF Of
  <2>. QED
    BY <1>5, <1>6
<1>8. CacheExact <=>
        /\ \A e \in entries : LET entry == lcache[e[1]][e[2]]
                              IN e[1] = Row(entry[1], entry[2]) /\ ListFind(entry[1], entry[2]) = entry[3]
        /\ \A prop \in Props : Cardinality(Of(prop)) = IF prop \in lcached THEN 1 ELSE 0
  BY DEF CacheExact, entries
<1>. HIDE DEF Of
<1>. QED
  BY <1>4, <1>7, <1>8

\* that the hashmap and the list agree,
LEMMA InvCoherent == PropInv => MapCoherent
<1>. SUFFICES ASSUME PropInv, NEW o \in Objects, maps[o] # <<>>, NEW n \in Names
              PROVE  /\ FirstProbe(Head(maps[o]).size, n, Nulls(Head(maps[o]))) # -1
                     /\ HashFind(Head(maps[o]), name, n) = ListFind(o, n)
  BY DEF MapCoherent
<1>1. PICK m : maps[o] = <<m>> /\ MapOK(m, Live(list[o], name), name) /\ m.nulls >= 1
  BY InvMaps
<1>2. Head(maps[o]) = m
  BY <1>1
<1>3. list[o] \in Seq(Pairs) /\ name \in NamesType /\ Unique(list[o], name)
  BY ListFindFacts
<1>4. FirstProbe(m.size, n, Nulls(m)) # -1 /\ HashFind(m, name, n) = Walk(list[o], name, n)
  BY <1>1, <1>3, SearchesAgree
<1>. QED
  BY <1>2, <1>4 DEF ListFind

\* that the counters count,
LEMMA InvCounts == PropInv => MapCounts
<1>. SUFFICES ASSUME PropInv PROVE MapCounts
  OBVIOUS
<1>1. ASSUME NEW m, NEW L, MapOK(m, L, name)
      PROVE  /\ m.size \in Nat /\ m.nulls \in 0..m.size /\ m.unused \in 0..m.size
             /\ m.at \in [0..(m.size - 1) -> Entry]
             /\ m.nulls = Cardinality(Nulls(m)) /\ m.unused = Cardinality(Unused(m))
  <2>1. IsSize(m.size) /\ m \in MapOf(m.size) /\ m.nulls = Cardinality(Nulls(m)) /\ m.unused = Cardinality(Unused(m))
    BY <1>1 DEF MapOK, Counts
  <2>2. /\ m.size \in Nat /\ m.at \in [0..(m.size - 1) -> Entry]
        /\ Nulls(m) \subseteq 0..(m.size - 1) /\ Unused(m) \subseteq 0..(m.size - 1)
    BY <2>1, MapSets
  <2>3. IsFiniteSet(0..(m.size - 1)) /\ Cardinality(0..(m.size - 1)) = m.size
    BY <2>2, FS_Interval
  <2>4. /\ Cardinality(Nulls(m)) \in Nat /\ Cardinality(Nulls(m)) <= m.size
    BY <2>2, <2>3, FS_Subset, FS_CardinalityType
  <2>5. Cardinality(Unused(m)) \in Nat /\ Cardinality(Unused(m)) <= m.size
    BY <2>2, <2>3, FS_Subset, FS_CardinalityType
  <2>. QED
    BY <2>1, <2>2, <2>4, <2>5
<1>2. TypeOK
  <2>1. list \in [Objects -> Seq(Pairs)] /\ name \in [Pairs -> [Slots -> Names \cup {Deleted}]]
    BY DEF PropInv, PairsOnce, NamesOnce, NamesType
  <2>2. ASSUME NEW o \in Objects, NEW k \in 1..Len(maps[o])
        PROVE  LET m == maps[o][k]
               IN /\ m.size \in Nat /\ m.nulls \in 0..m.size /\ m.unused \in 0..m.size
                  /\ m.at \in [0..(m.size - 1) -> Entry]
    <3>1. maps[o] # <<>>
      BY <2>2
    <3>2. PICK m : maps[o] = <<m>> /\ MapOK(m, Live(list[o], name), name)
      BY <3>1, InvMaps
    <3>3. maps[o][k] = m
      BY <2>2, <3>2
    <3>. QED
      BY <1>1, <3>2, <3>3
  <2>3. lcached \subseteq Props /\ CacheType(lcache)
    BY DEF PropInv, CacheOK
  <2>4. \A r \in DOMAIN lcache : \A i \in 1..RowLength : lcache[r][i] \in {Empty} \cup (Objects \X Names \X Props)
    BY <2>3 DEF CacheType, Columns, Entries
  <2>5. heap \in [state : 0..AllocMax, high : BOOLEAN]
    BY DEF PropInv, HeapType
  <2>. QED
    BY <2>1, <2>2, <2>3, <2>4, <2>5 DEF TypeOK
<1>3. ASSUME NEW o \in Objects, maps[o] # <<>>
      PROVE  LET m == Head(maps[o]) IN m.nulls = Cardinality(Nulls(m)) /\ m.unused = Cardinality(Unused(m))
  <2>1. PICK m : maps[o] = <<m>> /\ MapOK(m, Live(list[o], name), name)
    BY <1>3, InvMaps
  <2>2. Head(maps[o]) = m
    BY <2>1
  <2>. QED
    BY <1>1, <2>1, <2>2
<1>. QED
  BY <1>2, <1>3 DEF MapCounts

\* and that there is one hashmap with pairs behind it.
LEMMA InvOne == PropInv => OneHashmap
<1>. SUFFICES ASSUME PropInv, NEW o \in Objects PROVE Len(maps[o]) <= 1 /\ (maps[o] # <<>> => list[o] # <<>>)
  BY DEF OneHashmap
<1>1. CASE maps[o] = <<>>
  BY <1>1
<1>2. CASE maps[o] # <<>>
  <2>1. PICK m : maps[o] = <<m>> /\ Live(list[o], name) # {}
    BY <1>2, InvMaps
  <2>2. Elements(list[o]) # {}
    BY <2>1, LiveIs
  <2>3. list[o] # <<>>
    BY <2>2 DEF Elements
  <2>. QED
    BY <2>1, <2>3
<1>. QED
  BY <1>1, <1>2

\* The cache is exact in every reachable state: a property is flagged if and
\* only if one entry points to it, and every entry is what a walk finds.
THEOREM LookupCacheExact ==
  ASSUME ~ Weak
  PROVE  Spec => []CacheExact
BY PropertyInvariant, InvCache, PTL

\* A search in a hashmap ends and finds what the walk over the list finds: the
\* steps are odd and the sizes powers of two, so that a search looks at every
\* entry, and deleted entries keep the searches that pass them going.
THEOREM SearchesCoherent ==
  ASSUME ~ Weak
  PROVE  Spec => []MapCoherent
BY PropertyInvariant, InvCoherent, PTL

\* The counters of a hashmap count, whatever was deleted, placed or rebuilt.
THEOREM CountersExact ==
  ASSUME ~ Weak
  PROVE  Spec => []MapCounts
BY PropertyInvariant, InvCounts, PTL

\* An object has at most one hashmap, and pairs behind it.
THEOREM HashmapsAlone ==
  ASSUME ~ Weak
  PROVE  Spec => []OneHashmap
BY PropertyInvariant, InvOne, PTL

=============================================================================
